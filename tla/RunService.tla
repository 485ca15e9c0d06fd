----------------------------- MODULE RunService -----------------------------
(***************************************************************************)
(* The GEPA service: worker threads, manual step calls and HTTP control     *)
(* calls that share the run_requests table and, per run, the cursor         *)
(* checkpoint in the run's own workspace                                    *)
(* (synth_gepa/src/service.rs, lib.rs and the store of workspace.rs).       *)
(*                                                                          *)
(* Every actor is a thread.  One step of a thread is one autocommitted SQL  *)
(* statement (with the read back of the row it changed), or one load or     *)
(* save of the cursor; what a thread read in one step it holds in its local *)
(* record and may use after other threads have moved.                       *)
(*                                                                          *)
(* Requests are numbered in the order of submission, which is the order in  *)
(* which the service picks them (priority is always 0 on this path).        *)
(***************************************************************************)
EXTENDS RunRequestStore

CONSTANTS
    Requests,      \* run requests that can exist
    Submitted,     \* those already queued when the service starts
    ManualStep,    \* those created with manual_step = true
    Namespace,     \* request -> cache_namespace; Unshared: not shared
    Unshared,
    Slots,         \* service worker threads; each loops over ticks
    Primary,       \* the slot that also runs recovery (slot-00)
    Steps,         \* POST /runs/{id}/step calls; each runs one tick
    ManualWorker,  \* the worker id that all step calls share
    Millis,        \* bound: the readings of the system clock that lease ids carry
    Calls,         \* other HTTP calls; each is handled once
    Ops,           \* what those calls may be
    NoRequest,
    MaxExpiries,   \* bound: how many deadlines pass
    MaxCrashes     \* bound: how often the process dies

Threads == Slots \cup Steps

WorkerId(t) == IF t \in Steps THEN ManualWorker ELSE t

\* Fault: no service worker is the primary.
IsPrimaryNever(t) == t \in Steps

\* is_primary_service_worker; a step call runs with include_manual_step.
IsPrimary(t) == t = Primary \/ t \in Steps

ASSUME ServiceAssumption ==
    /\ Requests \subseteq Nat /\ Submitted \subseteq Requests
    /\ ManualStep \subseteq Requests
    /\ Namespace \in [Requests -> Nat \cup {Unshared}]
    /\ Slots \cap Steps = {} /\ Primary \in Slots
    /\ Workers = Slots \cup {ManualWorker} /\ ManualWorker \notin Slots
    /\ NoRequest \notin Requests
    /\ Millis \subseteq Nat
    /\ Ops \subseteq {"create", "cancel", "stop", "pause", "resume", "delete"}
    /\ MaxExpiries \in Nat /\ MaxCrashes \in Nat

VARIABLES
    row,        \* run_requests
    res,        \* request -> lease ids with an 'active' row in resource_leases
    cursor,     \* request -> latest gepa cursor checkpoint of its workspace
    tick,       \* thread -> where it is in its tick, and what it read
    call,       \* call -> where it is in its handler, and what it read
    service,    \* "up", or how the last process ended
    expiries,
    crashes

vars == <<row, res, cursor, tick, call, service, expiries, crashes>>

-----------------------------------------------------------------------------
(* The cursor.  Its phases are grouped by what the control plane tells apart:
   setup (initializing, seed_full_train), search (generation_start and the
   proposer and candidate phases, the phase that resume falls back to) and
   heldout (heldout, finalizing). *)

WorkPhase     == {"setup", "search", "heldout"}
TerminalPhase == {"completed", "failed", "cancelled"}
Phase         == WorkPhase \cup TerminalPhase \cup {"paused", "absent"}

Cursor == [seq : Nat, phase : Phase, prev : Phase \cup {"none"}]

NoCursor  == [seq |-> 0, phase |-> "absent", prev |-> "none"]
NewCursor == [seq |-> 0, phase |-> "setup", prev |-> "none"]

NextPhase == [setup |-> "search", search |-> "heldout", heldout |-> "completed"]

\* record_checkpoint + latest_checkpoint: the highest sequence number wins,
\* and among equal ones the one written last.  A workspace deleted under an
\* open connection swallows the write.
Persist(old, k) == IF old.phase # "absent" /\ k.seq >= old.seq THEN k ELSE old

\* What a handler gets from load_gepa_cursor(..).unwrap_or_else(GepaCursor::new).
LoadOrNew(k) == IF k.phase = "absent" THEN NewCursor ELSE k

-----------------------------------------------------------------------------
(* Local state *)

ThreadPc == {"fresh", "idle", "find_cancelled", "select", "claim", "start",
             "start_cursor", "start_save", "heartbeat", "record", "load", "check", "abort",
             "work", "result", "complete", "finish", "done"}

CallPc == {"fresh", "insert", "cancel", "stop_result", "stop_row", "pause_load",
           "pause_save", "pause_row", "resume_load", "resume_save", "resume_row",
           "delete_storage", "delete_row", "done"}

Tick == [pc    : ThreadPc,
         req   : Requests \cup {NoRequest},
         lease : Lease,
         then  : ThreadPc,           \* where to go after "record"
         cur   : Cursor,             \* the cursor loaded at the start of the advance
         out   : TerminalPhase \cup {"none"}]

Call == [pc : CallPc, req : Requests \cup {NoRequest}, cur : Cursor]

Resting(p) == [pc |-> p, req |-> NoRequest, lease |-> NoLease,
               then |-> "idle", cur |-> NoCursor, out |-> "none"]

\* A slot goes round its loop again; a step call answers.
Rest(t) == IF t \in Steps THEN Resting("done") ELSE Resting("idle")

CallAt(p, r) == [pc |-> p, req |-> r, cur |-> NoCursor]

TypeOK ==
    /\ row \in [Requests -> Row]
    /\ res \in [Requests -> SUBSET Lease]
    /\ cursor \in [Requests -> Cursor]
    /\ tick \in [Threads -> Tick]
    /\ call \in [Calls -> Call]
    /\ service \in {"up", "crashed", "stopped"}
    /\ expiries \in 0..MaxExpiries
    /\ crashes \in 0..MaxCrashes

Init ==
    /\ row = [r \in Requests |-> IF r \in Submitted THEN SubmitRunConfig(FALSE) ELSE AbsentRow]
    /\ res = [r \in Requests |-> {}]
    /\ cursor = [r \in Requests |-> NoCursor]
    /\ tick = [t \in Threads |-> IF t \in Steps THEN Resting("fresh") ELSE Resting("idle")]
    /\ call = [c \in Calls |-> CallAt("fresh", NoRequest)]
    /\ service = "up"
    /\ expiries = 0
    /\ crashes = 0

-----------------------------------------------------------------------------
(* recover_expired_run_requests, as the first thing a read path does: the
   rows that readers then see, and their resource leases expired or released. *)

Recovered    == [r \in Requests |-> RecoverExpired(row[r])]
RecoveredRes == [r \in Requests |-> IF RecoverExpired(row[r]) = row[r] THEN res[r] ELSE {}]

Recover == row' = Recovered /\ res' = RecoveredRes

\* A row UPDATE by a handler, which also releases the resource leases.
SetRow(r, x)      == row' = [row EXCEPT ![r] = x] /\ UNCHANGED res
SettleRow(r, x)   == row' = [row EXCEPT ![r] = x] /\ res' = [res EXCEPT ![r] = {}]

Goto(t, p) == tick' = [tick EXCEPT ![t].pc = p]

\* UPDATE done; the resource leases of this lease are recorded in the next step.
GotoRecord(t, p) == tick' = [tick EXCEPT ![t].pc = "record", ![t].then = p]

EndTick(t) == tick' = [tick EXCEPT ![t] = Rest(t)]

Oldest(r, S) == r \in S /\ \A q \in S : r <= q

-----------------------------------------------------------------------------
(* One tick of a worker: tick_next_unit_inner *)

\* step_run: the run must exist, be manual_step and not be terminal.
StepRun(t) ==
    /\ t \in Steps /\ tick[t].pc = "fresh"
    /\ Recover
    /\ \E r \in Requests :
         tick' = [tick EXCEPT ![t] =
                    IF Exists(Recovered[r]) /\ r \in ManualStep /\ ~IsTerminal(Recovered[r])
                      THEN Resting("idle") ELSE Resting("done")]
    /\ UNCHANGED <<cursor, call>>

\* Fault: active_run_request does not filter on the worker id.
ActiveRunRequestOfAnyWorker(t) ==
    LET mine == {r \in Requests : Recovered[r].status \in ActiveStatus}
    IN  /\ tick[t].pc = "idle"
        /\ Recover
        /\ \/ mine = {} /\ Goto(t, IF IsPrimary(t) THEN "find_cancelled" ELSE "select")
           \/ \E r \in mine :
                /\ Oldest(r, mine)
                /\ tick' = [tick EXCEPT
                     ![t].pc    = IF Recovered[r].status = "leased" THEN "start" ELSE "heartbeat",
                     ![t].req   = r,
                     ![t].lease = Recovered[r].lease]
        /\ UNCHANGED <<cursor, call>>

\* Fault: active_run_request forgets the leased rows.
ActiveRunRequestIfRunning(t) ==
    LET mine == {r \in Requests : /\ Recovered[r].status = "running"
                                  /\ Recovered[r].worker = WorkerId(t)}
    IN  /\ tick[t].pc = "idle"
        /\ Recover
        /\ \/ mine = {} /\ Goto(t, IF IsPrimary(t) THEN "find_cancelled" ELSE "select")
           \/ \E r \in mine :
                /\ Oldest(r, mine)
                /\ tick' = [tick EXCEPT ![t].pc = "heartbeat", ![t].req = r,
                                        ![t].lease = Recovered[r].lease]
        /\ UNCHANGED <<cursor, call>>

\* active_run_request: the oldest leased or running row of this worker id.
ActiveRunRequest(t) ==
    LET mine == {r \in Requests : /\ Recovered[r].status \in ActiveStatus
                                  /\ Recovered[r].worker = WorkerId(t)}
    IN  /\ tick[t].pc = "idle"
        /\ Recover
        /\ \/ /\ mine = {}
              /\ Goto(t, IF IsPrimary(t) THEN "find_cancelled" ELSE "select")
           \/ \E r \in mine :
                /\ Oldest(r, mine)
                /\ tick' = [tick EXCEPT
                     ![t].pc    = IF Recovered[r].status = "leased" THEN "start" ELSE "heartbeat",
                     ![t].req   = r,
                     ![t].lease = Recovered[r].lease]
        /\ UNCHANGED <<cursor, call>>

\* cancelled_run_request_needing_workspace_terminalization: the primary looks
\* for a cancelled request whose cursor is not terminal yet and ticks it
\* without a lease.
FindCancelled(t) ==
    LET open == {r \in Requests : /\ Recovered[r].status = "cancelled"
                                  /\ cursor[r].phase \notin TerminalPhase \cup {"absent"}}
    IN  /\ tick[t].pc = "find_cancelled"
        /\ Recover
        /\ \/ open = {} /\ Goto(t, "select")
           \/ \E r \in open :
                /\ Oldest(r, open)
                /\ tick' = [tick EXCEPT ![t].pc = "load", ![t].req = r]
        /\ UNCHANGED <<cursor, call>>

\* The SELECT of claim_next_run_request_matching: a queued request whose cache
\* namespace no other unexpired leased or running request uses.
Claimable(t) ==
    {r \in Requests :
        /\ Recovered[r].status = "queued"
        /\ t \in Steps \/ r \notin ManualStep
        /\ ~\E q \in Requests \ {r} : /\ Recovered[q].status \in ActiveStatus
                                       /\ ~Recovered[q].expired
                                       /\ Namespace[q] # Unshared
                                       /\ Namespace[q] = Namespace[r]}

\* The lease id of the tick is its worker id and the milliseconds of the system
\* clock.  Step calls share a worker id and may tick in one millisecond, and
\* the clock may be set back: nothing keeps two ids apart but the worker id.
SelectQueued(t) ==
    /\ tick[t].pc = "select"
    /\ Recover
    /\ \/ Claimable(t) = {} /\ EndTick(t)
       \/ \E r \in Claimable(t), now \in Millis :
            /\ Oldest(r, Claimable(t))
            /\ tick' = [tick EXCEPT ![t].pc = "claim", ![t].req = r,
                                    ![t].lease = <<WorkerId(t), now>>]
    /\ UNCHANGED <<cursor, call>>

\* The UPDATE of the same function, guarded by status = 'queued' alone.
ClaimQueued(t) ==
    LET r == tick[t].req
        l == tick[t].lease
    IN  /\ tick[t].pc = "claim"
        /\ SetRow(r, Claim(row[r], l, WorkerId(t)))
        /\ IF row[r].status = "queued" THEN GotoRecord(t, Rest(t).pc) ELSE EndTick(t)
        /\ UNCHANGED <<cursor, call>>

\* record_resource_leases_for_request, with the lease id read back before.
RecordResourceLeases(t) ==
    /\ tick[t].pc = "record"
    /\ res' = [res EXCEPT ![tick[t].req] = @ \cup {tick[t].lease}]
    /\ IF tick[t].then = Rest(t).pc
         THEN EndTick(t)
         ELSE tick' = [tick EXCEPT ![t].pc = tick[t].then, ![t].then = "idle"]
    /\ UNCHANGED <<row, cursor, call>>

\* tick_active_run_request on a leased row.
StartRunRequest(t) ==
    LET r == tick[t].req
        l == tick[t].lease
    IN  /\ tick[t].pc = "start"
        /\ SetRow(r, MarkStartedForLease(row[r], l))
        /\ IF CanStart(row[r], l) THEN GotoRecord(t, "start_cursor") ELSE EndTick(t)
        /\ UNCHANGED <<cursor, call>>

\* ensure_run_workspace and the load of the cursor, new when there is none.
StartCursor(t) ==
    LET r == tick[t].req
        k == LoadOrNew(cursor[r])
    IN  /\ tick[t].pc = "start_cursor"
        /\ IF Exists(row[r])
             THEN /\ cursor' = [cursor EXCEPT ![r] = k]
                  /\ tick' = [tick EXCEPT ![t].pc = "start_save", ![t].cur = k]
             ELSE UNCHANGED cursor /\ EndTick(t)
        /\ UNCHANGED <<row, res, call>>

\* What was loaded is saved with its phase and sequence number but with fresh
\* metadata, which drops previous_phase.
StartSave(t) ==
    /\ tick[t].pc = "start_save"
    /\ cursor' = [cursor EXCEPT ![tick[t].req] = Persist(@, [tick[t].cur EXCEPT !.prev = "none"])]
    /\ EndTick(t)
    /\ UNCHANGED <<row, res, call>>

\* tick_active_run_request on a running row: the heartbeat's answer is ignored.
Heartbeat(t) ==
    /\ tick[t].pc = "heartbeat"
    /\ IF CanHeartbeat(row[tick[t].req], tick[t].lease)
         THEN GotoRecord(t, "load") ELSE Goto(t, "load")
    /\ UNCHANGED <<row, res, cursor, call>>

\* open_gepa_run_context and restore_gepa_run_state: the workspace is opened
\* (and created when it is gone) and the cursor loaded; a cursor that is
\* already terminal needs no further work.
LoadCursor(t) ==
    LET r == tick[t].req
        k == LoadOrNew(cursor[r])
    IN  /\ tick[t].pc = "load"
        /\ \/ /\ ~Exists(row[r])
              /\ EndTick(t) /\ UNCHANGED cursor
           \/ /\ Exists(row[r])
              /\ cursor' = [cursor EXCEPT ![r] = k]
              /\ \/ /\ k.phase \notin TerminalPhase
                    /\ tick' = [tick EXCEPT ![t].pc = "check", ![t].cur = k]
                 \/ k.phase \in TerminalPhase /\ tick[t].lease = NoLease /\ EndTick(t)
                 \/ /\ k.phase \in TerminalPhase /\ tick[t].lease # NoLease
                    /\ tick' = [tick EXCEPT
                         ![t].pc = IF k.phase = "completed" THEN "result" ELSE "finish",
                         ![t].out = k.phase]
        /\ UNCHANGED <<row, res, call>>

\* check_cancelled.  Its status reads and its heartbeat are one step: a lease
\* that is lost stays lost, so the answer is that of the last statement.
\* Without a lease (the tick of a cancelled request) only the status counts.
CheckCancelled(t) ==
    LET x  == row[tick[t].req]
        l  == tick[t].lease
        go == IF tick[t].cur.phase = "paused" THEN Rest(t).pc ELSE "work"
    IN  /\ tick[t].pc = "check"
        /\ \/ /\ x.status = "cancelled"
              /\ tick' = [tick EXCEPT ![t].pc = "abort", ![t].out = "cancelled"]
           \/ /\ x.status # "cancelled" /\ l = NoLease
              /\ IF go = "work" THEN Goto(t, "work") ELSE EndTick(t)
           \/ /\ x.status # "cancelled" /\ l # NoLease /\ CanHeartbeat(x, l)
              /\ GotoRecord(t, go)
           \/ /\ x.status # "cancelled" /\ l # NoLease /\ ~CanHeartbeat(x, l)
              /\ tick' = [tick EXCEPT ![t].pc = "abort", ![t].out = "failed"]
        /\ UNCHANGED <<row, res, cursor, call>>

\* Save the cursor this tick loaded, moved to phase p, under the next
\* sequence number.
SaveCursor(t, p) ==
    LET k == [seq |-> tick[t].cur.seq + 1, phase |-> p, prev |-> "none"]
    IN  cursor' = [cursor EXCEPT ![tick[t].req] = Persist(@, k)]

\* Fault: every outcome is reported as a completion.
SettleAsCompleted(t, o) ==
    IF tick[t].lease = NoLease THEN EndTick(t)
    ELSE tick' = [tick EXCEPT ![t].pc = "result", ![t].cur = NoCursor, ![t].out = o]

\* The advance is over with outcome o: the request is settled under the
\* lease, or not at all when the tick has none.
Settle(t, o) ==
    IF tick[t].lease = NoLease THEN EndTick(t)
    ELSE tick' = [tick EXCEPT ![t].pc  = IF o = "completed" THEN "result" ELSE "finish",
                              ![t].cur = NoCursor,
                              ![t].out = o]

\* terminalize_aborted_gepa_run: a cancellation makes the cursor cancelled,
\* any other error of check_cancelled, a lost lease included, makes it failed.
Abort(t) ==
    /\ tick[t].pc = "abort"
    /\ SaveCursor(t, tick[t].out)
    /\ Settle(t, tick[t].out)
    /\ UNCHANGED <<row, res, call>>

\* The phase dispatch of advance_gepa_sync_serial_once, with its three ways to
\* end: the phase is done; the run fails and its cursor says so; or an error
\* is returned before the cursor is saved.
Advance(t) ==
    LET p == NextPhase[tick[t].cur.phase]
    IN  /\ tick[t].pc = "work"
        /\ SaveCursor(t, p)
        /\ IF p = "completed" THEN Settle(t, p) ELSE EndTick(t)
        /\ UNCHANGED <<row, res, call>>

AdvanceFails(t) ==
    /\ tick[t].pc = "work"
    /\ SaveCursor(t, "failed")
    /\ Settle(t, "failed")
    /\ UNCHANGED <<row, res, call>>

AdvanceErrs(t) ==
    /\ tick[t].pc = "work"
    /\ Settle(t, "failed")
    /\ UNCHANGED <<row, res, cursor, call>>

\* terminalize_advanced_run_request with a result: two guarded writes.
RecordRunResult(t) ==
    LET r == tick[t].req
        l == tick[t].lease
    IN  /\ tick[t].pc = "result"
        /\ SetRow(r, RecordResultForLease(row[r], l))
        /\ IF HoldsLease(row[r], l) THEN Goto(t, "complete") ELSE EndTick(t)
        /\ UNCHANGED <<cursor, call>>

CompleteRunRequest(t) ==
    LET r == tick[t].req
        l == tick[t].lease
    IN  /\ tick[t].pc = "complete"
        /\ IF HoldsLease(row[r], l)
             THEN SettleRow(r, MarkCompletedForLease(row[r], l))
             ELSE UNCHANGED <<row, res>>
        /\ EndTick(t)
        /\ UNCHANGED <<cursor, call>>

\* Fault: a failed outcome is not written to the request.
FinishOnlyCancelled(t) ==
    LET r == tick[t].req
        l == tick[t].lease
    IN  /\ tick[t].pc = "finish"
        /\ IF HoldsLease(row[r], l) /\ tick[t].out = "cancelled"
             THEN SettleRow(r, MarkCancelledForLease(row[r], l))
             ELSE UNCHANGED <<row, res>>
        /\ EndTick(t)
        /\ UNCHANGED <<cursor, call>>

\* The other terminal outcomes: cancelled, or failed for anything else.
FinishRunRequest(t) ==
    LET r == tick[t].req
        l == tick[t].lease
    IN  /\ tick[t].pc = "finish"
        /\ IF HoldsLease(row[r], l)
             THEN SettleRow(r, IF tick[t].out = "cancelled" THEN MarkCancelledForLease(row[r], l)
                                                           ELSE MarkFailedForLease(row[r], l))
             ELSE UNCHANGED <<row, res>>
        /\ EndTick(t)
        /\ UNCHANGED <<cursor, call>>

ThreadStep(t) ==
    /\ service = "up"
    /\ \/ StepRun(t) \/ ActiveRunRequest(t) \/ FindCancelled(t) \/ SelectQueued(t)
       \/ ClaimQueued(t) \/ RecordResourceLeases(t) \/ StartRunRequest(t) \/ StartCursor(t)
       \/ StartSave(t) \/ Heartbeat(t) \/ LoadCursor(t) \/ CheckCancelled(t) \/ Abort(t)
       \/ Advance(t) \/ AdvanceFails(t) \/ AdvanceErrs(t)
       \/ RecordRunResult(t) \/ CompleteRunRequest(t) \/ FinishRunRequest(t)
    /\ UNCHANGED <<service, expiries, crashes>>

-----------------------------------------------------------------------------
(* HTTP calls *)

GotoCall(c, p) == call' = [call EXCEPT ![c].pc = p]
EndCall(c)     == call' = [call EXCEPT ![c] = CallAt("done", NoRequest)]

\* create_run: look the idempotency key up; the insert comes after the
\* container handshake.
CreateLookup(c) ==
    /\ call[c].pc = "fresh" /\ "create" \in Ops
    /\ Recover
    /\ IF \E r \in Requests : Recovered[r].keyed THEN EndCall(c) ELSE GotoCall(c, "insert")
    /\ UNCHANGED <<cursor, tick>>

CreateInsert(c) ==
    LET unused == {r \in Requests : row[r].status = "absent"}
    IN  /\ call[c].pc = "insert"
        /\ \E r \in unused : Oldest(r, unused) /\ SetRow(r, SubmitRunConfig(TRUE))
        /\ EndCall(c)
        /\ UNCHANGED <<cursor, tick>>

\* control_run and delete_run_response: read the row, then decide.
FirstStep(op, r, x) ==
    IF ~Exists(x) \/ (IsTerminal(x) <=> op # "delete") THEN "done"
    ELSE CASE op = "delete" -> "delete_storage"
           [] op = "cancel" -> "cancel"
           [] op = "stop"   -> "stop_result"
           [] op = "pause"  -> IF r \in ManualStep THEN "done"
                               ELSE IF x.status = "paused" THEN "pause_row" ELSE "pause_load"
           [] op = "resume" -> IF CanResume(x) THEN "resume_load" ELSE "done"

ControlRead(c) ==
    /\ call[c].pc = "fresh"
    /\ Recover
    /\ \E op \in Ops \ {"create"}, r \in Requests :
         LET p == FirstStep(op, r, Recovered[r])
         IN  call' = [call EXCEPT ![c] = IF p = "done" THEN CallAt("done", NoRequest)
                                                      ELSE CallAt(p, r)]
    /\ UNCHANGED <<cursor, tick>>

CancelRun(c) ==
    LET r == call[c].req
    IN  /\ call[c].pc = "cancel"
        /\ SettleRow(r, MarkCancelled(row[r]))
        /\ EndCall(c)
        /\ UNCHANGED <<cursor, tick>>

\* persist_external_stop_result, then mark_run_request_completed.
StopResult(c) ==
    LET r == call[c].req
    IN  /\ call[c].pc = "stop_result"
        /\ SetRow(r, RecordResult(row[r]))
        /\ GotoCall(c, "stop_row")
        /\ UNCHANGED <<cursor, tick>>

StopRow(c) ==
    LET r == call[c].req
    IN  /\ call[c].pc = "stop_row"
        /\ SettleRow(r, MarkCompleted(row[r]))
        /\ EndCall(c)
        /\ UNCHANGED <<cursor, tick>>

\* persist_paused_cursor: skipped when the run has no workspace yet.  The
\* cursor is loaded first; the sequence number is read when it is saved.
PauseLoad(c) ==
    LET k == cursor[call[c].req]
    IN  /\ call[c].pc = "pause_load"
        /\ call' = [call EXCEPT ![c].pc  = IF k.phase = "absent" THEN "pause_row" ELSE "pause_save",
                                ![c].cur = k]
        /\ UNCHANGED <<row, res, cursor, tick>>

PauseSave(c) ==
    LET r == call[c].req
    IN  /\ call[c].pc = "pause_save"
        /\ cursor' = [cursor EXCEPT ![r] =
             Persist(@, [seq |-> @.seq + 1, phase |-> "paused", prev |-> call[c].cur.phase])]
        /\ call' = [call EXCEPT ![c] = CallAt("pause_row", r)]
        /\ UNCHANGED <<row, res, tick>>

PauseRow(c) ==
    LET r == call[c].req
    IN  /\ call[c].pc = "pause_row"
        /\ IF CanPause(row[r]) THEN SettleRow(r, MarkPaused(row[r])) ELSE UNCHANGED <<row, res>>
        /\ EndCall(c)
        /\ UNCHANGED <<cursor, tick>>

\* restore_paused_cursor: only a paused cursor is restored, to the recorded
\* previous phase or to generation_start when none is recorded.
ResumeLoad(c) ==
    LET k == cursor[call[c].req]
    IN  /\ call[c].pc = "resume_load"
        /\ call' = [call EXCEPT ![c].pc  = IF k.phase = "paused" THEN "resume_save" ELSE "resume_row",
                                ![c].cur = IF k.phase = "paused" THEN k ELSE NoCursor]
        /\ UNCHANGED <<row, res, cursor, tick>>

RestoredPhase(k) == IF k.prev = "none" THEN "search" ELSE k.prev

ResumeSave(c) ==
    LET r == call[c].req
        k == call[c].cur
    IN  /\ call[c].pc = "resume_save"
        /\ cursor' = [cursor EXCEPT ![r] =
             Persist(@, [seq |-> @.seq + 1, phase |-> RestoredPhase(k), prev |-> k.prev])]
        /\ call' = [call EXCEPT ![c] = CallAt("resume_row", r)]
        /\ UNCHANGED <<row, res, tick>>

ResumeRow(c) ==
    LET r == call[c].req
    IN  /\ call[c].pc = "resume_row"
        /\ SetRow(r, MarkResumed(row[r]))
        /\ EndCall(c)
        /\ UNCHANGED <<cursor, tick>>

\* delete_run_response: the run directory first, then the rows.
DeleteStorage(c) ==
    /\ call[c].pc = "delete_storage"
    /\ cursor' = [cursor EXCEPT ![call[c].req] = NoCursor]
    /\ GotoCall(c, "delete_row")
    /\ UNCHANGED <<row, res, tick>>

DeleteRow(c) ==
    /\ call[c].pc = "delete_row"
    /\ SettleRow(call[c].req, DeleteRunRequest(row[call[c].req]))
    /\ EndCall(c)
    /\ UNCHANGED <<cursor, tick>>

CallStep(c) ==
    /\ service = "up"
    /\ \/ CreateLookup(c) \/ CreateInsert(c) \/ ControlRead(c) \/ CancelRun(c)
       \/ StopResult(c) \/ StopRow(c) \/ PauseLoad(c) \/ PauseSave(c) \/ PauseRow(c)
       \/ ResumeLoad(c) \/ ResumeSave(c) \/ ResumeRow(c)
       \/ DeleteStorage(c) \/ DeleteRow(c)
    /\ UNCHANGED <<service, expiries, crashes>>

-----------------------------------------------------------------------------
(* Time and the process *)

\* The deadline of a lease or of a pause passes.
Expire(r) ==
    /\ expiries < MaxExpiries
    /\ row[r].status \in ActiveStatus \cup {"paused"} /\ ~row[r].expired
    /\ row' = [row EXCEPT ![r].expired = TRUE]
    /\ expiries' = expiries + 1
    /\ UNCHANGED <<res, cursor, tick, call, service, crashes>>

\* The process ends: killed, or out of the accept loop, which removes its
\* heartbeat file.  Whatever its threads had read is gone.
ProcessEnds ==
    /\ service = "up" /\ crashes < MaxCrashes
    /\ crashes' = crashes + 1
    /\ service' \in {"crashed", "stopped"}
    /\ tick' = [t \in Threads |-> IF tick[t].pc = "fresh" THEN tick[t] ELSE Rest(t)]
    /\ call' = [c \in Calls |-> IF call[c].pc = "fresh" THEN call[c] ELSE CallAt("done", NoRequest)]
    /\ UNCHANGED <<row, res, cursor, expiries>>

\* run_gepa_service: a crash that left its heartbeat behind is adopted and its
\* active requests failed; then expired requests are recovered.
RunGepaService ==
    LET adopted == [r \in Requests |-> IF service = "crashed" THEN FailOrphaned(row[r]) ELSE row[r]]
    IN  /\ service # "up"
        /\ service' = "up"
        /\ row' = [r \in Requests |-> RecoverExpired(adopted[r])]
        /\ res' = [r \in Requests |-> IF RecoverExpired(adopted[r]) = row[r] THEN res[r] ELSE {}]
        /\ UNCHANGED <<cursor, tick, call, expiries, crashes>>

Next ==
    \/ \E t \in Threads : ThreadStep(t)
    \/ \E c \in Calls : CallStep(c)
    \/ \E r \in Requests : Expire(r)
    \/ ProcessEnds
    \/ RunGepaService

Spec == Init /\ [][Next]_vars

\* Worker threads loop for ever, a handler thread runs to its end, and the
\* supervisor restarts the process.  Deadlines and process ends are not fair.
Fairness ==
    /\ \A t \in Threads : WF_vars(ThreadStep(t))
    /\ \A c \in Calls : WF_vars(call[c].pc # "fresh" /\ CallStep(c))
    /\ WF_vars(RunGepaService)

FairSpec == Spec /\ Fairness

-----------------------------------------------------------------------------
(* Safety *)

\* A service worker holds one request at a time: a tick claims only after it
\* found no leased or running row of its worker id, and what other threads,
\* lost deadlines, calls and restarts do in between gives it none.
SlotHoldsOne ==
    \A t \in Slots, q, r \in Requests :
        row[q].worker = t /\ row[r].worker = t => q = r

\* A lease that a thread works under is never another worker's current lease;
\* and while a service worker is inside a tick under a lease, a row held by its
\* worker id is the request of that tick under that very lease: a worker that
\* lost its request to recovery and reassignment passes no lease guard again.
\* Two step calls of one millisecond may hold equal leases on two requests, so
\* the second half is not claimed of them.
LeaseOwner ==
    /\ \A t \in Threads, r \in Requests :
         tick[t].lease # NoLease /\ tick[t].lease = row[r].lease /\ tick[t].pc # "claim"
             => row[r].worker = WorkerId(t)
    /\ \A t \in Slots, r \in Requests :
         tick[t].lease # NoLease /\ tick[t].pc # "claim" /\ row[r].worker = t
             => tick[t].req = r /\ tick[t].lease = row[r].lease

\* A completed request has a result: both paths to 'completed' write it in an
\* earlier statement, and nothing between the two may lose it.
CompletedHasResult ==
    \A r \in Requests : row[r].status = "completed" => row[r].result # "none"

\* A terminal status is final for workers, recovery and restarts: only a
\* control call that read the row before it became terminal, or a delete,
\* can still change it.
TerminalIsFinal ==
    [][\A r \in Requests :
         IsTerminal(row[r]) /\ row'[r].status # row[r].status
            => \E c \in Calls : /\ call[c].req = r
                                /\ call[c].pc \in {"cancel", "stop_row", "delete_row"}]_vars

Advancing(t) == tick[t].pc = "work" /\ tick[t].lease # NoLease

\* While no deadline passes and nobody pauses the run, at most one worker
\* thread is advancing it under a lease.  Step calls share one worker id and
\* so one lease; they are left out.
SingleAdvancer ==
    expiries = 0 /\ "pause" \notin Ops =>
        \A s, t \in Slots :
            s # t /\ Advancing(s) /\ Advancing(t) => tick[s].req # tick[t].req

\* Then, too, a request completed by a worker has a completed cursor: the
\* run's own workspace agrees with the service.
CompletedCursorAgrees ==
    expiries = 0 /\ "pause" \notin Ops =>
        \A r \in Requests : row[r].status = "completed" /\ row[r].result = "run"
            => cursor[r].phase \in {"completed", "absent"}

-----------------------------------------------------------------------------
(* The inductive strengthening: what a thread's place in its handler says
   about what it holds. *)

\* Between ticks a thread holds nothing; inside one it has its request, and
\* the cursor it loaded fits the step it is about to take.
ThreadOK(t) ==
    LET k == tick[t]
    IN  /\ k.pc \in {"fresh", "idle", "find_cancelled", "select", "done"}
              => k.lease = NoLease
        /\ k.pc \notin {"fresh", "idle", "find_cancelled", "select", "done"}
              => k.req \in Requests /\ row[k.req].status # "absent"
        /\ k.pc = "record" => k.then \in {Rest(t).pc, "start_cursor", "load", "work"}
        /\ k.pc = "check" => k.cur.phase \notin TerminalPhase \cup {"absent"}
        /\ k.pc = "work" \/ (k.pc = "record" /\ k.then = "work") => k.cur.phase \in WorkPhase
        /\ k.pc \in {"abort", "finish"} => k.out # "none"

CallOK(c) ==
    call[c].pc \notin {"fresh", "insert", "done"}
        => call[c].req \in Requests /\ row[call[c].req].status # "absent"

\* A request is leased or running exactly while it has a lease and a worker,
\* and the worker is the one that the lease id names.
LeaseColumns ==
    \A r \in Requests :
        /\ (row[r].status \in ActiveStatus) <=> (row[r].lease # NoLease)
        /\ (row[r].status \in ActiveStatus) <=> (row[r].worker # NoWorker)
        /\ row[r].lease[1] = row[r].worker

\* A thread's lease names its worker id, and a thread at a claim has one.
LeaseNames ==
    \A t \in Threads :
        /\ tick[t].lease # NoLease => tick[t].lease[1] = WorkerId(t)
        /\ tick[t].pc = "claim" => tick[t].lease # NoLease

\* On its way from active_run_request to the claim a slot holds no request.
Seeking == {"find_cancelled", "select", "claim"}

SlotFree == \A t \in Slots, r \in Requests : tick[t].pc \in Seeking => row[r].worker # t

\* Whoever is about to mark a request completed has seen its result written,
\* and no statement takes it away while the row exists.
ResultKept ==
    /\ \A t \in Threads : tick[t].pc = "complete"
         => row[tick[t].req].result # "none" \/ row[tick[t].req].status = "deleted"
    /\ \A c \in Calls : call[c].pc = "stop_row"
         => row[call[c].req].result # "none" \/ row[call[c].req].status = "deleted"

TypeInv  == TypeOK /\ (\A t \in Threads : ThreadOK(t)) /\ (\A c \in Calls : CallOK(c))
LeaseInv == LeaseColumns /\ LeaseNames /\ SlotFree /\ SlotHoldsOne /\ LeaseOwner
ResultInv == CompletedHasResult /\ ResultKept

-----------------------------------------------------------------------------
(* Liveness *)

\* A queued request that needs no manual step is settled in the end, through
\* lost leases, process ends, cancels and stops.
QueuedIsSettled ==
    \A r \in Requests \ ManualStep :
        row[r].status = "queued" ~> row[r].status \in TerminalStatus

\* A cancelled request's run is told: its cursor becomes terminal.
CancelReachesCursor ==
    \A r \in Requests :
        row[r].status = "cancelled" ~> \/ row[r].status # "cancelled"
                                       \/ cursor[r].phase \in TerminalPhase \cup {"absent"}

=============================================================================
