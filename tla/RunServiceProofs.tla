-------------------------- MODULE RunServiceProofs --------------------------
(***************************************************************************)
(* What holds of RunService for every set of requests, workers, step calls  *)
(* and HTTP calls and for every number of lost deadlines and process ends.  *)
(*                                                                          *)
(* The type invariant comes first, with what a thread's place in its        *)
(* handler says of what it holds (ThreadOK, CallOK).  The lease invariant   *)
(* then needs one case split: every statement but the claim either keeps a  *)
(* row's lease or takes it away (Quiet), and every thread but the one that  *)
(* draws a lease id or reads one back keeps its lease or drops it           *)
(* (ThreadQuiet).                                                           *)
(***************************************************************************)
EXTENDS RunService, TLAPS

(***************************************************************************)
(* Worker ids and lease ids.                                                *)
(***************************************************************************)

\* The worker ids are told apart, and a lease id names its worker.
LEMMA WorkerIds ==
    /\ \A t \in Threads : WorkerId(t) \in Workers
    /\ \A t \in Slots : t \in Threads /\ WorkerId(t) = t /\ t # NoWorker
    /\ \A s \in Threads, t \in Slots : WorkerId(s) = t => s = t
BY ServiceAssumption, WorkersAssumption DEF WorkerId, Threads

LEMMA LeaseIds ==
    /\ NoLease \in Lease /\ NoLease[1] = NoWorker
    /\ \A w \in Workers, m \in Millis :
         <<w, m>> \in Lease /\ <<w, m>> # NoLease /\ <<w, m>>[1] = w
BY ServiceAssumption, WorkersAssumption DEF NoLease, Lease, Minted

(***************************************************************************)
(* Rows.                                                                    *)
(***************************************************************************)

\* Released, the common tail of every release path, gives a row back without
\* lease and worker and with its result untouched.
LEMMA ReleasedRow ==
    ASSUME NEW x \in Row, NEW s \in Statuses
    PROVE  /\ Released(x, s) \in Row
           /\ Released(x, s).status = s
           /\ Released(x, s).lease = NoLease
           /\ Released(x, s).worker = NoWorker
           /\ Released(x, s).result = x.result
BY LeaseIds DEF Row, Released

\* The statuses that release paths write are statuses of the table.
LEMMA ReleaseStatuses ==
    {"queued", "cancelled", "completed", "failed", "paused"} \subseteq Statuses
BY DEF Statuses, TerminalStatus

\* A statement either keeps a row's lease, worker and activity, or leaves the
\* row inactive and without a lease.
Quiet(x, y) ==
    \/ /\ y.lease = x.lease /\ y.worker = x.worker
       /\ (y.status \in ActiveStatus) <=> (x.status \in ActiveStatus)
    \/ y.lease = NoLease /\ y.worker = NoWorker /\ y.status \notin ActiveStatus

\* A row does not disappear from the table without a trace, and keeps its
\* result unless it is deleted.
Kept(x, y) ==
    /\ x.status # "absent" => y.status # "absent"
    /\ x.status = "deleted" => y.status = "deleted"
    /\ x.status # "absent" /\ y.status # "deleted" /\ x.result # "none" => y.result # "none"

\* A legal change of a row by any statement but the claim.
Change(x, y) == y \in Row /\ Quiet(x, y) /\ Kept(x, y)

\* Every releasing statement is a legal change.
LEMMA ReleaseChange ==
    ASSUME NEW x \in Row, Exists(x),
           NEW s \in {"queued", "cancelled", "completed", "failed", "paused"}
    PROVE  Change(x, Released(x, s))
BY ReleaseStatuses, ReleasedRow DEF Change, Quiet, Kept, Exists, ActiveStatus

\* A row that is left alone is legally changed.
LEMMA NoChange == \A x \in Row : Change(x, x)
BY DEF Change, Quiet, Kept

\* recover_expired_run_requests and crash adoption.
LEMMA RecoverChange ==
    ASSUME NEW x \in Row
    PROVE  Change(x, RecoverExpired(x)) /\ Change(x, FailOrphaned(x))
BY NoChange, ReleaseChange DEF Exists, ActiveStatus, RecoverExpired, FailOrphaned, MarkFailed

\* The statements guarded by a lease.
LEMMA LeaseChange ==
    ASSUME NEW x \in Row, NEW l \in Lease
    PROVE  /\ Change(x, MarkStartedForLease(x, l))
           /\ Change(x, RecordResultForLease(x, l))
           /\ Change(x, MarkCompletedForLease(x, l))
           /\ Change(x, MarkFailedForLease(x, l))
           /\ Change(x, MarkCancelledForLease(x, l))
<1>1. HoldsLease(x, l) => Exists(x) BY DEF HoldsLease, Exists, ActiveStatus
<1>2. Change(x, MarkStartedForLease(x, l))
  BY DEF MarkStartedForLease, CanStart, Change, Quiet, Kept, Row, Statuses, ActiveStatus
<1>3. Change(x, RecordResultForLease(x, l))
  BY DEF RecordResultForLease, HoldsLease, Change, Quiet, Kept, Row
<1>4. Change(x, MarkCompletedForLease(x, l))
  BY <1>1, NoChange, ReleaseChange DEF MarkCompletedForLease
<1>5. Change(x, MarkFailedForLease(x, l))
  BY <1>1, NoChange, ReleaseChange DEF MarkFailedForLease
<1>6. Change(x, MarkCancelledForLease(x, l))
  BY <1>1, NoChange, ReleaseChange DEF MarkCancelledForLease
<1> QED BY <1>2, <1>3, <1>4, <1>5, <1>6

\* The control plane's statements.
LEMMA ControlChange ==
    ASSUME NEW x \in Row
    PROVE  /\ Change(x, MarkCompleted(x)) /\ Change(x, MarkCancelled(x))
           /\ Change(x, MarkPaused(x)) /\ Change(x, MarkResumed(x))
           /\ Change(x, RecordResult(x)) /\ Change(x, DeleteRunRequest(x))
<1>1. CanPause(x) \/ CanResume(x) => Exists(x)
  BY DEF CanPause, CanResume, Exists, ActiveStatus
<1>2. Change(x, MarkCompleted(x)) /\ Change(x, MarkCancelled(x))
  BY NoChange, ReleaseChange DEF MarkCompleted, MarkCancelled
<1>3. Change(x, MarkPaused(x)) /\ Change(x, MarkResumed(x))
  BY <1>1, NoChange, ReleaseChange DEF MarkPaused, MarkResumed
<1>4. Change(x, RecordResult(x))
  BY DEF RecordResult, Exists, Change, Quiet, Kept, Row
<1>5. Change(x, DeleteRunRequest(x))
  BY LeaseIds DEF DeleteRunRequest, AbsentRow, Change, Quiet, Kept, Row, Statuses, ActiveStatus
<1> QED BY <1>2, <1>3, <1>4, <1>5

\* The two statements that fill a row: submission and the claim.
LEMMA FillChange ==
    ASSUME NEW x \in Row
    PROVE  /\ AbsentRow \in Row /\ SubmitRunConfig(TRUE) \in Row /\ SubmitRunConfig(FALSE) \in Row
           /\ x.status = "absent" => Change(x, SubmitRunConfig(TRUE))
           /\ \A l \in Lease, w \in Workers : Claim(x, l, w) \in Row /\ Kept(x, Claim(x, l, w))
<1>1. AbsentRow \in Row /\ SubmitRunConfig(TRUE) \in Row /\ SubmitRunConfig(FALSE) \in Row
  BY LeaseIds DEF AbsentRow, SubmitRunConfig, Row, Statuses
<1>2. x.status = "absent" => Change(x, SubmitRunConfig(TRUE))
  BY <1>1 DEF SubmitRunConfig, AbsentRow, Change, Quiet, Kept, ActiveStatus
<1>3. ASSUME NEW l \in Lease, NEW w \in Workers
      PROVE  Claim(x, l, w) \in Row /\ Kept(x, Claim(x, l, w))
  BY DEF Claim, Row, Statuses, ActiveStatus, Kept
<1> QED BY <1>1, <1>2, <1>3

(***************************************************************************)
(* Types.                                                                   *)
(***************************************************************************)

\* What every row change of a step must be, for rows as a whole.
RowsKept    == \A r \in Requests : Kept(row[r], row'[r])
RowsChanged == \A r \in Requests : Change(row[r], row'[r])

Bookkeeping == <<service, expiries, crashes>>

\* Recovery of expired requests is a legal change of every row.
LEMMA RecoverRows ==
    ASSUME TypeOK, Recover
    PROVE  /\ row' \in [Requests -> Row] /\ res' \in [Requests -> SUBSET Lease]
           /\ row' = Recovered
           /\ RowsChanged /\ RowsKept
BY RecoverChange DEF TypeOK, Recover, Recovered, RecoveredRes, RowsChanged, RowsKept, Change

\* A handler's UPDATE of one row by a legal change, with or without the
\* release of its resource leases.
LEMMA UpdateRow ==
    ASSUME TypeOK, NEW r \in Requests, NEW x, Change(row[r], x),
           SetRow(r, x) \/ SettleRow(r, x)
    PROVE  /\ row' \in [Requests -> Row] /\ res' \in [Requests -> SUBSET Lease]
           /\ row'[r] = x /\ \A q \in Requests \ {r} : row'[q] = row[q]
           /\ RowsChanged /\ RowsKept
BY NoChange DEF SetRow, SettleRow, TypeOK, Change, RowsChanged, RowsKept

\* A step that leaves the table alone.
LEMMA SameRows ==
    ASSUME TypeOK, UNCHANGED <<row, res>>
    PROVE  /\ row' \in [Requests -> Row] /\ res' \in [Requests -> SUBSET Lease]
           /\ RowsChanged /\ RowsKept
BY NoChange DEF TypeOK, RowsChanged, RowsKept, Change

\* One thread moves and keeps its own promise: the others keep theirs, since
\* no row disappears.
LEMMA ThreadMove ==
    ASSUME TypeInv, NEW t \in Threads,
           row' \in [Requests -> Row], res' \in [Requests -> SUBSET Lease], RowsKept,
           cursor' \in [Requests -> Cursor], call' = call,
           UNCHANGED Bookkeeping,
           tick' \in [Threads -> Tick], \A s \in Threads \ {t} : tick'[s] = tick[s],
           ThreadOK(t)'
    PROVE  TypeInv'
<1>1. TypeOK' BY DEF TypeInv, TypeOK, Bookkeeping
<1>2. ASSUME NEW s \in Threads \ {t} PROVE ThreadOK(s)'
  BY DEF TypeInv, ThreadOK, RowsKept, Kept, Rest
<1>3. ASSUME NEW c \in Calls PROVE CallOK(c)'
  BY DEF TypeInv, CallOK, RowsKept, Kept
<1> QED BY <1>1, <1>2, <1>3 DEF TypeInv

\* One call moves and keeps its own promise.
LEMMA CallMove ==
    ASSUME TypeInv, NEW c \in Calls,
           row' \in [Requests -> Row], res' \in [Requests -> SUBSET Lease], RowsKept,
           cursor' \in [Requests -> Cursor], tick' = tick,
           UNCHANGED Bookkeeping,
           call' \in [Calls -> Call], \A d \in Calls \ {c} : call'[d] = call[d],
           CallOK(c)'
    PROVE  TypeInv'
<1>1. TypeOK' BY DEF TypeInv, TypeOK, Bookkeeping
<1>2. ASSUME NEW s \in Threads PROVE ThreadOK(s)'
  BY DEF TypeInv, ThreadOK, RowsKept, Kept, Rest
<1>3. ASSUME NEW d \in Calls \ {c} PROVE CallOK(d)'
  BY DEF TypeInv, CallOK, RowsKept, Kept
<1> QED BY <1>1, <1>2, <1>3 DEF TypeInv

\* A thread at rest.
LEMMA RestingTick ==
    /\ \A p \in ThreadPc : Resting(p) \in Tick
    /\ \A t \in Threads : /\ Rest(t) \in Tick /\ Rest(t).pc \in {"idle", "done"}
                           /\ Rest(t).lease = NoLease
BY LeaseIds DEF NoCursor, NewCursor, Cursor, Phase, WorkPhase, Resting, Tick, ThreadPc, Rest

\* A tick that ends is at rest, and nobody else has moved.
LEMMA EndTickTypes ==
    ASSUME TypeOK, NEW t \in Threads, EndTick(t)
    PROVE  /\ tick' \in [Threads -> Tick] /\ \A s \in Threads \ {t} : tick'[s] = tick[s]
           /\ tick'[t] = Rest(t)
           /\ ThreadOK(t)'
BY RestingTick DEF EndTick, TypeOK, ThreadOK, Rest, Resting

(***************************************************************************)
(* Types, action by action: the worker threads.                             *)
(***************************************************************************)

LEMMA TypeStepRun ==
    ASSUME TypeInv, NEW t \in Threads, StepRun(t), UNCHANGED Bookkeeping
    PROVE  TypeInv'
<1>1. TypeOK BY DEF TypeInv
<1>2. Recover BY DEF StepRun
<1>3. PICK p \in {"idle", "done"} : tick' = [tick EXCEPT ![t] = Resting(p)]
  BY DEF StepRun
<1>4. tick'[t] = Resting(p) /\ Resting(p) \in Tick
  BY <1>1, <1>3, RestingTick DEF TypeOK, ThreadPc
<1>5. tick' \in [Threads -> Tick] /\ \A s \in Threads \ {t} : tick'[s] = tick[s]
  BY <1>1, <1>3, <1>4 DEF TypeOK
<1>6. ThreadOK(t)' BY <1>4 DEF ThreadOK, Resting
<1>7. cursor' \in [Requests -> Cursor] /\ call' = call
  BY <1>1 DEF StepRun, TypeOK
<1> QED BY <1>1, <1>2, <1>5, <1>6, <1>7, RecoverRows, ThreadMove

LEMMA TypeActiveRunRequest ==
    ASSUME TypeInv, NEW t \in Threads, ActiveRunRequest(t), UNCHANGED Bookkeeping
    PROVE  TypeInv'
<1>1. TypeOK /\ ThreadOK(t) /\ tick[t] \in Tick BY DEF TypeInv, TypeOK
<1>2. Recover BY DEF ActiveRunRequest
<1>3. row' = Recovered /\ row' \in [Requests -> Row] BY <1>1, <1>2, RecoverRows
<1>4. cursor' \in [Requests -> Cursor] /\ call' = call
  BY <1>1 DEF ActiveRunRequest, TypeOK
<1>5. /\ tick' \in [Threads -> Tick] /\ \A s \in Threads \ {t} : tick'[s] = tick[s]
      /\ ThreadOK(t)'
  <2>1. CASE tick' = [tick EXCEPT ![t].pc = IF IsPrimary(t) THEN "find_cancelled" ELSE "select"]
    BY ZenonT(40), <1>1, <2>1 DEF TypeOK, Tick, ThreadPc, ThreadOK, ActiveRunRequest
  <2>2. CASE \E r \in Requests :
               /\ Recovered[r].status \in ActiveStatus
               /\ tick' = [tick EXCEPT
                     ![t].pc    = IF Recovered[r].status = "leased" THEN "start" ELSE "heartbeat",
                     ![t].req   = r,
                     ![t].lease = Recovered[r].lease]
    <3> PICK r \in Requests :
               /\ Recovered[r].status \in ActiveStatus
               /\ tick' = [tick EXCEPT
                     ![t].pc    = IF Recovered[r].status = "leased" THEN "start" ELSE "heartbeat",
                     ![t].req   = r,
                     ![t].lease = Recovered[r].lease]
      BY <2>2
    <3>1. Recovered[r].lease \in Lease /\ row'[r].status # "absent" BY <1>3 DEF Row, ActiveStatus
    <3>2. tick' \in [Threads -> Tick] /\ \A s \in Threads \ {t} : tick'[s] = tick[s]
      BY <1>1, <3>1 DEF TypeOK, Tick, ThreadPc
    <3>3. tick'[t].req = r /\ tick'[t].pc \in {"start", "heartbeat"}
      BY <1>1 DEF TypeOK, Tick
    <3> QED BY <3>1, <3>2, <3>3 DEF ThreadOK
  <2> QED BY <2>1, <2>2 DEF ActiveRunRequest, Goto
<1> QED BY <1>1, <1>2, <1>4, <1>5, RecoverRows, ThreadMove

LEMMA TypeFindCancelled ==
    ASSUME TypeInv, NEW t \in Threads, FindCancelled(t), UNCHANGED Bookkeeping
    PROVE  TypeInv'
<1>1. TypeOK /\ ThreadOK(t) /\ tick[t] \in Tick BY DEF TypeInv, TypeOK
<1>2. Recover BY DEF FindCancelled
<1>3. row' = Recovered /\ row' \in [Requests -> Row] BY <1>1, <1>2, RecoverRows
<1>4. cursor' \in [Requests -> Cursor] /\ call' = call
  BY <1>1 DEF FindCancelled, TypeOK
<1>5. /\ tick' \in [Threads -> Tick] /\ \A s \in Threads \ {t} : tick'[s] = tick[s]
      /\ ThreadOK(t)'
  <2>1. CASE tick' = [tick EXCEPT ![t].pc = "select"]
    BY <1>1, <2>1 DEF TypeOK, Tick, ThreadPc, ThreadOK, FindCancelled
  <2>2. CASE \E r \in Requests : /\ Recovered[r].status = "cancelled"
                                 /\ tick' = [tick EXCEPT ![t].pc = "load", ![t].req = r]
    <3> PICK r \in Requests : /\ Recovered[r].status = "cancelled"
                               /\ tick' = [tick EXCEPT ![t].pc = "load", ![t].req = r]
      BY <2>2
    <3>1. tick' \in [Threads -> Tick] /\ \A s \in Threads \ {t} : tick'[s] = tick[s]
      BY <1>1 DEF TypeOK, Tick, ThreadPc
    <3>2. tick'[t].req = r /\ tick'[t].pc = "load" /\ row'[r].status # "absent"
      BY <1>1, <1>3 DEF TypeOK, Tick
    <3> QED BY <3>1, <3>2 DEF ThreadOK
  <2> QED BY <2>1, <2>2 DEF FindCancelled, Goto
<1> QED BY <1>1, <1>2, <1>4, <1>5, RecoverRows, ThreadMove

LEMMA TypeSelectQueued ==
    ASSUME TypeInv, NEW t \in Threads, SelectQueued(t), UNCHANGED Bookkeeping
    PROVE  TypeInv'
<1>1. TypeOK /\ ThreadOK(t) /\ tick[t] \in Tick BY DEF TypeInv, TypeOK
<1>2. Recover BY DEF SelectQueued
<1>3. row' = Recovered /\ row' \in [Requests -> Row] BY <1>1, <1>2, RecoverRows
<1>4. cursor' \in [Requests -> Cursor] /\ call' = call
  BY <1>1 DEF SelectQueued, TypeOK
<1>5. /\ tick' \in [Threads -> Tick] /\ \A s \in Threads \ {t} : tick'[s] = tick[s]
      /\ ThreadOK(t)'
  <2>1. CASE EndTick(t)
    BY <1>1, <2>1, EndTickTypes
  <2>2. CASE \E r \in Requests, l \in Lease :
               /\ Recovered[r].status = "queued"
               /\ tick' = [tick EXCEPT ![t].pc = "claim", ![t].req = r, ![t].lease = l]
    <3> PICK r \in Requests, l \in Lease :
               /\ Recovered[r].status = "queued"
               /\ tick' = [tick EXCEPT ![t].pc = "claim", ![t].req = r, ![t].lease = l]
      BY <2>2
    <3>1. tick' \in [Threads -> Tick] /\ \A s \in Threads \ {t} : tick'[s] = tick[s]
      BY <1>1 DEF TypeOK, Tick, ThreadPc
    <3>2. tick'[t].req = r /\ tick'[t].pc = "claim" /\ row'[r].status # "absent"
      BY <1>1, <1>3 DEF TypeOK, Tick
    <3> QED BY <3>1, <3>2 DEF ThreadOK
  <2>3. \A m \in Millis : <<WorkerId(t), m>> \in Lease BY WorkerIds, LeaseIds
  <2> QED BY <2>1, <2>2, <2>3 DEF SelectQueued, Claimable
<1> QED BY <1>1, <1>2, <1>4, <1>5, RecoverRows, ThreadMove

\* A thread that only moves on in its handler.
LEMMA GotoTypes ==
    ASSUME TypeOK, NEW t \in Threads, NEW p \in ThreadPc, Goto(t, p)
    PROVE  /\ tick' \in [Threads -> Tick] /\ \A s \in Threads \ {t} : tick'[s] = tick[s]
           /\ tick'[t] = [tick[t] EXCEPT !.pc = p]
BY DEF Goto, TypeOK, Tick

LEMMA GotoRecordTypes ==
    ASSUME TypeOK, NEW t \in Threads, NEW p \in ThreadPc, GotoRecord(t, p)
    PROVE  /\ tick' \in [Threads -> Tick] /\ \A s \in Threads \ {t} : tick'[s] = tick[s]
           /\ tick'[t] = [tick[t] EXCEPT !.pc = "record", !.then = p]
<1>1. tick[t] \in Tick /\ "record" \in ThreadPc BY DEF TypeOK, ThreadPc
<1>2. tick' = [tick EXCEPT ![t] = [tick[t] EXCEPT !.pc = "record", !.then = p]]
  BY DEF GotoRecord, TypeOK
<1>3. [tick[t] EXCEPT !.pc = "record", !.then = p] \in Tick BY <1>1 DEF Tick
<1> QED BY <1>2, <1>3 DEF TypeOK

\* What is loaded, created and saved is a cursor.
LEMMA CursorTypes ==
    /\ \A k \in Cursor : LoadOrNew(k) \in Cursor /\ LoadOrNew(k).phase # "absent"
    /\ \A k, m \in Cursor : Persist(k, m) \in Cursor
BY DEF NewCursor, Cursor, Phase, WorkPhase, LoadOrNew, Persist

\* The cursor under the next sequence number is a cursor.
LEMMA NextCursorTypes ==
    ASSUME NEW k \in Cursor, NEW p \in Phase, NEW q \in Phase \cup {"none"}
    PROVE  [seq |-> k.seq + 1, phase |-> p, prev |-> q] \in Cursor
BY DEF Cursor

LEMMA SaveCursorTypes ==
    ASSUME TypeOK, NEW t \in Threads, tick[t].req \in Requests, NEW p \in Phase, SaveCursor(t, p)
    PROVE  cursor' \in [Requests -> Cursor]
<1> DEFINE k == [seq |-> tick[t].cur.seq + 1, phase |-> p, prev |-> "none"]
<1>1. tick[t].cur \in Cursor BY DEF TypeOK, Tick
<1>2. k \in Cursor BY <1>1, NextCursorTypes
<1>3. cursor' = [cursor EXCEPT ![tick[t].req] = Persist(cursor[tick[t].req], k)]
  BY DEF SaveCursor
<1>4. cursor[tick[t].req] \in Cursor BY DEF TypeOK
<1> HIDE DEF k
<1>5. Persist(cursor[tick[t].req], k) \in Cursor BY <1>2, <1>4, CursorTypes
<1> QED BY <1>3, <1>5 DEF TypeOK

\* The end of an advance, with the outcome it reports.
LEMMA SettleTypes ==
    ASSUME TypeInv, RowsKept, row' \in [Requests -> Row], NEW t \in Threads,
           NEW o \in TerminalPhase, tick[t].pc \in {"abort", "work"}, Settle(t, o)
    PROVE  /\ tick' \in [Threads -> Tick] /\ \A s \in Threads \ {t} : tick'[s] = tick[s]
           /\ ThreadOK(t)'
<1>1. TypeOK /\ ThreadOK(t) /\ tick[t] \in Tick BY DEF TypeInv, TypeOK
<1>2. CASE EndTick(t) BY <1>1, <1>2, EndTickTypes
<1>3. CASE tick' = [tick EXCEPT ![t].pc  = IF o = "completed" THEN "result" ELSE "finish",
                                ![t].cur = NoCursor,
                                ![t].out = o]
  <2>1. NoCursor \in Cursor BY DEF NoCursor, Cursor, Phase
  <2>2. tick' \in [Threads -> Tick] /\ \A s \in Threads \ {t} : tick'[s] = tick[s]
    BY <1>1, <1>3, <2>1 DEF TypeOK, Tick, ThreadPc
  <2>3. /\ tick'[t].pc \in {"result", "finish"} /\ tick'[t].req = tick[t].req
        /\ tick'[t].out = o
    BY <1>1, <1>3 DEF TypeOK, Tick
  <2>4. tick[t].req \in Requests /\ row[tick[t].req].status # "absent"
    BY <1>1 DEF ThreadOK
  <2> QED BY <2>2, <2>3, <2>4 DEF ThreadOK, RowsKept, Kept, TerminalPhase
<1> QED BY <1>2, <1>3 DEF Settle

LEMMA TypeClaimQueued ==
    ASSUME TypeInv, NEW t \in Threads, ClaimQueued(t), UNCHANGED Bookkeeping
    PROVE  TypeInv'
<1> DEFINE r == tick[t].req
           x == Claim(row[r], tick[t].lease, WorkerId(t))
<1>1. TypeOK /\ ThreadOK(t) /\ tick[t] \in Tick BY DEF TypeInv, TypeOK
<1>2. r \in Requests /\ row[r] \in Row /\ row[r].status # "absent" /\ tick[t].lease \in Lease
  BY <1>1 DEF ClaimQueued, ThreadOK, TypeOK, Tick
<1>3. WorkerId(t) \in Workers BY ServiceAssumption DEF WorkerId, Threads
<1>4. x \in Row /\ Kept(row[r], x) BY <1>2, <1>3, FillChange
<1>5. row' = [row EXCEPT ![r] = x] /\ res' = res BY DEF ClaimQueued, SetRow
<1>6. row' \in [Requests -> Row] /\ res' \in [Requests -> SUBSET Lease] /\ row'[r] = x
  BY <1>1, <1>2, <1>4, <1>5 DEF TypeOK
<1>7. RowsKept BY <1>1, <1>4, <1>5 DEF RowsKept, Kept, TypeOK
<1>8. cursor' \in [Requests -> Cursor] /\ call' = call
  BY <1>1 DEF ClaimQueued, TypeOK
<1>9. /\ tick' \in [Threads -> Tick] /\ \A s \in Threads \ {t} : tick'[s] = tick[s]
      /\ ThreadOK(t)'
  <2>1. CASE EndTick(t) BY <1>1, <2>1, EndTickTypes
  <2>2. CASE GotoRecord(t, Rest(t).pc)
    <3>1. Rest(t).pc \in ThreadPc /\ Rest(t).pc # "work"
      BY RestingTick DEF ThreadPc
    <3>2. /\ tick' \in [Threads -> Tick] /\ \A s \in Threads \ {t} : tick'[s] = tick[s]
          /\ tick'[t] = [tick[t] EXCEPT !.pc = "record", !.then = Rest(t).pc]
      BY <1>1, <2>2, <3>1, GotoRecordTypes
    <3>3. tick'[t].pc = "record" /\ tick'[t].then = Rest(t).pc /\ tick'[t].req = r
      BY <1>1, <3>2 DEF Tick
    <3>4. row'[r].status # "absent" BY <1>2, <1>7 DEF RowsKept, Kept
    <3> QED BY <1>2, <3>1, <3>2, <3>3, <3>4 DEF ThreadOK, Rest
  <2> QED BY <2>1, <2>2 DEF ClaimQueued
<1> QED BY <1>1, <1>6, <1>7, <1>8, <1>9, ThreadMove

LEMMA TypeRecordResourceLeases ==
    ASSUME TypeInv, NEW t \in Threads, RecordResourceLeases(t), UNCHANGED Bookkeeping
    PROVE  TypeInv'
<1> DEFINE r == tick[t].req
<1>1. TypeOK /\ ThreadOK(t) /\ tick[t] \in Tick BY DEF TypeInv, TypeOK
<1>2. r \in Requests /\ row[r].status # "absent" /\ tick[t].lease \in Lease
  BY <1>1 DEF RecordResourceLeases, ThreadOK, Tick
<1>3. res' \in [Requests -> SUBSET Lease]
  BY <1>1, <1>2 DEF RecordResourceLeases, TypeOK
<1>4. row' \in [Requests -> Row] /\ RowsKept
  BY <1>1 DEF RecordResourceLeases, TypeOK, RowsKept, Kept
<1>5. cursor' \in [Requests -> Cursor] /\ call' = call
  BY <1>1 DEF RecordResourceLeases, TypeOK
<1>6. /\ tick' \in [Threads -> Tick] /\ \A s \in Threads \ {t} : tick'[s] = tick[s]
      /\ ThreadOK(t)'
  <2>1. CASE EndTick(t) BY <1>1, <2>1, EndTickTypes
  <2>2. CASE /\ tick[t].then # Rest(t).pc
             /\ tick' = [tick EXCEPT ![t].pc = tick[t].then, ![t].then = "idle"]
    BY <1>1, <2>2, <1>2 DEF TypeOK, Tick, ThreadPc, ThreadOK, RecordResourceLeases
  <2> QED BY <2>1, <2>2 DEF RecordResourceLeases
<1> QED BY <1>1, <1>3, <1>4, <1>5, <1>6, ThreadMove

LEMMA TypeStartRunRequest ==
    ASSUME TypeInv, NEW t \in Threads, StartRunRequest(t), UNCHANGED Bookkeeping
    PROVE  TypeInv'
<1> DEFINE r == tick[t].req
           x == MarkStartedForLease(row[r], tick[t].lease)
<1>1. TypeOK /\ ThreadOK(t) /\ tick[t] \in Tick BY DEF TypeInv, TypeOK
<1>2. r \in Requests /\ row[r] \in Row /\ row[r].status # "absent" /\ tick[t].lease \in Lease
  BY <1>1 DEF StartRunRequest, ThreadOK, TypeOK, Tick
<1>3. Change(row[r], x) /\ SetRow(r, x) BY <1>2, LeaseChange DEF StartRunRequest
<1> HIDE DEF x
<1>4. row' \in [Requests -> Row] /\ res' \in [Requests -> SUBSET Lease] /\ RowsKept
  BY <1>1, <1>2, <1>3, UpdateRow
<1>5. cursor' \in [Requests -> Cursor] /\ call' = call
  BY <1>1 DEF StartRunRequest, TypeOK
<1>6. /\ tick' \in [Threads -> Tick] /\ \A s \in Threads \ {t} : tick'[s] = tick[s]
      /\ ThreadOK(t)'
  <2>1. CASE EndTick(t) BY <1>1, <2>1, EndTickTypes
  <2>2. CASE GotoRecord(t, "start_cursor")
    <3>1. "start_cursor" \in ThreadPc BY DEF ThreadPc
    <3>2. /\ tick' \in [Threads -> Tick] /\ \A s \in Threads \ {t} : tick'[s] = tick[s]
          /\ tick'[t] = [tick[t] EXCEPT !.pc = "record", !.then = "start_cursor"]
      BY <1>1, <2>2, <3>1, GotoRecordTypes
    <3>3. tick'[t].pc = "record" /\ tick'[t].then = "start_cursor" /\ tick'[t].req = r
      BY <1>1, <3>2 DEF Tick
    <3>4. row'[r].status # "absent" BY <1>2, <1>4 DEF RowsKept, Kept
    <3> QED BY <1>2, <3>2, <3>3, <3>4 DEF ThreadOK
  <2> QED BY <2>1, <2>2 DEF StartRunRequest
<1> QED BY <1>1, <1>4, <1>5, <1>6, ThreadMove

LEMMA TypeStartCursor ==
    ASSUME TypeInv, NEW t \in Threads, StartCursor(t), UNCHANGED Bookkeeping
    PROVE  TypeInv'
<1> DEFINE r == tick[t].req
           k == LoadOrNew(cursor[r])
<1>1. TypeOK /\ ThreadOK(t) /\ tick[t] \in Tick BY DEF TypeInv, TypeOK
<1>2. r \in Requests /\ row[r].status # "absent" BY <1>1 DEF StartCursor, ThreadOK
<1>3. k \in Cursor BY <1>1, <1>2, CursorTypes DEF TypeOK
<1> HIDE DEF k
<1>4. cursor' \in [Requests -> Cursor] BY <1>1, <1>3 DEF StartCursor, TypeOK, k
<1>5. UNCHANGED <<row, res, call>> BY DEF StartCursor
<1>6. CASE EndTick(t) BY <1>1, <1>4, <1>5, <1>6, SameRows, EndTickTypes, ThreadMove
<1>7. CASE tick' = [tick EXCEPT ![t].pc = "start_save", ![t].cur = k]
  <2>1. tick' \in [Threads -> Tick] /\ \A s \in Threads \ {t} : tick'[s] = tick[s]
    BY <1>1, <1>3, <1>7 DEF TypeOK, Tick, ThreadPc
  <2>2. tick'[t].pc = "start_save" /\ tick'[t].req = r
    BY <1>1, <1>7 DEF TypeOK, Tick
  <2>3. ThreadOK(t)' BY <1>2, <1>5, <2>2 DEF ThreadOK
  <2> QED BY <1>1, <1>4, <1>5, <2>1, <2>3, SameRows, ThreadMove
<1> QED BY <1>6, <1>7 DEF StartCursor, k

LEMMA TypeStartSave ==
    ASSUME TypeInv, NEW t \in Threads, StartSave(t), UNCHANGED Bookkeeping
    PROVE  TypeInv'
<1> DEFINE r == tick[t].req
           k == [tick[t].cur EXCEPT !.prev = "none"]
<1>1. TypeOK /\ ThreadOK(t) /\ tick[t] \in Tick BY DEF TypeInv, TypeOK
<1>2. r \in Requests BY <1>1 DEF StartSave, ThreadOK
<1>3. k \in Cursor BY <1>1 DEF Tick, Cursor
<1>4. Persist(cursor[r], k) \in Cursor BY <1>1, <1>2, <1>3 DEF Persist, TypeOK
<1>5. cursor' = [cursor EXCEPT ![r] = Persist(cursor[r], k)] BY DEF StartSave
<1>6. cursor' \in [Requests -> Cursor] BY <1>1, <1>4, <1>5 DEF TypeOK
<1>7. UNCHANGED <<row, res, call>> /\ EndTick(t) BY DEF StartSave
<1> QED BY <1>1, <1>6, <1>7, SameRows, EndTickTypes, ThreadMove

LEMMA TypeHeartbeat ==
    ASSUME TypeInv, NEW t \in Threads, Heartbeat(t), UNCHANGED Bookkeeping
    PROVE  TypeInv'
<1>1. TypeOK /\ ThreadOK(t) /\ tick[t] \in Tick BY DEF TypeInv, TypeOK
<1>2. UNCHANGED <<row, res, cursor, call>> BY DEF Heartbeat
<1>3. cursor' \in [Requests -> Cursor] BY <1>1, <1>2 DEF TypeOK
<1>4. "load" \in ThreadPc BY DEF ThreadPc
<1>5. CASE Goto(t, "load")
  <2>1. /\ tick' \in [Threads -> Tick] /\ \A s \in Threads \ {t} : tick'[s] = tick[s]
        /\ tick'[t] = [tick[t] EXCEPT !.pc = "load"]
    BY <1>1, <1>4, <1>5, GotoTypes
  <2>2. ThreadOK(t)' BY <1>1, <1>2, <2>1 DEF ThreadOK, Heartbeat, Tick
  <2> QED BY <1>1, <1>2, <1>3, <2>1, <2>2, SameRows, ThreadMove
<1>6. CASE GotoRecord(t, "load")
  <2>1. /\ tick' \in [Threads -> Tick] /\ \A s \in Threads \ {t} : tick'[s] = tick[s]
        /\ tick'[t] = [tick[t] EXCEPT !.pc = "record", !.then = "load"]
    BY <1>1, <1>4, <1>6, GotoRecordTypes
  <2>2. ThreadOK(t)' BY <1>1, <1>2, <2>1 DEF ThreadOK, Heartbeat, Tick
  <2> QED BY <1>1, <1>2, <1>3, <2>1, <2>2, SameRows, ThreadMove
<1> QED BY <1>5, <1>6 DEF Heartbeat

LEMMA TypeLoadCursor ==
    ASSUME TypeInv, NEW t \in Threads, LoadCursor(t), UNCHANGED Bookkeeping
    PROVE  TypeInv'
<1> DEFINE r == tick[t].req
           k == LoadOrNew(cursor[r])
<1>1. TypeOK /\ ThreadOK(t) /\ tick[t] \in Tick BY DEF TypeInv, TypeOK
<1>2. UNCHANGED <<row, res, call>> BY DEF LoadCursor
<1>4. r \in Requests /\ row[r].status # "absent" BY <1>1 DEF LoadCursor, ThreadOK
<1>5. k \in Cursor /\ k.phase # "absent" /\ k.phase \in Phase
  BY <1>1, <1>4, CursorTypes DEF TypeOK, Cursor
<1>6. cursor' \in [Requests -> Cursor]
  BY <1>1, <1>5 DEF LoadCursor, TypeOK
<1> HIDE DEF k
<1>7. /\ tick' \in [Threads -> Tick] /\ \A s \in Threads \ {t} : tick'[s] = tick[s]
      /\ ThreadOK(t)'
  <2>1. CASE EndTick(t) BY <1>1, <2>1, EndTickTypes
  <2>2. CASE /\ k.phase \notin TerminalPhase
             /\ tick' = [tick EXCEPT ![t].pc = "check", ![t].cur = k]
    <3>1. tick' \in [Threads -> Tick] /\ \A s \in Threads \ {t} : tick'[s] = tick[s]
      BY <1>1, <1>5, <2>2 DEF TypeOK, Tick, ThreadPc
    <3>2. tick'[t].pc = "check" /\ tick'[t].req = r /\ tick'[t].cur = k
      BY <1>1, <2>2 DEF TypeOK, Tick
    <3> QED BY <1>2, <1>4, <1>5, <2>2, <3>1, <3>2 DEF ThreadOK
  <2>3. CASE /\ k.phase \in TerminalPhase
             /\ tick' = [tick EXCEPT
                           ![t].pc = IF k.phase = "completed" THEN "result" ELSE "finish",
                           ![t].out = k.phase]
    <3>1. tick' \in [Threads -> Tick] /\ \A s \in Threads \ {t} : tick'[s] = tick[s]
      BY <1>1, <2>3 DEF TypeOK, Tick, ThreadPc
    <3>2. tick'[t].pc \in {"result", "finish"} /\ tick'[t].req = r /\ tick'[t].out = k.phase
      BY <1>1, <2>3 DEF TypeOK, Tick
    <3> QED BY <1>2, <1>4, <2>3, <3>1, <3>2 DEF ThreadOK, TerminalPhase
  <2> QED BY <2>1, <2>2, <2>3 DEF LoadCursor, k
<1> QED BY <1>1, <1>2, <1>6, <1>7, SameRows, ThreadMove

LEMMA TypeCheckCancelled ==
    ASSUME TypeInv, NEW t \in Threads, CheckCancelled(t), UNCHANGED Bookkeeping
    PROVE  TypeInv'
<1> DEFINE r  == tick[t].req
           go == IF tick[t].cur.phase = "paused" THEN Rest(t).pc ELSE "work"
<1>1. TypeOK /\ ThreadOK(t) /\ tick[t] \in Tick /\ tick[t].pc = "check"
  BY DEF TypeInv, TypeOK, CheckCancelled
<1>2. UNCHANGED <<row, res, cursor, call>> BY DEF CheckCancelled
<1>3. cursor' \in [Requests -> Cursor] BY <1>1, <1>2 DEF TypeOK
<1>4. r \in Requests /\ row'[r].status # "absent" BY <1>1, <1>2 DEF ThreadOK
<1>5. tick[t].cur.phase \in WorkPhase \cup {"paused"}
  BY <1>1 DEF Tick, Cursor, ThreadOK, Phase
<1>6. go \in ThreadPc /\ go \in {Rest(t).pc, "work"}
  BY RestingTick DEF ThreadPc
<1>7. /\ tick' \in [Threads -> Tick] /\ \A s \in Threads \ {t} : tick'[s] = tick[s]
      /\ ThreadOK(t)'
  <2>1. CASE EndTick(t) BY <1>1, <2>1, EndTickTypes
  <2>2. CASE \E o \in {"cancelled", "failed"} : tick' = [tick EXCEPT ![t].pc = "abort", ![t].out = o]
    <3> PICK o \in {"cancelled", "failed"} : tick' = [tick EXCEPT ![t].pc = "abort", ![t].out = o]
      BY <2>2
    <3>1. tick' \in [Threads -> Tick] /\ \A s \in Threads \ {t} : tick'[s] = tick[s]
      BY <1>1 DEF TypeOK, Tick, ThreadPc, TerminalPhase
    <3>2. tick'[t].pc = "abort" /\ tick'[t].req = r /\ tick'[t].out = o
      BY <1>1 DEF TypeOK, Tick
    <3> QED BY <1>4, <3>1, <3>2 DEF ThreadOK
  <2>3. CASE go = "work" /\ Goto(t, "work")
    <3>1. tick[t].cur.phase \in WorkPhase BY <1>5, <2>3, RestingTick
    <3>2. /\ tick' \in [Threads -> Tick] /\ \A s \in Threads \ {t} : tick'[s] = tick[s]
          /\ tick'[t] = [tick[t] EXCEPT !.pc = "work"]
      BY <1>1, <1>6, <2>3, GotoTypes
    <3>3. tick'[t].pc = "work" /\ tick'[t].req = r /\ tick'[t].cur = tick[t].cur
      BY <1>1, <3>2 DEF Tick
    <3> QED BY <1>4, <3>1, <3>2, <3>3 DEF ThreadOK
  <2>4. CASE GotoRecord(t, go)
    <3>1. go = "work" => tick[t].cur.phase \in WorkPhase BY <1>5, RestingTick
    <3> HIDE DEF go
    <3>2. /\ tick' \in [Threads -> Tick] /\ \A s \in Threads \ {t} : tick'[s] = tick[s]
          /\ tick'[t] = [tick[t] EXCEPT !.pc = "record", !.then = go]
      BY <1>1, <1>6, <2>4, GotoRecordTypes
    <3>3. /\ tick'[t].pc = "record" /\ tick'[t].then = go /\ tick'[t].req = r
          /\ tick'[t].cur = tick[t].cur
      BY <1>1, <3>2 DEF Tick
    <3> QED BY <1>4, <1>6, <3>1, <3>2, <3>3 DEF ThreadOK, Rest
  <2> QED BY <2>1, <2>2, <2>3, <2>4 DEF CheckCancelled
<1> QED BY <1>1, <1>2, <1>3, <1>7, SameRows, ThreadMove

\* The four ways in which an advance ends.
LEMMA TypeAdvance ==
    ASSUME TypeInv, NEW t \in Threads, UNCHANGED Bookkeeping,
           Abort(t) \/ Advance(t) \/ AdvanceFails(t) \/ AdvanceErrs(t)
    PROVE  TypeInv'
<1>1. TypeOK /\ ThreadOK(t) /\ tick[t] \in Tick BY DEF TypeInv, TypeOK
<1>2. UNCHANGED <<row, res, call>> /\ tick[t].pc \in {"abort", "work"}
  BY DEF Abort, Advance, AdvanceFails, AdvanceErrs
<1>4. tick[t].req \in Requests BY <1>1, <1>2 DEF ThreadOK
<1>5. row' \in [Requests -> Row] /\ res' \in [Requests -> SUBSET Lease] /\ RowsKept
  BY <1>1, <1>2, SameRows
<1>6. /\ cursor' \in [Requests -> Cursor]
      /\ EndTick(t) \/ \E o \in TerminalPhase : Settle(t, o)
  <2>1. CASE Abort(t)
    BY <1>1, <2>1, <1>4, SaveCursorTypes DEF ThreadOK, Tick, Abort, Phase
  <2>2. CASE Advance(t)
    <3> DEFINE p == NextPhase[tick[t].cur.phase]
    <3>1. tick[t].cur.phase \in WorkPhase BY <1>1, <2>2 DEF ThreadOK, Advance
    <3>2. p \in Phase /\ (p = "completed" => p \in TerminalPhase)
      BY <3>1 DEF NextPhase, WorkPhase, Phase, TerminalPhase
    <3>3. SaveCursor(t, p) /\ ((Settle(t, p) /\ p = "completed") \/ EndTick(t))
      BY <2>2 DEF Advance
    <3> HIDE DEF p
    <3> QED BY <1>1, <1>4, <3>2, <3>3, SaveCursorTypes
  <2>3. CASE AdvanceFails(t)
    BY <1>1, <1>4, <2>3, SaveCursorTypes DEF Phase, TerminalPhase, AdvanceFails
  <2>4. CASE AdvanceErrs(t)
    BY <1>1, <2>4 DEF TerminalPhase, AdvanceErrs, TypeOK
  <2> QED BY <2>1, <2>2, <2>3, <2>4
<1>7. /\ tick' \in [Threads -> Tick] /\ \A s \in Threads \ {t} : tick'[s] = tick[s]
      /\ ThreadOK(t)'
  BY <1>1, <1>2, <1>5, <1>6, EndTickTypes, SettleTypes
<1> QED BY <1>1, <1>2, <1>5, <1>6, <1>7, ThreadMove

LEMMA TypeRecordRunResult ==
    ASSUME TypeInv, NEW t \in Threads, RecordRunResult(t), UNCHANGED Bookkeeping
    PROVE  TypeInv'
<1> DEFINE r == tick[t].req
           x == RecordResultForLease(row[r], tick[t].lease)
<1>1. TypeOK /\ ThreadOK(t) /\ tick[t] \in Tick BY DEF TypeInv, TypeOK
<1>2. r \in Requests /\ row[r] \in Row /\ row[r].status # "absent" /\ tick[t].lease \in Lease
  BY <1>1 DEF RecordRunResult, ThreadOK, TypeOK, Tick
<1>3. Change(row[r], x) /\ SetRow(r, x) BY <1>2, LeaseChange DEF RecordRunResult
<1> HIDE DEF x
<1>4. row' \in [Requests -> Row] /\ res' \in [Requests -> SUBSET Lease] /\ RowsKept
  BY <1>1, <1>2, <1>3, UpdateRow
<1>5. cursor' \in [Requests -> Cursor] /\ call' = call
  BY <1>1 DEF RecordRunResult, TypeOK
<1>6. /\ tick' \in [Threads -> Tick] /\ \A s \in Threads \ {t} : tick'[s] = tick[s]
      /\ ThreadOK(t)'
  <2>1. CASE EndTick(t) BY <1>1, <2>1, EndTickTypes
  <2>2. CASE Goto(t, "complete")
    <3>1. "complete" \in ThreadPc BY DEF ThreadPc
    <3>2. /\ tick' \in [Threads -> Tick] /\ \A s \in Threads \ {t} : tick'[s] = tick[s]
          /\ tick'[t] = [tick[t] EXCEPT !.pc = "complete"]
      BY <1>1, <2>2, <3>1, GotoTypes
    <3>3. tick'[t].pc = "complete" /\ tick'[t].req = r BY <1>1, <3>2 DEF Tick
    <3>4. row'[r].status # "absent" BY <1>2, <1>4 DEF RowsKept, Kept
    <3> QED BY <1>2, <3>2, <3>3, <3>4 DEF ThreadOK
  <2> QED BY <2>1, <2>2 DEF RecordRunResult
<1> QED BY <1>1, <1>4, <1>5, <1>6, ThreadMove

\* Both statements that settle a request under its lease.
LEMMA TypeFinish ==
    ASSUME TypeInv, NEW t \in Threads, CompleteRunRequest(t) \/ FinishRunRequest(t),
           UNCHANGED Bookkeeping
    PROVE  TypeInv' /\ RowsChanged
<1> DEFINE r == tick[t].req
<1>1. TypeOK /\ ThreadOK(t) /\ tick[t] \in Tick BY DEF TypeInv, TypeOK
<1>2. r \in Requests /\ row[r] \in Row /\ tick[t].lease \in Lease
  BY <1>1 DEF CompleteRunRequest, FinishRunRequest, ThreadOK, TypeOK, Tick
<1>3. UNCHANGED <<row, res>> \/ \E x : Change(row[r], x) /\ SettleRow(r, x)
  BY <1>2, LeaseChange DEF CompleteRunRequest, FinishRunRequest
<1>4. /\ row' \in [Requests -> Row] /\ res' \in [Requests -> SUBSET Lease]
      /\ RowsKept /\ RowsChanged
  BY <1>1, <1>2, <1>3, SameRows, UpdateRow
<1>5. EndTick(t) /\ UNCHANGED <<cursor, call>>
  BY DEF CompleteRunRequest, FinishRunRequest
<1>6. cursor' \in [Requests -> Cursor] BY <1>1, <1>5 DEF TypeOK
<1> QED BY <1>1, <1>4, <1>5, <1>6, EndTickTypes, ThreadMove

(***************************************************************************)
(* Types, action by action: the HTTP calls, time and the process.           *)
(***************************************************************************)

LEMMA CallAtTypes ==
    ASSUME NEW p \in CallPc, NEW r \in Requests \cup {NoRequest}
    PROVE  CallAt(p, r) \in Call /\ CallAt(p, r).pc = p /\ CallAt(p, r).req = r
BY DEF NoCursor, Cursor, Phase, CallAt, Call

\* A handler that answers.
LEMMA EndCallTypes ==
    ASSUME TypeOK, NEW c \in Calls, EndCall(c)
    PROVE  /\ call' \in [Calls -> Call] /\ \A d \in Calls \ {c} : call'[d] = call[d]
           /\ call'[c].pc = "done"
           /\ CallOK(c)'
BY CallAtTypes DEF CallPc, EndCall, TypeOK, CallOK

\* A handler that goes on with the request it read.
LEMMA CallOnTypes ==
    ASSUME TypeInv, NEW c \in Calls, NEW k \in Call, k.req = call[c].req,
           call[c].pc \notin {"fresh", "insert", "done"}, RowsKept,
           call' = [call EXCEPT ![c] = k]
    PROVE  /\ call' \in [Calls -> Call] /\ \A d \in Calls \ {c} : call'[d] = call[d]
           /\ CallOK(c)'
BY DEF TypeInv, CallOK, TypeOK, RowsKept, Kept

LEMMA TypeCreate ==
    ASSUME TypeInv, NEW c \in Calls, CreateLookup(c) \/ CreateInsert(c), UNCHANGED Bookkeeping
    PROVE  TypeInv' /\ RowsChanged
<1>1. TypeOK BY DEF TypeInv
<1>2. UNCHANGED <<cursor, tick>> BY DEF CreateLookup, CreateInsert
<1>3. cursor' \in [Requests -> Cursor] BY <1>1, <1>2 DEF TypeOK
<1>4. CASE CreateLookup(c)
  <2>1. Recover BY <1>4 DEF CreateLookup
  <2>2. CASE EndCall(c)
    BY <1>1, <1>2, <1>3, <2>1, <2>2, RecoverRows, EndCallTypes, CallMove
  <2>3. CASE GotoCall(c, "insert")
    BY <1>1, <2>3, <1>2, <1>3, <2>1, RecoverRows, CallMove DEF GotoCall, TypeOK, Call, CallPc,
       CallOK
  <2> QED BY <1>4, <2>2, <2>3 DEF CreateLookup
<1>5. CASE CreateInsert(c)
  <2>1. PICK r \in Requests : row[r].status = "absent" /\ SetRow(r, SubmitRunConfig(TRUE))
    BY <1>5 DEF CreateInsert
  <2>2. Change(row[r], SubmitRunConfig(TRUE)) BY <1>1, <2>1, FillChange DEF TypeOK
  <2>3. EndCall(c) BY <1>5 DEF CreateInsert
  <2> QED BY <1>1, <1>2, <1>3, <2>1, <2>2, <2>3, UpdateRow, EndCallTypes, CallMove
<1> QED BY <1>4, <1>5

LEMMA TypeControlRead ==
    ASSUME TypeInv, NEW c \in Calls, ControlRead(c), UNCHANGED Bookkeeping
    PROVE  TypeInv'
<1>1. TypeOK BY DEF TypeInv
<1>2. Recover /\ UNCHANGED <<cursor, tick>> BY DEF ControlRead
<1>3. cursor' \in [Requests -> Cursor] BY <1>1, <1>2 DEF TypeOK
<1>4. row' = Recovered BY <1>1, <1>2, RecoverRows
<1>5. PICK op \in Ops \ {"create"}, r \in Requests :
        call' = [call EXCEPT ![c] = IF FirstStep(op, r, Recovered[r]) = "done"
                                      THEN CallAt("done", NoRequest)
                                      ELSE CallAt(FirstStep(op, r, Recovered[r]), r)]
  BY DEF ControlRead
<1> DEFINE p == FirstStep(op, r, Recovered[r])
<1>6. p \in CallPc
  BY ServiceAssumption DEF FirstStep, CallPc
<1>7. p # "done" => Recovered[r].status # "absent" BY DEF FirstStep, Exists
<1> HIDE DEF p
<1>8. CASE p = "done"
  BY <1>5, <1>8, <1>1, <1>2, <1>3, RecoverRows, EndCallTypes, CallMove DEF EndCall, p
<1>9. CASE p # "done"
  <2>1. call' = [call EXCEPT ![c] = CallAt(p, r)] BY <1>5, <1>9 DEF p
  <2>2. CallAt(p, r) \in Call /\ CallAt(p, r).req = r BY <1>6, CallAtTypes
  <2>3. /\ call' \in [Calls -> Call] /\ \A d \in Calls \ {c} : call'[d] = call[d]
        /\ call'[c].req = r
    BY <1>1, <2>1, <2>2 DEF TypeOK
  <2>4. CallOK(c)' BY <1>4, <1>7, <1>9, <2>3 DEF CallOK
  <2> QED BY <1>1, <1>2, <1>3, <2>3, <2>4, RecoverRows, CallMove
<1> QED BY <1>8, <1>9

\* The calls' last statements.
LEMMA TypeLastStatement ==
    ASSUME TypeInv, NEW c \in Calls, UNCHANGED Bookkeeping,
           CancelRun(c) \/ StopRow(c) \/ PauseRow(c) \/ ResumeRow(c) \/ DeleteRow(c)
    PROVE  TypeInv' /\ RowsChanged
<1> DEFINE r == call[c].req
<1>1. TypeOK BY DEF TypeInv
<1>2. r \in Requests /\ row[r] \in Row
  BY DEF TypeInv, CallOK, TypeOK, CancelRun, StopRow, PauseRow, ResumeRow, DeleteRow
<1>3. UNCHANGED <<row, res>> \/ \E x : Change(row[r], x) /\ (SetRow(r, x) \/ SettleRow(r, x))
  BY <1>2, ControlChange DEF CancelRun, StopRow, PauseRow, ResumeRow, DeleteRow
<1>4. /\ row' \in [Requests -> Row] /\ res' \in [Requests -> SUBSET Lease]
      /\ RowsKept /\ RowsChanged
  BY <1>1, <1>2, <1>3, SameRows, UpdateRow
<1>5. EndCall(c) /\ UNCHANGED <<cursor, tick>>
  BY DEF CancelRun, StopRow, PauseRow, ResumeRow, DeleteRow
<1>6. cursor' \in [Requests -> Cursor] BY <1>1, <1>5 DEF TypeOK
<1> QED BY <1>1, <1>4, <1>5, <1>6, EndCallTypes, CallMove

LEMMA TypeStopResult ==
    ASSUME TypeInv, NEW c \in Calls, StopResult(c), UNCHANGED Bookkeeping
    PROVE  TypeInv' /\ RowsChanged
<1> DEFINE r == call[c].req
<1>1. TypeOK /\ call[c] \in Call /\ call[c].pc = "stop_result"
  BY DEF TypeInv, TypeOK, StopResult
<1>2. r \in Requests /\ row[r] \in Row BY <1>1 DEF TypeInv, CallOK, TypeOK
<1>3. Change(row[r], RecordResult(row[r])) /\ SetRow(r, RecordResult(row[r]))
  BY <1>2, ControlChange DEF StopResult
<1>4. /\ row' \in [Requests -> Row] /\ res' \in [Requests -> SUBSET Lease]
      /\ RowsKept /\ RowsChanged
  BY <1>1, <1>2, <1>3, UpdateRow
<1>5. UNCHANGED <<cursor, tick>> /\ cursor' \in [Requests -> Cursor]
  BY <1>1 DEF StopResult, TypeOK
<1> DEFINE k == [call[c] EXCEPT !.pc = "stop_row"]
<1>6. call' = [call EXCEPT ![c] = k] BY <1>1 DEF StopResult, GotoCall, TypeOK
<1>7. k \in Call /\ k.req = call[c].req BY <1>1 DEF CallPc, Call
<1> HIDE DEF k
<1>8. /\ call' \in [Calls -> Call] /\ \A d \in Calls \ {c} : call'[d] = call[d]
      /\ CallOK(c)'
  BY <1>1, <1>4, <1>6, <1>7, CallOnTypes
<1> QED BY <1>1, <1>4, <1>5, <1>8, CallMove

\* The statements of pause, resume and delete that leave the table alone.
LEMMA TypeCallCursor ==
    ASSUME TypeInv, NEW c \in Calls, UNCHANGED Bookkeeping,
           PauseLoad(c) \/ PauseSave(c) \/ ResumeLoad(c) \/ ResumeSave(c) \/ DeleteStorage(c)
    PROVE  TypeInv'
<1> DEFINE r == call[c].req
<1>1. TypeOK /\ call[c] \in Call /\ call[c].cur \in Cursor
  BY DEF TypeInv, TypeOK, Call
<1>2. /\ call[c].pc \notin {"fresh", "insert", "done"}
      /\ UNCHANGED <<row, res, tick>>
  BY DEF PauseLoad, PauseSave, ResumeLoad, ResumeSave, DeleteStorage
<1>3. r \in Requests /\ cursor[r] \in Cursor /\ NoCursor \in Cursor
  BY <1>1, <1>2 DEF TypeInv, CallOK, TypeOK, NoCursor, Cursor, Phase
<1>4. row' \in [Requests -> Row] /\ res' \in [Requests -> SUBSET Lease] /\ RowsKept
  BY <1>1, <1>2, SameRows
<1>5. \E k \in Call : k.req = r /\ call' = [call EXCEPT ![c] = k]
  <2>1. CASE PauseLoad(c)
    <3> DEFINE p == IF cursor[r].phase = "absent" THEN "pause_row" ELSE "pause_save"
               k == [call[c] EXCEPT !.pc = p, !.cur = cursor[r]]
    <3>1. p \in CallPc BY DEF CallPc
    <3>2. call' = [call EXCEPT ![c] = k] BY <1>1, <2>1 DEF PauseLoad, TypeOK
    <3>3. k \in Call /\ k.req = r BY <1>1, <1>3, <3>1 DEF Call
    <3> QED BY <3>2, <3>3
  <2>2. CASE PauseSave(c) \/ ResumeSave(c)
    BY <1>3, <2>2, CallAtTypes DEF PauseSave, ResumeSave, CallPc
  <2>3. CASE ResumeLoad(c)
    <3> DEFINE p == IF cursor[r].phase = "paused" THEN "resume_save" ELSE "resume_row"
               q == IF cursor[r].phase = "paused" THEN cursor[r] ELSE NoCursor
               k == [call[c] EXCEPT !.pc = p, !.cur = q]
    <3>1. p \in CallPc /\ q \in Cursor BY <1>3 DEF CallPc
    <3>2. call' = [call EXCEPT ![c] = k] BY <1>1, <2>3 DEF ResumeLoad, TypeOK
    <3>3. k \in Call /\ k.req = r BY <1>1, <1>3, <3>1 DEF Call
    <3> QED BY <3>2, <3>3
  <2>4. CASE DeleteStorage(c)
    <3> DEFINE k == [call[c] EXCEPT !.pc = "delete_row"]
    <3>1. "delete_row" \in CallPc BY DEF CallPc
    <3>2. call' = [call EXCEPT ![c] = k] BY <1>1, <2>4 DEF DeleteStorage, GotoCall, TypeOK
    <3>3. k \in Call /\ k.req = r BY <1>1, <3>1 DEF Call
    <3> QED BY <3>2, <3>3
  <2> QED BY <2>1, <2>2, <2>3, <2>4
<1>6. cursor' \in [Requests -> Cursor]
  <2>1. CASE PauseLoad(c) \/ ResumeLoad(c) BY <1>1, <2>1 DEF PauseLoad, ResumeLoad, TypeOK
  <2>2. CASE PauseSave(c)
    <3> DEFINE k == [seq |-> cursor[r].seq + 1, phase |-> "paused", prev |-> call[c].cur.phase]
    <3>1. k \in Cursor BY <1>1, <1>3 DEF Cursor, Phase
    <3>2. cursor' = [cursor EXCEPT ![r] = Persist(cursor[r], k)] BY <2>2 DEF PauseSave
    <3> HIDE DEF k
    <3>3. Persist(cursor[r], k) \in Cursor BY <1>3, <3>1, CursorTypes
    <3> QED BY <1>1, <3>2, <3>3 DEF TypeOK
  <2>3. CASE ResumeSave(c)
    <3> DEFINE k == [seq   |-> cursor[r].seq + 1, phase |-> RestoredPhase(call[c].cur),
                     prev  |-> call[c].cur.prev]
    <3>1. RestoredPhase(call[c].cur) \in Phase BY <1>1 DEF RestoredPhase, Cursor, Phase, WorkPhase
    <3>2. k \in Cursor BY <1>1, <1>3, <3>1 DEF Cursor
    <3>3. cursor' = [cursor EXCEPT ![r] = Persist(cursor[r], k)] BY <2>3 DEF ResumeSave
    <3> HIDE DEF k
    <3>4. Persist(cursor[r], k) \in Cursor BY <1>3, <3>2, CursorTypes
    <3> QED BY <1>1, <3>3, <3>4 DEF TypeOK
  <2>4. CASE DeleteStorage(c) BY <1>1, <1>3, <2>4 DEF DeleteStorage, TypeOK
  <2> QED BY <2>1, <2>2, <2>3, <2>4
<1>7. /\ call' \in [Calls -> Call] /\ \A d \in Calls \ {c} : call'[d] = call[d]
      /\ CallOK(c)'
  BY <1>2, <1>4, <1>5, CallOnTypes
<1> QED BY <1>1, <1>2, <1>4, <1>6, <1>7, CallMove

\* A deadline passes.
LEMMA TypeExpire ==
    ASSUME TypeInv, NEW r \in Requests, Expire(r)
    PROVE  TypeInv' /\ RowsChanged
<1> DEFINE x == [row[r] EXCEPT !.expired = TRUE]
<1>1. TypeOK /\ row[r] \in Row BY DEF TypeInv, TypeOK
<1>2. Change(row[r], x) BY <1>1 DEF Change, Row, Quiet, Kept
<1>3. SetRow(r, x) /\ UNCHANGED <<cursor, tick, call, service, crashes>>
  BY <1>1 DEF Expire, SetRow, TypeOK
<1> HIDE DEF x
<1>4. /\ row' \in [Requests -> Row] /\ res' \in [Requests -> SUBSET Lease]
      /\ RowsKept /\ RowsChanged
  BY <1>1, <1>2, <1>3, UpdateRow
<1>5. expiries' \in 0..MaxExpiries BY <1>1, ServiceAssumption DEF Expire, TypeOK
<1>6. TypeOK' BY <1>1, <1>3, <1>4, <1>5 DEF TypeOK
<1>7. ASSUME NEW s \in Threads PROVE ThreadOK(s)'
  BY <1>3, <1>4 DEF TypeInv, ThreadOK, RowsKept, Kept, Rest
<1>8. ASSUME NEW d \in Calls PROVE CallOK(d)'
  BY <1>3, <1>4 DEF TypeInv, CallOK, RowsKept, Kept
<1> QED BY <1>4, <1>6, <1>7, <1>8 DEF TypeInv

\* The process ends: its threads hold nothing any more.
LEMMA TypeProcessEnds ==
    ASSUME TypeInv, ProcessEnds
    PROVE  TypeInv'
<1>1. TypeOK BY DEF TypeInv
<1>2. UNCHANGED <<row, res, cursor, expiries>> BY DEF ProcessEnds
<1>3. crashes' \in 0..MaxCrashes /\ service' \in {"up", "crashed", "stopped"}
  BY <1>1, ServiceAssumption DEF ProcessEnds, TypeOK
<1>4. ASSUME NEW t \in Threads
      PROVE  tick'[t] \in Tick /\ tick'[t].lease = NoLease /\ tick'[t].pc \in {"fresh", "idle", "done"}
  <2>1. CASE tick[t].pc = "fresh"
    BY <1>1, <2>1 DEF ProcessEnds, TypeInv, TypeOK, ThreadOK
  <2>2. CASE tick[t].pc # "fresh" BY <2>2, RestingTick DEF ProcessEnds
  <2> QED BY <2>1, <2>2
<1>5. tick' \in [Threads -> Tick] BY <1>4 DEF ProcessEnds
<1>6. CallAt("done", NoRequest) \in Call /\ CallAt("done", NoRequest).pc = "done"
  BY CallAtTypes DEF CallPc
<1>7. ASSUME NEW c \in Calls PROVE call'[c] \in Call /\ call'[c].pc \in {"fresh", "done"}
  BY <1>1, <1>6 DEF ProcessEnds, TypeOK
<1>8. call' \in [Calls -> Call] BY <1>7 DEF ProcessEnds
<1>9. TypeOK' BY <1>1, <1>2, <1>3, <1>5, <1>8 DEF TypeOK
<1>10. ASSUME NEW t \in Threads PROVE ThreadOK(t)' BY <1>4 DEF ThreadOK
<1>11. ASSUME NEW c \in Calls PROVE CallOK(c)' BY <1>7 DEF CallOK
<1> QED BY <1>9, <1>10, <1>11 DEF TypeInv

\* The service starts: adoption of a crash and recovery are legal changes.
LEMMA TypeRunGepaService ==
    ASSUME TypeInv, RunGepaService
    PROVE  TypeInv' /\ RowsChanged
<1>1. TypeOK BY DEF TypeInv
<1>2. UNCHANGED <<cursor, tick, call, expiries, crashes>> /\ service' = "up"
  BY DEF RunGepaService
<1>3. ASSUME NEW r \in Requests PROVE Change(row[r], row'[r])
  BY <1>1, NoChange, RecoverChange DEF RunGepaService, TypeOK, Change, Quiet, Kept
<1>4. RowsChanged /\ RowsKept BY <1>3 DEF RowsChanged, RowsKept, Change
<1>5. row' \in [Requests -> Row] BY <1>3 DEF RunGepaService, Change
<1>6. res' \in [Requests -> SUBSET Lease] BY <1>1 DEF RunGepaService, TypeOK
<1>7. TypeOK' BY <1>1, <1>2, <1>5, <1>6 DEF TypeOK
<1>8. ASSUME NEW s \in Threads PROVE ThreadOK(s)'
  BY <1>2, <1>4 DEF TypeInv, ThreadOK, RowsKept, Kept, Rest
<1>9. ASSUME NEW d \in Calls PROVE CallOK(d)'
  BY <1>2, <1>4 DEF TypeInv, CallOK, RowsKept, Kept
<1> QED BY <1>4, <1>7, <1>8, <1>9 DEF TypeInv

(***************************************************************************)
(* The type theorem.                                                        *)
(***************************************************************************)

LEMMA TypeInit == Init => TypeInv
<1> SUFFICES ASSUME Init PROVE TypeInv OBVIOUS
<1>1. row \in [Requests -> Row]
  BY LeaseIds DEF AbsentRow, SubmitRunConfig, Row, Statuses, Init
<1>2. res \in [Requests -> SUBSET Lease] BY DEF Init
<1>3. cursor \in [Requests -> Cursor]
  BY DEF NoCursor, Cursor, Phase, Init
<1>4. tick \in [Threads -> Tick] BY RestingTick DEF Init, ThreadPc
<1>5. call \in [Calls -> Call]
  BY CallAtTypes DEF CallPc, Init
<1>6. TypeOK
  <2>1. service \in {"up", "crashed", "stopped"} BY DEF Init
  <2>2. expiries \in 0..MaxExpiries /\ crashes \in 0..MaxCrashes
    BY ServiceAssumption DEF Init
  <2> QED BY <1>1, <1>2, <1>3, <1>4, <1>5, <2>1, <2>2 DEF TypeOK
<1>7. ASSUME NEW t \in Threads PROVE ThreadOK(t)
  BY DEF Init, Resting, ThreadOK
<1>8. \A c \in Calls : CallOK(c) BY DEF Init, CallOK, CallAt
<1> QED BY <1>6, <1>7, <1>8 DEF TypeInv

LEMMA TypeNext == TypeInv /\ [Next]_vars => TypeInv'
<1> SUFFICES ASSUME TypeInv, [Next]_vars PROVE TypeInv' OBVIOUS
<1>1. ASSUME NEW t \in Threads, ThreadStep(t) PROVE TypeInv'
  <2>1. UNCHANGED Bookkeeping BY <1>1 DEF ThreadStep, Bookkeeping
  <2>2. CASE StepRun(t) BY <2>1, <2>2, TypeStepRun
  <2>3. CASE ActiveRunRequest(t) BY <2>1, <2>3, TypeActiveRunRequest
  <2>4. CASE FindCancelled(t) BY <2>1, <2>4, TypeFindCancelled
  <2>5. CASE SelectQueued(t) BY <2>1, <2>5, TypeSelectQueued
  <2>6. CASE ClaimQueued(t) BY <2>1, <2>6, TypeClaimQueued
  <2>7. CASE RecordResourceLeases(t) BY <2>1, <2>7, TypeRecordResourceLeases
  <2>8. CASE StartRunRequest(t) BY <2>1, <2>8, TypeStartRunRequest
  <2>9. CASE StartCursor(t) BY <2>1, <2>9, TypeStartCursor
  <2>16. CASE StartSave(t) BY <2>1, <2>16, TypeStartSave
  <2>10. CASE Heartbeat(t) BY <2>1, <2>10, TypeHeartbeat
  <2>11. CASE LoadCursor(t) BY <2>1, <2>11, TypeLoadCursor
  <2>12. CASE CheckCancelled(t) BY <2>1, <2>12, TypeCheckCancelled
  <2>13. CASE Abort(t) \/ Advance(t) \/ AdvanceFails(t) \/ AdvanceErrs(t)
    BY <2>1, <2>13, TypeAdvance
  <2>14. CASE RecordRunResult(t) BY <2>1, <2>14, TypeRecordRunResult
  <2>15. CASE CompleteRunRequest(t) \/ FinishRunRequest(t) BY <2>1, <2>15, TypeFinish
  <2> QED BY <1>1, <2>2, <2>3, <2>4, <2>5, <2>6, <2>7, <2>8, <2>9, <2>10, <2>11, <2>12,
             <2>13, <2>14, <2>15, <2>16 DEF ThreadStep
<1>2. ASSUME NEW c \in Calls, CallStep(c) PROVE TypeInv'
  <2>1. UNCHANGED Bookkeeping BY <1>2 DEF CallStep, Bookkeeping
  <2>2. CASE CreateLookup(c) \/ CreateInsert(c) BY <2>1, <2>2, TypeCreate
  <2>3. CASE ControlRead(c) BY <2>1, <2>3, TypeControlRead
  <2>4. CASE CancelRun(c) \/ StopRow(c) \/ PauseRow(c) \/ ResumeRow(c) \/ DeleteRow(c)
    BY <2>1, <2>4, TypeLastStatement
  <2>5. CASE StopResult(c) BY <2>1, <2>5, TypeStopResult
  <2>6. CASE PauseLoad(c) \/ PauseSave(c) \/ ResumeLoad(c) \/ ResumeSave(c) \/ DeleteStorage(c)
    BY <2>1, <2>6, TypeCallCursor
  <2> QED BY <1>2, <2>2, <2>3, <2>4, <2>5, <2>6 DEF CallStep
<1>3. ASSUME NEW r \in Requests, Expire(r) PROVE TypeInv' BY <1>3, TypeExpire
<1>4. CASE ProcessEnds BY <1>4, TypeProcessEnds
<1>5. CASE RunGepaService BY <1>5, TypeRunGepaService
<1>6. CASE UNCHANGED vars
  BY <1>6 DEF vars, TypeInv, TypeOK, ThreadOK, CallOK, Rest
<1> QED BY <1>1, <1>2, <1>3, <1>4, <1>5, <1>6 DEF Next

\* Every reachable state is well typed, and every thread and call holds what
\* its place in its handler needs: its request exists in the table, and the
\* cursor it loaded fits the step it is about to take.
THEOREM TypeCorrect == Spec => [](TypeInv /\ TypeOK)
<1>1. TypeInv => TypeOK BY DEF TypeInv
<1> QED BY <1>1, TypeInit, TypeNext, PTL DEF Spec

-----------------------------------------------------------------------------
(***************************************************************************)
(* A lease is held by one request and, past the claim, by one worker id;    *)
(* while no deadline passes and nobody pauses, a request is leased once.    *)
(***************************************************************************)

\* A thread keeps its lease and its request, or holds no lease any more; it
\* does not look for a request to claim unless it did so already.
ThreadQuiet(t) ==
    \/ tick'[t] = tick[t]
    \/ tick'[t].lease = NoLease /\ tick'[t].pc \notin Seeking
    \/ /\ tick[t].pc \notin Seeking /\ tick'[t].pc \notin Seeking
       /\ tick'[t].lease = tick[t].lease /\ tick'[t].req = tick[t].req

\* A step in which no lease id is drawn, handed out or read back.
QuietStep == RowsChanged /\ \A t \in Threads : ThreadQuiet(t)

\* The rows' part of the lease invariant survives every legal change.
LEMMA QuietRows ==
    ASSUME TypeOK, LeaseColumns, SlotHoldsOne, RowsChanged
    PROVE  /\ LeaseColumns' /\ SlotHoldsOne'
           /\ \A t \in Slots, r \in Requests : row'[r].worker = t =>
                row[r].worker = t /\ row'[r].lease = row[r].lease
<1>1. ASSUME NEW r \in Requests PROVE Quiet(row[r], row'[r])
  BY DEF RowsChanged, Change
<1>2. ASSUME NEW t \in Slots, NEW r \in Requests, row'[r].worker = t
      PROVE  row[r].worker = t /\ row'[r].lease = row[r].lease
  BY <1>1, <1>2, WorkerIds DEF Quiet
<1>3. ASSUME NEW r \in Requests
      PROVE  /\ (row'[r].status \in ActiveStatus) <=> (row'[r].lease # NoLease)
             /\ (row'[r].status \in ActiveStatus) <=> (row'[r].worker # NoWorker)
             /\ row'[r].lease[1] = row'[r].worker
  BY <1>1, LeaseIds DEF LeaseColumns, Quiet
<1>4. SlotHoldsOne' BY <1>2 DEF SlotHoldsOne
<1> QED BY <1>2, <1>3, <1>4 DEF LeaseColumns

\* A current lease names the worker of its row, and a thread's lease its own.
LEMMA NamesOwn ==
    ASSUME LeaseColumns, LeaseNames, NEW t \in Threads, NEW r \in Requests,
           tick[t].lease # NoLease, tick[t].lease = row[r].lease
    PROVE  row[r].worker = WorkerId(t)
BY DEF LeaseColumns, LeaseNames

\* What is left to show of the lease invariant after a step.
SlotOwner ==
    \A t \in Slots, r \in Requests :
        tick[t].lease # NoLease /\ tick[t].pc # "claim" /\ row[r].worker = t
            => tick[t].req = r /\ tick[t].lease = row[r].lease

LEMMA LeaseParts ==
    ASSUME LeaseColumns', LeaseNames', SlotFree', SlotHoldsOne', SlotOwner'
    PROVE  LeaseInv'
BY NamesOwn DEF LeaseInv, LeaseOwner, SlotOwner, LeaseColumns, LeaseNames

\* The slots but t keep what they hold when only t moves.
LEMMA OtherSlots ==
    ASSUME TypeOK, LeaseInv, NEW t \in Threads, \A s \in Threads \ {t} : tick'[s] = tick[s],
           NEW s \in Slots, s # t, NEW r \in Requests, row'[r].worker = s,
           row[r].worker = s, row'[r].lease = row[r].lease
    PROVE  /\ tick'[s].pc \notin Seeking
           /\ tick'[s].lease # NoLease /\ tick'[s].pc # "claim" =>
                tick'[s].req = r /\ tick'[s].lease = row'[r].lease
<1>1. tick'[s] = tick[s] BY WorkerIds
<1> QED BY <1>1 DEF LeaseInv, SlotFree, LeaseOwner

LEMMA QuietKeepsLeases ==
    ASSUME TypeOK, LeaseInv, QuietStep
    PROVE  LeaseInv'
<1>1. /\ LeaseColumns' /\ SlotHoldsOne'
      /\ \A t \in Slots, r \in Requests : row'[r].worker = t =>
           row[r].worker = t /\ row'[r].lease = row[r].lease
  BY QuietRows DEF LeaseInv, QuietStep
<1>2. LeaseNames'
  <2> SUFFICES ASSUME NEW t \in Threads
               PROVE  /\ tick'[t].lease # NoLease => tick'[t].lease[1] = WorkerId(t)
                      /\ tick'[t].pc = "claim" => tick'[t].lease # NoLease
    BY DEF LeaseNames
  <2> QED BY DEF QuietStep, ThreadQuiet, LeaseInv, LeaseNames, Seeking
<1>3. ASSUME NEW t \in Slots, NEW r \in Requests, row'[r].worker = t
      PROVE  /\ tick'[t].pc \notin Seeking
             /\ tick'[t].lease # NoLease => tick'[t].req = r /\ tick'[t].lease = row'[r].lease
  <2>1. ThreadQuiet(t) BY WorkerIds DEF QuietStep
  <2>2. /\ tick[t].pc \notin Seeking
        /\ tick[t].lease # NoLease => tick[t].req = r /\ tick[t].lease = row[r].lease
    BY <1>1, <1>3 DEF LeaseInv, SlotFree, LeaseOwner, Seeking
  <2> QED BY <1>1, <1>3, <2>1, <2>2 DEF ThreadQuiet
<1>4. SlotFree' /\ SlotOwner' BY <1>3 DEF SlotFree, SlotOwner
<1> QED BY <1>1, <1>2, <1>4, LeaseParts

\* One thread moves quietly and the others not at all.
LEMMA QuietMove ==
    ASSUME TypeOK, RowsChanged, NEW t \in Threads, ThreadQuiet(t),
           \A s \in Threads \ {t} : tick'[s] = tick[s]
    PROVE  QuietStep
BY DEF QuietStep, ThreadQuiet

LEMMA QuietEndTick ==
    ASSUME TypeOK, RowsChanged, NEW t \in Threads, EndTick(t)
    PROVE  QuietStep
BY EndTickTypes, RestingTick, QuietMove DEF ThreadQuiet, Seeking

(***************************************************************************)
(* The three steps that are not quiet.                                      *)
(***************************************************************************)

\* A worker that found no request of its own looks for one, and mints a lease
\* id for the one it will claim: no other slot's row is touched by that.
LEMMA LeaseSought ==
    ASSUME TypeOK, LeaseInv, RowsChanged, NEW t \in Threads,
           \A s \in Threads \ {t} : tick'[s] = tick[s],
           t \in Slots => \A r \in Requests : row'[r].worker # t,
           \/ tick'[t].pc # "claim" /\ tick'[t].lease = NoLease
           \/ \E m \in Millis : tick'[t].lease = <<WorkerId(t), m>>
    PROVE  LeaseInv'
<1>1. /\ LeaseColumns' /\ SlotHoldsOne'
      /\ \A s \in Slots, r \in Requests : row'[r].worker = s =>
           row[r].worker = s /\ row'[r].lease = row[r].lease
  BY QuietRows DEF LeaseInv
<1>2. LeaseNames'
  <2> SUFFICES ASSUME NEW s \in Threads
               PROVE  /\ tick'[s].lease # NoLease => tick'[s].lease[1] = WorkerId(s)
                      /\ tick'[s].pc = "claim" => tick'[s].lease # NoLease
    BY DEF LeaseNames
  <2>1. CASE s = t BY <2>1, WorkerIds, LeaseIds
  <2>2. CASE s # t BY <2>2 DEF LeaseInv, LeaseNames
  <2> QED BY <2>1, <2>2
<1>3. ASSUME NEW s \in Slots, NEW r \in Requests, row'[r].worker = s
      PROVE  /\ tick'[s].pc \notin Seeking
             /\ tick'[s].lease # NoLease /\ tick'[s].pc # "claim" =>
                  tick'[s].req = r /\ tick'[s].lease = row'[r].lease
  BY <1>1, <1>3, OtherSlots
<1>4. SlotFree' /\ SlotOwner' BY <1>3 DEF SlotFree, SlotOwner
<1> QED BY <1>1, <1>2, <1>4, LeaseParts

\* The claim hands the lease id to a queued request.
LEMMA LeaseClaimed ==
    ASSUME TypeOK, LeaseInv, NEW t \in Threads, NEW r \in Requests,
           tick[t].pc = "claim", tick[t].req = r, row[r].status = "queued",
           row' = [row EXCEPT ![r] = Claim(row[r], tick[t].lease, WorkerId(t))],
           \A s \in Threads \ {t} : tick'[s] = tick[s],
           tick'[t].pc = "record", tick'[t].lease = tick[t].lease, tick'[t].req = r
    PROVE  LeaseInv'
<1> DEFINE l == tick[t].lease
<1>1. l # NoLease /\ l[1] = WorkerId(t) BY DEF LeaseInv, LeaseNames
<1>2. /\ row'[r].status = "leased" /\ row'[r].lease = l /\ row'[r].worker = WorkerId(t)
      /\ \A q \in Requests \ {r} : row'[q] = row[q]
  BY DEF TypeOK, Row, Claim
<1>3. WorkerId(t) # NoWorker BY WorkerIds, WorkersAssumption
<1>4. LeaseColumns'
  <2> SUFFICES ASSUME NEW q \in Requests
               PROVE  /\ (row'[q].status \in ActiveStatus) <=> (row'[q].lease # NoLease)
                      /\ (row'[q].status \in ActiveStatus) <=> (row'[q].worker # NoWorker)
                      /\ row'[q].lease[1] = row'[q].worker
    BY DEF LeaseColumns
  <2>1. CASE q = r BY <1>1, <1>2, <1>3, <2>1 DEF ActiveStatus
  <2>2. CASE q # r BY <1>2, <2>2 DEF LeaseInv, LeaseColumns
  <2> QED BY <2>1, <2>2
<1>5. LeaseNames'
  <2> SUFFICES ASSUME NEW s \in Threads
               PROVE  /\ tick'[s].lease # NoLease => tick'[s].lease[1] = WorkerId(s)
                      /\ tick'[s].pc = "claim" => tick'[s].lease # NoLease
    BY DEF LeaseNames
  <2>1. CASE s = t BY <1>1, <2>1
  <2>2. CASE s # t BY <2>2 DEF LeaseInv, LeaseNames
  <2> QED BY <2>1, <2>2
<1>6. ASSUME NEW s \in Slots, NEW q \in Requests, row'[q].worker = s
      PROVE  (s = t /\ q = r) \/ (s # t /\ q # r /\ row[q].worker = s)
  <2>1. CASE q = r BY <1>2, <1>6, <2>1, WorkerIds
  <2>2. CASE q # r BY <1>2, <1>6, <2>2 DEF LeaseInv, SlotFree, Seeking
  <2> QED BY <2>1, <2>2
<1>7. SlotHoldsOne' BY <1>6 DEF LeaseInv, SlotHoldsOne
<1>8. ASSUME NEW s \in Slots, NEW q \in Requests, row'[q].worker = s
      PROVE  /\ tick'[s].pc \notin Seeking
             /\ tick'[s].lease # NoLease /\ tick'[s].pc # "claim" =>
                  tick'[s].req = q /\ tick'[s].lease = row'[q].lease
  <2>1. CASE s = t BY <1>2, <1>6, <1>8, <2>1 DEF Seeking
  <2>2. CASE s # t BY <1>2, <1>6, <1>8, <2>2, OtherSlots
  <2> QED BY <2>1, <2>2
<1>9. SlotFree' /\ SlotOwner' BY <1>8 DEF SlotFree, SlotOwner
<1> QED BY <1>4, <1>5, <1>7, <1>9, LeaseParts

\* A worker reads the lease of its own active request back.
LEMMA LeaseReadBack ==
    ASSUME TypeOK, LeaseInv, RowsChanged, NEW t \in Threads, NEW r \in Requests,
           \A s \in Threads \ {t} : tick'[s] = tick[s], tick'[t].pc \notin Seeking,
           tick'[t].req = r, tick'[t].lease = row'[r].lease, row'[r].worker = WorkerId(t)
    PROVE  LeaseInv'
<1>1. /\ LeaseColumns' /\ SlotHoldsOne'
      /\ \A s \in Slots, q \in Requests : row'[q].worker = s =>
           row[q].worker = s /\ row'[q].lease = row[q].lease
  BY QuietRows DEF LeaseInv
<1>2. LeaseNames'
  <2> SUFFICES ASSUME NEW s \in Threads
               PROVE  /\ tick'[s].lease # NoLease => tick'[s].lease[1] = WorkerId(s)
                      /\ tick'[s].pc = "claim" => tick'[s].lease # NoLease
    BY DEF LeaseNames
  <2>1. CASE s = t BY <1>1, <2>1 DEF LeaseColumns, Seeking
  <2>2. CASE s # t BY <2>2 DEF LeaseInv, LeaseNames
  <2> QED BY <2>1, <2>2
<1>3. ASSUME NEW s \in Slots, NEW q \in Requests, row'[q].worker = s
      PROVE  /\ tick'[s].pc \notin Seeking
             /\ tick'[s].lease # NoLease /\ tick'[s].pc # "claim" =>
                  tick'[s].req = q /\ tick'[s].lease = row'[q].lease
  <2>1. CASE s = t BY <1>1, <1>3, <2>1, WorkerIds DEF SlotHoldsOne
  <2>2. CASE s # t BY <1>1, <1>3, <2>2, OtherSlots
  <2> QED BY <2>1, <2>2
<1>4. SlotFree' /\ SlotOwner' BY <1>3 DEF SlotFree, SlotOwner
<1> QED BY <1>1, <1>2, <1>4, LeaseParts

(***************************************************************************)
(* Action by action.                                                        *)
(***************************************************************************)

\* What a worker reads before it works: quiet, or a lease read back or drawn.
LEMMA LeaseReads ==
    ASSUME TypeInv, LeaseInv, NEW t \in Threads,
           StepRun(t) \/ ActiveRunRequest(t) \/ FindCancelled(t) \/ SelectQueued(t)
    PROVE  LeaseInv'
<1>1. TypeOK /\ ThreadOK(t) /\ tick[t] \in Tick BY DEF TypeInv, TypeOK
<1>2. Recover BY DEF StepRun, ActiveRunRequest, FindCancelled, SelectQueued
<1>3. RowsChanged /\ row' = Recovered BY <1>1, <1>2, RecoverRows
<1>4. CASE StepRun(t)
  <2>1. PICK p \in {"idle", "done"} : tick' = [tick EXCEPT ![t] = Resting(p)]
    BY <1>4 DEF StepRun
  <2>2. tick'[t].lease = NoLease /\ tick'[t].pc \notin Seeking
    BY <1>1, <2>1 DEF TypeOK, Resting, Seeking
  <2>3. \A s \in Threads \ {t} : tick'[s] = tick[s] BY <1>1, <2>1 DEF TypeOK
  <2>4. ThreadQuiet(t) BY <2>2 DEF ThreadQuiet
  <2> QED BY <1>1, <1>3, <2>3, <2>4, QuietMove, QuietKeepsLeases
<1>5. ASSUME NEW p \in {"find_cancelled", "select"}, Goto(t, p), tick[t].lease = NoLease,
             t \in Slots => \A r \in Requests : row'[r].worker # t
      PROVE  LeaseInv'
  <2>1. p \in ThreadPc BY DEF ThreadPc
  <2>2. tick'[t] = [tick[t] EXCEPT !.pc = p] /\ \A s \in Threads \ {t} : tick'[s] = tick[s]
    BY <1>1, <1>5, <2>1, GotoTypes
  <2>3. tick'[t].pc # "claim" /\ tick'[t].lease = NoLease BY <1>1, <1>5, <2>2 DEF Tick
  <2> QED BY <1>1, <1>3, <1>5, <2>2, <2>3, LeaseSought
<1>6. /\ LeaseColumns'
      /\ \A s \in Slots, r \in Requests : row'[r].worker = s => row[r].worker = s
  BY <1>1, <1>3, QuietRows DEF LeaseInv
<1>7. CASE ActiveRunRequest(t)
  <2>1. tick[t].pc = "idle" /\ tick[t].lease = NoLease
    BY <1>1, <1>7 DEF ActiveRunRequest, ThreadOK
  <2>2. CASE /\ ~\E r \in Requests : /\ Recovered[r].status \in ActiveStatus
                                     /\ Recovered[r].worker = WorkerId(t)
             /\ \E p \in {"find_cancelled", "select"} : Goto(t, p)
    <3>1. t \in Slots => \A r \in Requests : row'[r].worker # t
      BY <1>3, <1>6, <2>2, WorkerIds DEF LeaseColumns
    <3> QED BY <1>5, <2>1, <2>2, <3>1
  <2>3. CASE \E r \in Requests :
               /\ Recovered[r].status \in ActiveStatus /\ Recovered[r].worker = WorkerId(t)
               /\ tick' = [tick EXCEPT
                     ![t].pc    = IF Recovered[r].status = "leased" THEN "start" ELSE "heartbeat",
                     ![t].req   = r,
                     ![t].lease = Recovered[r].lease]
    <3>1. PICK r \in Requests :
               /\ Recovered[r].status \in ActiveStatus /\ Recovered[r].worker = WorkerId(t)
               /\ tick' = [tick EXCEPT
                     ![t].pc    = IF Recovered[r].status = "leased" THEN "start" ELSE "heartbeat",
                     ![t].req   = r,
                     ![t].lease = Recovered[r].lease]
      BY <2>3
    <3>2. /\ \A s \in Threads \ {t} : tick'[s] = tick[s]
          /\ tick'[t].pc \notin Seeking /\ tick'[t].req = r /\ tick'[t].lease = row'[r].lease
      BY <1>1, <1>3, <3>1 DEF TypeOK, Tick, Seeking
    <3> QED BY <1>1, <1>3, <3>1, <3>2, LeaseReadBack
  <2> QED BY <1>7, <2>2, <2>3 DEF ActiveRunRequest
<1>8. t \in Slots /\ tick[t].pc \in Seeking => \A r \in Requests : row'[r].worker # t
  BY <1>6 DEF LeaseInv, SlotFree
<1>9. CASE FindCancelled(t)
  <2>1. tick[t].pc = "find_cancelled" /\ tick[t].lease = NoLease
    BY <1>1, <1>9 DEF FindCancelled, ThreadOK
  <2>2. CASE Goto(t, "select") BY <1>5, <1>8, <2>1, <2>2 DEF Seeking
  <2>3. CASE \E r \in Requests : tick' = [tick EXCEPT ![t].pc = "load", ![t].req = r]
    <3>1. /\ \A s \in Threads \ {t} : tick'[s] = tick[s]
          /\ tick'[t].pc \notin Seeking /\ tick'[t].lease = NoLease
      BY <1>1, <2>1, <2>3 DEF TypeOK, Tick, Seeking
    <3>2. ThreadQuiet(t) BY <3>1 DEF ThreadQuiet
    <3> QED BY <1>1, <1>3, <3>1, <3>2, QuietMove, QuietKeepsLeases
  <2> QED BY <1>9, <2>2, <2>3 DEF FindCancelled
<1>10. CASE SelectQueued(t)
  <2>1. CASE EndTick(t)
    BY <1>1, <1>3, <2>1, QuietEndTick, QuietKeepsLeases
  <2>2. CASE \E r \in Requests, m \in Millis :
               tick' = [tick EXCEPT ![t].pc = "claim", ![t].req = r,
                                    ![t].lease = <<WorkerId(t), m>>]
    <3>1. PICK r \in Requests, m \in Millis :
            tick' = [tick EXCEPT ![t].pc = "claim", ![t].req = r,
                                 ![t].lease = <<WorkerId(t), m>>]
      BY <2>2
    <3>2. /\ \A s \in Threads \ {t} : tick'[s] = tick[s]
          /\ tick'[t].lease = <<WorkerId(t), m>>
      BY <1>1, <3>1 DEF TypeOK, Tick
    <3>3. tick[t].pc = "select" BY <1>10 DEF SelectQueued
    <3> QED BY <1>1, <1>3, <1>8, <3>2, <3>3, LeaseSought DEF Seeking
  <2> QED BY <1>10, <2>1, <2>2 DEF SelectQueued, Claimable
<1> QED BY <1>4, <1>7, <1>9, <1>10

LEMMA LeaseClaim ==
    ASSUME TypeInv, LeaseInv, NEW t \in Threads, ClaimQueued(t)
    PROVE  LeaseInv'
<1> DEFINE r == tick[t].req
<1>1. TypeOK /\ ThreadOK(t) /\ tick[t] \in Tick BY DEF TypeInv, TypeOK
<1>2. tick[t].pc = "claim" /\ r \in Requests /\ row[r] \in Row
  BY <1>1 DEF ClaimQueued, ThreadOK, TypeOK
<1>3. row' = [row EXCEPT ![r] = Claim(row[r], tick[t].lease, WorkerId(t))]
  BY DEF ClaimQueued, SetRow
<1>4. CASE row[r].status = "queued"
  <2>1. GotoRecord(t, Rest(t).pc) /\ Rest(t).pc \in ThreadPc
    BY <1>4, RestingTick DEF ClaimQueued, ThreadPc
  <2>2. /\ \A s \in Threads \ {t} : tick'[s] = tick[s]
        /\ tick'[t] = [tick[t] EXCEPT !.pc = "record", !.then = Rest(t).pc]
    BY <1>1, <2>1, GotoRecordTypes
  <2>3. tick'[t].pc = "record" /\ tick'[t].lease = tick[t].lease /\ tick'[t].req = r
    BY <1>1, <2>2 DEF Tick
  <2> QED BY <1>1, <1>2, <1>3, <1>4, <2>2, <2>3, LeaseClaimed
<1>5. CASE row[r].status # "queued"
  BY <1>5, <1>1, <1>2, <1>3, NoChange, QuietEndTick, QuietKeepsLeases DEF ClaimQueued, TypeOK,
     Claim, RowsChanged
<1> QED BY <1>4, <1>5

\* A working step keeps the thread's request and lease, or ends the tick.
LEMMA WorkingThread ==
    ASSUME TypeInv, NEW t \in Threads,
           \/ RecordResourceLeases(t) \/ StartRunRequest(t) \/ StartCursor(t) \/ StartSave(t) \/ Heartbeat(t)
           \/ LoadCursor(t) \/ CheckCancelled(t) \/ Abort(t) \/ Advance(t) \/ AdvanceFails(t)
           \/ AdvanceErrs(t) \/ RecordRunResult(t) \/ CompleteRunRequest(t) \/ FinishRunRequest(t)
    PROVE  /\ \A s \in Threads \ {t} : tick'[s] = tick[s]
           /\ ThreadQuiet(t)
<1>1. TypeOK /\ ThreadOK(t) /\ tick[t] \in Tick /\ tick[t].pc \notin Seeking
  BY DEF TypeInv, TypeOK, RecordResourceLeases, StartRunRequest, StartCursor, StartSave, Heartbeat, LoadCursor,
         CheckCancelled, Abort, Advance, AdvanceFails, AdvanceErrs, RecordRunResult,
         CompleteRunRequest, FinishRunRequest, Seeking
<1>2. CASE EndTick(t)
  BY <1>1, <1>2, EndTickTypes, RestingTick DEF ThreadQuiet, Seeking
<1>3. CASE \E p \in ThreadPc \ Seeking : Goto(t, p)
  <2>1. PICK p \in ThreadPc \ Seeking : Goto(t, p) BY <1>3
  <2>2. tick'[t] = [tick[t] EXCEPT !.pc = p] /\ \A s \in Threads \ {t} : tick'[s] = tick[s]
    BY <1>1, <2>1, GotoTypes
  <2> QED BY <1>1, <2>2 DEF ThreadQuiet, Tick, Seeking
<1>4. CASE \E p \in ThreadPc : GotoRecord(t, p)
  <2>1. PICK p \in ThreadPc : GotoRecord(t, p) BY <1>4
  <2>2. /\ tick'[t] = [tick[t] EXCEPT !.pc = "record", !.then = p]
        /\ \A s \in Threads \ {t} : tick'[s] = tick[s]
    BY <1>1, <2>1, GotoRecordTypes
  <2> QED BY <1>1, <2>2 DEF ThreadQuiet, Tick, Seeking
<1>5. CASE \E o \in TerminalPhase : Settle(t, o)
  <2>1. PICK o \in TerminalPhase : Settle(t, o) BY <1>5
  <2>2. CASE tick' = [tick EXCEPT ![t].pc  = IF o = "completed" THEN "result" ELSE "finish",
                                  ![t].cur = NoCursor, ![t].out = o]
    BY <1>1, <2>2 DEF TypeOK, Tick, ThreadQuiet, Seeking
  <2> QED BY <1>2, <2>1, <2>2 DEF Settle
<1>6. CASE RecordResourceLeases(t)
  <2>1. CASE /\ tick[t].then # Rest(t).pc
             /\ tick' = [tick EXCEPT ![t].pc = tick[t].then, ![t].then = "idle"]
    BY <1>1, <1>6, <2>1 DEF ThreadOK, RecordResourceLeases, TypeOK, Tick, ThreadQuiet, Seeking
  <2> QED BY <1>2, <1>6, <2>1 DEF RecordResourceLeases
<1>7. CASE StartRunRequest(t) \/ StartSave(t) \/ Heartbeat(t) \/ RecordRunResult(t)
           \/ CompleteRunRequest(t) \/ FinishRunRequest(t)
  BY <1>2, <1>3, <1>4, <1>7 DEF ThreadPc, Seeking, StartRunRequest, StartSave, Heartbeat, RecordRunResult,
     CompleteRunRequest, FinishRunRequest
<1>8. CASE StartCursor(t) \/ LoadCursor(t)
  <2> DEFINE k == LoadOrNew(cursor[tick[t].req])
  <2>1. CASE \E p \in {"start_save", "check"} : tick' = [tick EXCEPT ![t].pc = p, ![t].cur = k]
    BY <1>1, <2>1 DEF TypeOK, Tick, ThreadQuiet, Seeking
  <2>2. CASE tick' = [tick EXCEPT ![t].pc = IF k.phase = "completed" THEN "result" ELSE "finish",
                                  ![t].out = k.phase]
    BY <1>1, <2>2 DEF TypeOK, Tick, ThreadQuiet, Seeking
  <2> QED BY <1>2, <1>8, <2>1, <2>2 DEF StartCursor, LoadCursor
<1>9. CASE CheckCancelled(t)
  <2>1. CASE \E o \in {"cancelled", "failed"} : tick' = [tick EXCEPT ![t].pc = "abort", ![t].out = o]
    BY <1>1, <2>1 DEF TypeOK, Tick, ThreadQuiet, Seeking
  <2>2. Rest(t).pc \in ThreadPc /\ "work" \in ThreadPc \ Seeking BY RestingTick DEF ThreadPc, Seeking
  <2>3. CASE Goto(t, "work") BY <1>3, <2>2, <2>3
  <2>4. CASE GotoRecord(t, IF tick[t].cur.phase = "paused" THEN Rest(t).pc ELSE "work")
    BY <1>4, <2>2, <2>4
  <2> QED BY <1>2, <1>9, <2>1, <2>3, <2>4 DEF CheckCancelled
<1>10. CASE Abort(t) \/ Advance(t) \/ AdvanceFails(t) \/ AdvanceErrs(t)
  BY <1>1, <1>2, <1>5, <1>10 DEF Abort, ThreadOK, Tick, TerminalPhase, Advance, AdvanceFails,
     AdvanceErrs
<1> QED BY <1>6, <1>7, <1>8, <1>9, <1>10

\* A working step changes rows legally.
LEMMA WorkingRows ==
    ASSUME TypeInv, NEW t \in Threads,
           \/ RecordResourceLeases(t) \/ StartRunRequest(t) \/ StartCursor(t) \/ StartSave(t) \/ Heartbeat(t)
           \/ LoadCursor(t) \/ CheckCancelled(t) \/ Abort(t) \/ Advance(t) \/ AdvanceFails(t)
           \/ AdvanceErrs(t) \/ RecordRunResult(t) \/ CompleteRunRequest(t) \/ FinishRunRequest(t)
    PROVE  RowsChanged
<1> DEFINE r == tick[t].req
<1>1. TypeOK /\ ThreadOK(t) /\ tick[t] \in Tick BY DEF TypeInv, TypeOK
<1>3. CASE row' = row
  BY <1>1, <1>3, NoChange DEF TypeOK, RowsChanged
<1>4. CASE StartRunRequest(t) \/ RecordRunResult(t) \/ CompleteRunRequest(t) \/ FinishRunRequest(t)
  BY <1>1, <1>4, LeaseChange, <1>3, UpdateRow DEF StartRunRequest, RecordRunResult,
     CompleteRunRequest, FinishRunRequest, ThreadOK, TypeOK, Tick
<1> QED BY <1>3, <1>4 DEF RecordResourceLeases, StartCursor, StartSave, Heartbeat, LoadCursor,
         CheckCancelled, Abort, Advance, AdvanceFails, AdvanceErrs

\* A call changes rows legally and moves no thread.
LEMMA CallRows ==
    ASSUME TypeInv, NEW c \in Calls, CallStep(c)
    PROVE  RowsChanged /\ tick' = tick
<1>1. TypeOK /\ UNCHANGED Bookkeeping BY DEF TypeInv, CallStep, Bookkeeping
<1>2. tick' = tick
  BY DEF CallStep, CreateLookup, CreateInsert, ControlRead, CancelRun, StopResult, StopRow,
         PauseLoad, PauseSave, PauseRow, ResumeLoad, ResumeSave, ResumeRow, DeleteStorage, DeleteRow
<1>3. CASE CreateLookup(c) \/ CreateInsert(c) BY <1>1, <1>2, <1>3, TypeCreate
<1>4. CASE ControlRead(c) BY <1>1, <1>2, <1>4, RecoverRows DEF ControlRead
<1>5. CASE CancelRun(c) \/ StopRow(c) \/ PauseRow(c) \/ ResumeRow(c) \/ DeleteRow(c)
  BY <1>1, <1>2, <1>5, TypeLastStatement
<1>6. CASE StopResult(c) BY <1>1, <1>2, <1>6, TypeStopResult
<1>7. CASE PauseLoad(c) \/ PauseSave(c) \/ ResumeLoad(c) \/ ResumeSave(c) \/ DeleteStorage(c)
  BY <1>7, <1>1, <1>2, SameRows DEF PauseLoad, PauseSave, ResumeLoad, ResumeSave, DeleteStorage
<1> QED BY <1>3, <1>4, <1>5, <1>6, <1>7 DEF CallStep

LEMMA LeaseInit == Init => LeaseInv
<1> SUFFICES ASSUME Init PROVE LeaseInv OBVIOUS
<1>1. ASSUME NEW r \in Requests
      PROVE  row[r].lease = NoLease /\ row[r].worker = NoWorker /\ row[r].status \notin ActiveStatus
  BY DEF Init, SubmitRunConfig, AbsentRow, ActiveStatus
<1>2. ASSUME NEW t \in Threads PROVE tick[t].lease = NoLease /\ tick[t].pc \notin Seeking
  BY DEF Init, Resting, Seeking
<1> QED BY <1>1, <1>2, LeaseIds, WorkerIds DEF LeaseInv, LeaseColumns, LeaseNames, SlotFree,
       SlotHoldsOne, LeaseOwner, Seeking

LEMMA LeaseNext == TypeInv /\ LeaseInv /\ [Next]_vars => LeaseInv'
<1> SUFFICES ASSUME TypeInv, LeaseInv, [Next]_vars PROVE LeaseInv' OBVIOUS
<1>1. TypeOK BY DEF TypeInv
<1>2. ASSUME NEW t \in Threads, ThreadStep(t) PROVE LeaseInv'
  <2>1. CASE StepRun(t) \/ ActiveRunRequest(t) \/ FindCancelled(t) \/ SelectQueued(t)
    BY <2>1, LeaseReads
  <2>2. CASE ClaimQueued(t) BY <2>2, LeaseClaim
  <2>3. CASE \/ RecordResourceLeases(t) \/ StartRunRequest(t) \/ StartCursor(t) \/ StartSave(t) \/ Heartbeat(t)
             \/ LoadCursor(t) \/ CheckCancelled(t) \/ Abort(t) \/ Advance(t) \/ AdvanceFails(t)
             \/ AdvanceErrs(t) \/ RecordRunResult(t) \/ CompleteRunRequest(t) \/ FinishRunRequest(t)
    BY <2>3, WorkingThread, WorkingRows, <1>1, QuietMove, QuietKeepsLeases
  <2> QED BY <1>2, <2>1, <2>2, <2>3 DEF ThreadStep
<1>3. ASSUME NEW c \in Calls, CallStep(c) PROVE LeaseInv'
  BY <1>3, CallRows, <1>1, QuietKeepsLeases DEF QuietStep, ThreadQuiet
<1>4. ASSUME NEW r \in Requests, Expire(r) PROVE LeaseInv'
  BY <1>4, TypeExpire, <1>1, QuietKeepsLeases DEF QuietStep, ThreadQuiet, Expire
<1>5. CASE ProcessEnds
  <2>1. RowsChanged BY <1>1, <1>5, SameRows DEF ProcessEnds
  <2>2. ASSUME NEW t \in Threads PROVE ThreadQuiet(t)
    BY <1>5, RestingTick DEF ProcessEnds, ThreadQuiet, Seeking
  <2>3. QuietStep BY <1>5, <2>1, <2>2 DEF QuietStep, ProcessEnds
  <2> QED BY <1>1, <2>3, QuietKeepsLeases
<1>6. CASE RunGepaService
  BY <1>6, TypeRunGepaService, <1>1, QuietKeepsLeases DEF QuietStep, ThreadQuiet, RunGepaService
<1>7. CASE UNCHANGED vars
  BY <1>7 DEF vars, LeaseInv, LeaseColumns, LeaseNames, SlotFree, SlotHoldsOne, LeaseOwner
<1> QED BY <1>2, <1>3, <1>4, <1>5, <1>6, <1>7 DEF Next

\* No service worker ever holds two requests, whatever claims, expiries,
\* control calls, process ends and restarts interleave and however often the
\* clock of the lease ids repeats itself.
THEOREM SlotsHoldOneRequest == Spec => []SlotHoldsOne
<1>1. LeaseInv => SlotHoldsOne BY DEF LeaseInv
<1>2. TypeInv /\ LeaseInv /\ [Next]_vars => LeaseInv' BY LeaseNext
<1> QED BY <1>1, <1>2, LeaseInit, TypeInit, TypeNext, PTL DEF Spec

\* Nobody works under another worker's current lease, and a service worker
\* inside a tick works on the one request its worker id holds, under the lease
\* it holds it by: a worker whose lease was recovered or reassigned never
\* passes the guard of a "_for_lease" statement again.
THEOREM LeaseHasOneOwner == Spec => []LeaseOwner
<1>1. LeaseInv => LeaseOwner BY DEF LeaseInv
<1>2. TypeInv /\ LeaseInv /\ [Next]_vars => LeaseInv' BY LeaseNext
<1> QED BY <1>1, <1>2, LeaseInit, TypeInit, TypeNext, PTL DEF Spec

(***************************************************************************)
(* One worker at a time.                                                    *)
(*                                                                          *)
(* While no deadline passes and nobody pauses, a request never goes back to *)
(* the queue: it is leased once, to one worker, and whoever holds a lease   *)
(* for it is that worker.                                                   *)
(***************************************************************************)

\* Between ticks a thread has no request of its own.
Between == {"fresh", "idle", "find_cancelled", "select", "done"}

\* Thread t works on request r under a lease.
Holds(t, r) == tick[t].lease # NoLease /\ tick[t].pc # "claim" /\ tick[t].req = r

Active(r) == row[r].status \in ActiveStatus

NeverRequeued ==
    /\ \A r \in Requests : ~row[r].expired /\ row[r].status # "paused"
    /\ \A c \in Calls : call[c].pc \notin {"pause_load", "pause_save", "pause_row",
                                           "resume_load", "resume_save", "resume_row"}

LeasedOnce ==
    /\ \A t \in Threads, r \in Requests : Holds(t, r) =>
          /\ row[r].status # "queued"
          /\ Active(r) => row[r].worker = WorkerId(t) /\ row[r].lease = tick[t].lease
    /\ \A s, t \in Threads, r \in Requests : Holds(s, r) /\ Holds(t, r) => WorkerId(s) = WorkerId(t)

OnceInv == NeverRequeued /\ LeasedOnce

\* No deadline passes and nobody pauses.
Calm == expiries = 0 /\ "pause" \notin Ops

\* What a statement other than the claim does to a row meanwhile.
CalmChange(x, y) ==
    /\ ~y.expired /\ y.status # "paused"
    /\ y.status = "queued" => x.status \in {"queued", "absent"}
    /\ y.status \in ActiveStatus =>
         x.status \in ActiveStatus /\ y.worker = x.worker /\ y.lease = x.lease

CalmRows == \A r \in Requests : CalmChange(row[r], row'[r])

\* Every statement but pause, resume and claim is calm on an unexpired row
\* that is not paused, and recovery finds nothing to recover.
LEMMA CalmStatements ==
    ASSUME NEW x \in Row, NEW l \in Lease, ~x.expired, x.status # "paused"
    PROVE  /\ RecoverExpired(x) = x
           /\ CalmChange(x, x)
           /\ CalmChange(x, FailOrphaned(x))
           /\ RecoverExpired(FailOrphaned(x)) = FailOrphaned(x)
           /\ CalmChange(x, MarkStartedForLease(x, l))
           /\ CalmChange(x, RecordResultForLease(x, l))
           /\ CalmChange(x, MarkCompletedForLease(x, l))
           /\ CalmChange(x, MarkFailedForLease(x, l))
           /\ CalmChange(x, MarkCancelledForLease(x, l))
           /\ CalmChange(x, MarkCompleted(x))
           /\ CalmChange(x, MarkCancelled(x))
           /\ CalmChange(x, RecordResult(x))
           /\ CalmChange(x, DeleteRunRequest(x))
           /\ x.status = "absent" => CalmChange(x, SubmitRunConfig(TRUE))
<1>1. CalmChange(x, x) /\ RecoverExpired(x) = x BY DEF CalmChange, RecoverExpired
<1>2. ASSUME NEW s \in {"completed", "failed", "cancelled"}
      PROVE  CalmChange(x, Released(x, s)) /\ RecoverExpired(Released(x, s)) = Released(x, s)
  BY DEF Released, Row, CalmChange, RecoverExpired, ActiveStatus
<1>3. /\ CalmChange(x, FailOrphaned(x)) /\ RecoverExpired(FailOrphaned(x)) = FailOrphaned(x)
      /\ CalmChange(x, MarkCompletedForLease(x, l)) /\ CalmChange(x, MarkFailedForLease(x, l))
      /\ CalmChange(x, MarkCancelledForLease(x, l))
      /\ CalmChange(x, MarkCompleted(x)) /\ CalmChange(x, MarkCancelled(x))
  BY <1>1, <1>2 DEF FailOrphaned, MarkFailed, MarkCompletedForLease, MarkFailedForLease,
                    MarkCancelledForLease, MarkCompleted, MarkCancelled
<1>4. CalmChange(x, MarkStartedForLease(x, l))
  BY <1>1 DEF MarkStartedForLease, CanStart, CalmChange, Row, ActiveStatus
<1>5. CalmChange(x, RecordResultForLease(x, l)) /\ CalmChange(x, RecordResult(x))
  BY <1>1 DEF RecordResultForLease, RecordResult, CalmChange, Row
<1>6. CalmChange(x, DeleteRunRequest(x)) /\ (x.status = "absent" => CalmChange(x, SubmitRunConfig(TRUE)))
  BY DEF DeleteRunRequest, SubmitRunConfig, AbsentRow, CalmChange, ActiveStatus
<1> QED BY <1>1, <1>3, <1>4, <1>5, <1>6

LEMMA CalmRecover ==
    ASSUME TypeOK, NeverRequeued, Recover
    PROVE  CalmRows /\ row' = row /\ Recovered = row
<1>1. ASSUME NEW r \in Requests PROVE Recovered[r] = row[r] /\ CalmChange(row[r], row[r])
  BY DEF TypeOK, NeverRequeued, RecoverExpired, CalmChange, Recovered
<1>2. Recovered = row BY <1>1 DEF TypeOK, Recovered
<1> QED BY <1>1, <1>2 DEF Recover, CalmRows

LEMMA CalmUpdate ==
    ASSUME TypeOK, NeverRequeued, NEW r \in Requests, NEW x, CalmChange(row[r], x),
           SetRow(r, x) \/ SettleRow(r, x)
    PROVE  CalmRows
BY DEF SetRow, SettleRow, TypeOK, CalmRows, CalmChange, NeverRequeued

LEMMA CalmSame ==
    ASSUME NeverRequeued, row' = row
    PROVE  CalmRows
BY DEF CalmRows, CalmChange, NeverRequeued

\* The steps of a worker.
LEMMA CalmThread ==
    ASSUME TypeInv, NeverRequeued, NEW t \in Threads, ThreadStep(t), ~ClaimQueued(t)
    PROVE  CalmRows
<1> DEFINE r == tick[t].req
<1>1. TypeOK /\ ThreadOK(t) /\ tick[t] \in Tick BY DEF TypeInv, TypeOK
<1>2. CASE StepRun(t) \/ ActiveRunRequest(t) \/ FindCancelled(t) \/ SelectQueued(t)
  BY <1>2, <1>1, CalmRecover DEF StepRun, ActiveRunRequest, FindCancelled, SelectQueued
<1>3. CASE StartRunRequest(t) \/ RecordRunResult(t) \/ CompleteRunRequest(t) \/ FinishRunRequest(t)
  <2>1. /\ r \in Requests /\ row[r] \in Row /\ tick[t].lease \in Lease
        /\ ~row[r].expired /\ row[r].status # "paused"
    BY <1>1, <1>3 DEF StartRunRequest, RecordRunResult, CompleteRunRequest, FinishRunRequest,
                      ThreadOK, TypeOK, Tick, NeverRequeued
  <2>2. row' = row \/ \E x : CalmChange(row[r], x) /\ (SetRow(r, x) \/ SettleRow(r, x))
    BY <1>3, <2>1, CalmStatements
       DEF StartRunRequest, RecordRunResult, CompleteRunRequest, FinishRunRequest
  <2> QED BY <1>1, <2>1, <2>2, CalmUpdate, CalmSame
<1>4. CASE row' = row BY <1>4, CalmSame
<1> QED BY <1>2, <1>3, <1>4 DEF ThreadStep, RecordResourceLeases, StartCursor, StartSave, Heartbeat,
       LoadCursor, CheckCancelled, Abort, Advance, AdvanceFails, AdvanceErrs

PauseOrResume == {"pause_load", "pause_save", "pause_row", "resume_load", "resume_save", "resume_row"}

LEMMA CalmCall ==
    ASSUME TypeInv, NeverRequeued, Calm, NEW c \in Calls, CallStep(c)
    PROVE  CalmRows /\ \A d \in Calls : call'[d].pc \notin PauseOrResume
<1> DEFINE r == call[c].req
<1>1. TypeOK /\ CallOK(c) BY DEF TypeInv
<1>2. call[c].pc \notin PauseOrResume BY DEF NeverRequeued, PauseOrResume
<1>3. CalmRows
  <2>1. CASE CreateLookup(c) \/ ControlRead(c)
    BY <1>1, <2>1, CalmRecover DEF CreateLookup, ControlRead
  <2>2. CASE CreateInsert(c)
    <3>1. PICK q \in Requests : row[q].status = "absent" /\ SetRow(q, SubmitRunConfig(TRUE))
      BY <2>2 DEF CreateInsert
    <3>2. CalmChange(row[q], SubmitRunConfig(TRUE))
      BY <3>1 DEF SubmitRunConfig, AbsentRow, CalmChange, ActiveStatus
    <3> QED BY <1>1, <3>1, <3>2, CalmUpdate
  <2>3. CASE StopResult(c) \/ CancelRun(c) \/ StopRow(c) \/ DeleteRow(c)
    <3>1. /\ r \in Requests /\ row[r] \in Row /\ NoLease \in Lease
          /\ ~row[r].expired /\ row[r].status # "paused"
      BY <1>1, <2>3, LeaseIds DEF CallOK, TypeOK, StopResult, CancelRun, StopRow, DeleteRow, NeverRequeued
    <3>2. \E x : CalmChange(row[r], x) /\ (SetRow(r, x) \/ SettleRow(r, x))
      BY <2>3, <3>1, CalmStatements DEF StopResult, CancelRun, StopRow, DeleteRow
    <3> QED BY <1>1, <3>1, <3>2, CalmUpdate
  <2>4. CASE row' = row BY <2>4, CalmSame
  <2> QED BY <1>2, <2>1, <2>2, <2>3, <2>4
         DEF CallStep, PauseLoad, PauseSave, PauseRow, ResumeLoad, ResumeSave, ResumeRow,
             DeleteStorage, PauseOrResume
<1>4. ASSUME NEW d \in Calls PROVE call'[d].pc \notin PauseOrResume
  <2>1. call[d].pc \notin PauseOrResume BY DEF NeverRequeued, PauseOrResume
  <2>2. CASE \E p \in CallPc \ PauseOrResume : GotoCall(c, p)
    BY <1>1, <2>1, <2>2 DEF GotoCall, TypeOK, Call
  <2>3. CASE \E p \in CallPc \ PauseOrResume : \E q \in Requests \cup {NoRequest} :
               call' = [call EXCEPT ![c] = CallAt(p, q)]
    BY <1>1, <2>1, <2>3 DEF CallAt, TypeOK
  <2>4. CASE ControlRead(c)
    <3>1. Recovered = row BY <1>1, <2>4, CalmRecover DEF ControlRead
    <3>2. PICK op \in Ops \ {"create"}, q \in Requests :
            LET p == FirstStep(op, q, row[q])
            IN  call' = [call EXCEPT ![c] = IF p = "done" THEN CallAt("done", NoRequest)
                                                         ELSE CallAt(p, q)]
      BY <2>4, <3>1 DEF ControlRead
    <3>3. op \in {"cancel", "stop", "resume", "delete"} BY ServiceAssumption DEF Calm
    <3>4. ~CanResume(row[q]) BY DEF NeverRequeued, CanResume
    <3>5. FirstStep(op, q, row[q]) \in {"done", "cancel", "stop_result", "delete_storage"}
      <4>1. CASE op = "cancel" BY <4>1 DEF FirstStep
      <4>2. CASE op = "stop" BY <4>2 DEF FirstStep
      <4>3. CASE op = "resume" BY <4>3, <3>4 DEF FirstStep
      <4>4. CASE op = "delete" BY <4>4 DEF FirstStep
      <4> QED BY <3>3, <4>1, <4>2, <4>3, <4>4
    <3>6. {"done", "cancel", "stop_result", "delete_storage"} \subseteq CallPc \ PauseOrResume
      BY DEF CallPc, PauseOrResume
    <3> QED BY <2>3, <3>2, <3>5, <3>6
  <2>5. {"insert", "done", "stop_row", "delete_row"} \subseteq CallPc \ PauseOrResume
    BY DEF CallPc, PauseOrResume
  <2>6. EndCall(c) => call'[d].pc \notin PauseOrResume BY <2>3, <2>5 DEF EndCall
  <2> QED BY <1>2, <2>2, <2>4, <2>5, <2>6
         DEF CallStep, CreateLookup, CreateInsert, CancelRun, StopResult, StopRow,
             PauseLoad, PauseSave, PauseRow, ResumeLoad, ResumeSave, ResumeRow,
             DeleteStorage, DeleteRow, PauseOrResume
<1> QED BY <1>3, <1>4

LEMMA CalmRest ==
    ASSUME TypeInv, NeverRequeued, ProcessEnds \/ RunGepaService
    PROVE  CalmRows /\ \A d \in Calls : call'[d].pc \notin PauseOrResume
<1>1. TypeOK BY DEF TypeInv
<1>2. CASE ProcessEnds
  BY <1>2, CalmSame DEF ProcessEnds, NeverRequeued, PauseOrResume, CallAt
<1>3. CASE RunGepaService
  <2>1. ASSUME NEW r \in Requests PROVE CalmChange(row[r], row'[r])
    <3>1. row[r] \in Row /\ NoLease \in Lease /\ ~row[r].expired /\ row[r].status # "paused"
      BY <1>1, LeaseIds DEF TypeOK, NeverRequeued
    <3>2. /\ RecoverExpired(row[r]) = row[r] /\ CalmChange(row[r], row[r])
          /\ CalmChange(row[r], FailOrphaned(row[r]))
          /\ RecoverExpired(FailOrphaned(row[r])) = FailOrphaned(row[r])
      BY <3>1, CalmStatements
    <3>3. row'[r] = RecoverExpired(row[r]) \/ row'[r] = RecoverExpired(FailOrphaned(row[r]))
      BY <1>3 DEF RunGepaService
    <3> QED BY <3>2, <3>3
  <2> QED BY <1>3, <2>1 DEF CalmRows, RunGepaService, NeverRequeued, PauseOrResume
<1> QED BY <1>2, <1>3

\* A thread that works under a lease has a row to work on.
LEMMA HoldsExisting ==
    ASSUME TypeInv, NEW t \in Threads, NEW r \in Requests, Holds(t, r)
    PROVE  row[r].status # "absent" /\ tick[t].pc \notin Between
BY DEF TypeInv, ThreadOK, Holds, Between

\* A step in which no lease is handed out or read back.
LEMMA CalmKeeps ==
    ASSUME TypeInv, LeasedOnce, CalmRows, \A t \in Threads : ThreadQuiet(t)
    PROVE  LeasedOnce'
<1>1. ASSUME NEW t \in Threads, NEW r \in Requests, Holds(t, r)'
      PROVE  Holds(t, r) /\ tick'[t].lease = tick[t].lease
  BY <1>1 DEF Holds, ThreadQuiet, Seeking
<1>2. ASSUME NEW t \in Threads, NEW r \in Requests, Holds(t, r)'
      PROVE  /\ row'[r].status # "queued"
             /\ row'[r].status \in ActiveStatus =>
                  row'[r].worker = WorkerId(t) /\ row'[r].lease = tick'[t].lease
  BY <1>1, <1>2, HoldsExisting DEF CalmRows, CalmChange, LeasedOnce, Active
<1> QED BY <1>1, <1>2 DEF LeasedOnce, Active

\* A worker reads the lease of its own active request back.
LEMMA CalmReadBack ==
    ASSUME TypeInv, LeasedOnce, row' = row, NEW t \in Threads, NEW r \in Requests,
           \A s \in Threads \ {t} : tick'[s] = tick[s],
           tick'[t].req = r, tick'[t].lease = row[r].lease, row[r].worker = WorkerId(t),
           row[r].status \in ActiveStatus
    PROVE  LeasedOnce'
<1>1. ASSUME NEW s \in Threads, NEW q \in Requests, Holds(s, q)'
      PROVE  (s = t /\ q = r) \/ Holds(s, q)
  BY <1>1 DEF Holds
<1>2. ASSUME NEW s \in Threads, NEW q \in Requests, Holds(s, q)'
      PROVE  /\ row'[q].status # "queued"
             /\ row'[q].status \in ActiveStatus =>
                  row'[q].worker = WorkerId(s) /\ row'[q].lease = tick'[s].lease
  <2>1. CASE s = t BY <1>2, <2>1 DEF Holds, ActiveStatus
  <2>2. CASE s # t BY <1>1, <1>2, <2>2 DEF LeasedOnce, Active
  <2> QED BY <2>1, <2>2
<1>3. ASSUME NEW s \in Threads, Holds(s, r)' PROVE WorkerId(s) = WorkerId(t)
  BY <1>1, <1>3 DEF LeasedOnce, Active
<1>4. ASSUME NEW s \in Threads, NEW u \in Threads, NEW q \in Requests, Holds(s, q)', Holds(u, q)'
      PROVE  WorkerId(s) = WorkerId(u)
  <2>1. CASE q = r BY <1>3, <1>4, <2>1
  <2>2. CASE q # r BY <1>1, <1>4, <2>2 DEF LeasedOnce
  <2> QED BY <2>1, <2>2
<1> QED BY <1>2, <1>4 DEF LeasedOnce, Active

\* The claim hands the request to the first worker that gets one for it.
LEMMA CalmClaim ==
    ASSUME TypeInv, OnceInv, NEW t \in Threads, ClaimQueued(t)
    PROVE  OnceInv'
<1> DEFINE r == tick[t].req
<1>1. TypeOK /\ ThreadOK(t) /\ tick[t] \in Tick BY DEF TypeInv, TypeOK
<1>2. r \in Requests /\ row[r] \in Row /\ tick[t].pc = "claim" /\ call' = call
  BY <1>1 DEF ClaimQueued, ThreadOK, TypeOK
<1>3. row' = [row EXCEPT ![r] = Claim(row[r], tick[t].lease, WorkerId(t))]
  BY DEF ClaimQueued, SetRow
<1>4. CASE row[r].status = "queued"
  <2>1. GotoRecord(t, Rest(t).pc) /\ Rest(t).pc \in ThreadPc
    BY <1>4, RestingTick DEF ClaimQueued, ThreadPc
  <2>2. /\ \A s \in Threads \ {t} : tick'[s] = tick[s]
        /\ tick'[t] = [tick[t] EXCEPT !.pc = "record", !.then = Rest(t).pc]
    BY <1>1, <2>1, GotoRecordTypes
  <2>3. tick'[t].pc = "record" /\ tick'[t].lease = tick[t].lease /\ tick'[t].req = r
    BY <1>1, <2>2 DEF Tick
  <2>4. /\ row'[r].status = "leased" /\ row'[r].lease = tick[t].lease
        /\ row'[r].worker = WorkerId(t) /\ row'[r].expired = FALSE
        /\ \A q \in Requests \ {r} : row'[q] = row[q]
    BY <1>1, <1>2, <1>3, <1>4 DEF TypeOK, Row, Claim
  <2>5. NeverRequeued' BY <1>2, <2>4 DEF OnceInv, NeverRequeued
  <2>6. ASSUME NEW s \in Threads, NEW q \in Requests, Holds(s, q)'
        PROVE  (s = t /\ q = r) \/ (q # r /\ Holds(s, q))
    <3>1. CASE s = t BY <2>3, <2>6, <3>1 DEF Holds
    <3>2. CASE s # t
      BY <2>2, <2>6, <3>2, <1>4 DEF Holds, OnceInv, LeasedOnce
    <3> QED BY <3>1, <3>2
  <2>7. ASSUME NEW s \in Threads, NEW q \in Requests, Holds(s, q)'
        PROVE  /\ row'[q].status # "queued"
               /\ row'[q].status \in ActiveStatus =>
                    row'[q].worker = WorkerId(s) /\ row'[q].lease = tick'[s].lease
    <3>1. CASE s = t /\ q = r BY <2>3, <2>4, <3>1
    <3>2. CASE q # r /\ Holds(s, q)
      BY <1>2, <2>4, <3>2, <2>2 DEF Holds, OnceInv, LeasedOnce, Active
    <3> QED BY <2>6, <2>7, <3>1, <3>2
  <2>8. ASSUME NEW s \in Threads, NEW u \in Threads, NEW q \in Requests, Holds(s, q)', Holds(u, q)'
        PROVE  WorkerId(s) = WorkerId(u)
    BY <2>6, <2>8 DEF OnceInv, LeasedOnce
  <2> QED BY <2>5, <2>7, <2>8 DEF OnceInv, LeasedOnce, Active
<1>5. CASE row[r].status # "queued"
  <2>1. row' = row BY <1>1, <1>3, <1>5 DEF TypeOK, Claim
  <2>2. EndTick(t) BY <1>5 DEF ClaimQueued
  <2>3. tick'[t].lease = NoLease /\ tick'[t].pc \notin Seeking /\ \A s \in Threads \ {t} : tick'[s] = tick[s]
    BY <1>1, <2>2, EndTickTypes, RestingTick DEF Seeking
  <2>4. \A s \in Threads : ThreadQuiet(s) BY <2>3 DEF ThreadQuiet
  <2>5. CalmRows BY <2>1, CalmSame DEF OnceInv
  <2>6. LeasedOnce' BY <2>4, <2>5, CalmKeeps DEF OnceInv
  <2> QED BY <1>2, <2>1, <2>6 DEF OnceInv, NeverRequeued
<1> QED BY <1>4, <1>5

\* What a worker reads before it works.
LEMMA CalmReads ==
    ASSUME TypeInv, LeaseInv, OnceInv, NEW t \in Threads,
           StepRun(t) \/ ActiveRunRequest(t) \/ FindCancelled(t) \/ SelectQueued(t)
    PROVE  LeasedOnce'
<1>1. TypeOK /\ ThreadOK(t) /\ tick[t] \in Tick BY DEF TypeInv, TypeOK
<1>2. Recover BY DEF StepRun, ActiveRunRequest, FindCancelled, SelectQueued
<1>3. CalmRows /\ row' = row /\ Recovered = row BY <1>1, <1>2, CalmRecover DEF OnceInv
<1>4. tick[t].lease = NoLease
  BY <1>1 DEF StepRun, ActiveRunRequest, FindCancelled, SelectQueued, ThreadOK
<1>5. CASE /\ \A s \in Threads \ {t} : tick'[s] = tick[s]
           /\ tick'[t].lease = NoLease \/ tick'[t].pc = "claim"
  <2>1. ASSUME NEW s \in Threads, NEW r \in Requests, Holds(s, r)'
        PROVE  Holds(s, r) /\ tick'[s].lease = tick[s].lease
    BY <1>5, <2>1 DEF Holds
  <2> QED BY <1>3, <2>1 DEF OnceInv, LeasedOnce, Active
<1>6. CASE StepRun(t)
  <2>1. PICK p \in {"idle", "done"} : tick' = [tick EXCEPT ![t] = Resting(p)]
    BY <1>6 DEF StepRun
  <2> QED BY <1>1, <1>5, <2>1 DEF TypeOK, Resting
<1>7. CASE \E p \in {"find_cancelled", "select"} : Goto(t, p)
  <2>1. PICK p \in {"find_cancelled", "select"} : Goto(t, p) BY <1>7
  <2>2. p \in ThreadPc BY DEF ThreadPc
  <2>3. tick'[t] = [tick[t] EXCEPT !.pc = p] /\ \A s \in Threads \ {t} : tick'[s] = tick[s]
    BY <1>1, <2>1, <2>2, GotoTypes
  <2> QED BY <1>1, <1>4, <1>5, <2>3 DEF Tick
<1>8. CASE \E r \in Requests :
             /\ row[r].status \in ActiveStatus /\ row[r].worker = WorkerId(t)
             /\ tick' = [tick EXCEPT
                   ![t].pc    = IF row[r].status = "leased" THEN "start" ELSE "heartbeat",
                   ![t].req   = r,
                   ![t].lease = row[r].lease]
  <2>1. PICK r \in Requests :
             /\ row[r].status \in ActiveStatus /\ row[r].worker = WorkerId(t)
             /\ tick' = [tick EXCEPT
                   ![t].pc    = IF row[r].status = "leased" THEN "start" ELSE "heartbeat",
                   ![t].req   = r,
                   ![t].lease = row[r].lease]
    BY <1>8
  <2>2. /\ \A s \in Threads \ {t} : tick'[s] = tick[s]
        /\ tick'[t].req = r /\ tick'[t].lease = row[r].lease
    BY <1>1, <2>1 DEF TypeOK, Tick
  <2> QED BY <1>3, <2>1, <2>2, CalmReadBack DEF OnceInv
<1>9. CASE \E r \in Requests : tick' = [tick EXCEPT ![t].pc = "load", ![t].req = r]
  BY <1>1, <1>4, <1>5, <1>9 DEF TypeOK, Tick
<1>10. CASE \E r \in Requests, m \in Millis :
              tick' = [tick EXCEPT ![t].pc = "claim", ![t].req = r,
                                   ![t].lease = <<WorkerId(t), m>>]
  BY <1>1, <1>5, <1>10 DEF TypeOK, Tick
<1>11. CASE EndTick(t)
  <2>1. tick'[t] = Rest(t) /\ \A s \in Threads \ {t} : tick'[s] = tick[s] BY <1>1, <1>11, EndTickTypes
  <2> QED BY <1>5, <2>1, RestingTick
<1>12. CASE ActiveRunRequest(t) BY <1>3, <1>7, <1>8, <1>12 DEF ActiveRunRequest
<1>13. CASE FindCancelled(t) BY <1>7, <1>9, <1>13 DEF FindCancelled
<1>14. CASE SelectQueued(t) BY <1>10, <1>11, <1>14 DEF SelectQueued, Claimable
<1> QED BY <1>6, <1>12, <1>13, <1>14

LEMMA OnceInit == Init => OnceInv
<1> SUFFICES ASSUME Init PROVE OnceInv OBVIOUS
<1>1. ASSUME NEW r \in Requests PROVE ~row[r].expired /\ row[r].status # "paused"
  BY DEF Init, SubmitRunConfig, AbsentRow
<1>2. \A t \in Threads : tick[t].lease = NoLease BY DEF Init, Resting
<1>3. \A c \in Calls : call[c].pc = "fresh" BY DEF Init, CallAt
<1> QED BY <1>1, <1>2, <1>3 DEF OnceInv, NeverRequeued, LeasedOnce, Holds

LEMMA OnceNext == TypeInv /\ LeaseInv /\ (Calm => OnceInv) /\ [Next]_vars => (Calm => OnceInv)'
<1> SUFFICES ASSUME TypeInv, LeaseInv, Calm => OnceInv, [Next]_vars, Calm' PROVE OnceInv'
  OBVIOUS
<1>1. TypeOK BY DEF TypeInv
<1>2. CASE UNCHANGED vars
  BY <1>2 DEF vars, Calm, OnceInv, NeverRequeued, LeasedOnce, Holds, Active
<1>3. CASE \E r \in Requests : Expire(r) BY <1>1, <1>3 DEF Expire, Calm, TypeOK
<1>4. CASE \/ \E t \in Threads : ThreadStep(t)
           \/ \E c \in Calls : CallStep(c)
           \/ ProcessEnds \/ RunGepaService
  <2>1. Calm /\ OnceInv
    BY <1>4 DEF Calm, ThreadStep, CallStep, ProcessEnds, RunGepaService
  <2>2. ASSUME CalmRows, \A d \in Calls : call'[d].pc \notin PauseOrResume PROVE NeverRequeued'
    BY <2>2 DEF CalmRows, CalmChange, NeverRequeued, PauseOrResume
  <2>3. ASSUME NEW t \in Threads, ThreadStep(t) PROVE OnceInv'
    <3>1. call' = call
      BY <2>3 DEF ThreadStep, StepRun, ActiveRunRequest, FindCancelled, SelectQueued, ClaimQueued,
           RecordResourceLeases, StartRunRequest, StartCursor, StartSave, Heartbeat, LoadCursor,
           CheckCancelled, Abort, Advance, AdvanceFails, AdvanceErrs, RecordRunResult,
           CompleteRunRequest, FinishRunRequest
    <3>2. CASE ClaimQueued(t) BY <2>1, <3>2, CalmClaim
    <3>3. CASE ~ClaimQueued(t)
      <4>1. CalmRows BY <2>1, <2>3, <3>3, CalmThread DEF OnceInv
      <4>2. NeverRequeued' BY <2>1, <2>2, <3>1, <4>1 DEF OnceInv, NeverRequeued, PauseOrResume
      <4>3. CASE StepRun(t) \/ ActiveRunRequest(t) \/ FindCancelled(t) \/ SelectQueued(t)
        BY <2>1, <4>2, <4>3, CalmReads DEF OnceInv
      <4>4. CASE \/ RecordResourceLeases(t) \/ StartRunRequest(t) \/ StartCursor(t) \/ StartSave(t) \/ Heartbeat(t)
                 \/ LoadCursor(t) \/ CheckCancelled(t) \/ Abort(t) \/ Advance(t) \/ AdvanceFails(t)
                 \/ AdvanceErrs(t) \/ RecordRunResult(t) \/ CompleteRunRequest(t) \/ FinishRunRequest(t)
        BY <4>4, WorkingThread, <2>1, <4>1, <4>2, CalmKeeps DEF ThreadQuiet, OnceInv
      <4> QED BY <2>3, <3>3, <4>3, <4>4 DEF ThreadStep
    <3> QED BY <3>2, <3>3
  <2>4. ASSUME NEW c \in Calls, CallStep(c) PROVE OnceInv'
    BY <2>1, <2>4, CalmCall, CallRows, <2>2, CalmKeeps DEF OnceInv, ThreadQuiet
  <2>5. CASE ProcessEnds \/ RunGepaService
    <3>1. CalmRows /\ NeverRequeued' BY <2>1, <2>2, <2>5, CalmRest DEF OnceInv
    <3>2. \A t \in Threads : ThreadQuiet(t)
      BY <2>5, RestingTick DEF ProcessEnds, RunGepaService, ThreadQuiet, Seeking
    <3> QED BY <2>1, <3>1, <3>2, CalmKeeps DEF OnceInv
  <2> QED BY <1>4, <2>3, <2>4, <2>5
<1> QED BY <1>2, <1>3, <1>4 DEF Next

\* While no deadline passes and nobody pauses, at most one service worker
\* advances a request: the claim's guard on 'queued' is enough, since nothing
\* but the expiry of a lease and a resume ever queues a request again.
THEOREM OneAdvancerAtATime == Spec => []SingleAdvancer
<1>1. TypeInv /\ (Calm => OnceInv) => SingleAdvancer
  <2> SUFFICES ASSUME TypeInv, OnceInv, NEW s \in Slots, NEW t \in Slots, s # t,
                      Advancing(s), Advancing(t), tick[s].req = tick[t].req
               PROVE  FALSE
    BY DEF SingleAdvancer, Calm
  <2>1. s \in Threads /\ t \in Threads /\ tick[s].req \in Requests
    BY DEF Threads, TypeInv, ThreadOK, Advancing
  <2>2. Holds(s, tick[s].req) /\ Holds(t, tick[s].req) BY DEF Holds, Advancing
  <2>3. WorkerId(s) = WorkerId(t) BY <2>1, <2>2 DEF OnceInv, LeasedOnce
  <2> QED BY <2>3, ServiceAssumption DEF WorkerId
<1>2. Init => (Calm => OnceInv) BY OnceInit
<1>3. TypeInv /\ LeaseInv /\ (Calm => OnceInv) /\ [Next]_vars => (Calm => OnceInv)' BY OnceNext
<1> QED BY <1>1, <1>2, <1>3, LeaseInit, LeaseNext, TypeInit, TypeNext, PTL DEF Spec

-----------------------------------------------------------------------------
(***************************************************************************)
(* What becomes of a settled request: a terminal status is final for all    *)
(* but the late control calls, a completed request has a result, and a      *)
(* request completed by its run has a completed cursor.                     *)
(***************************************************************************)

\* A change that respects a terminal status and completes nothing.
Modest(x, y) ==
    /\ IsTerminal(x) => y.status = x.status
    /\ y.status = "completed" => x.status = "completed"

RowsModest == \A r \in Requests : Modest(row[r], row'[r])

\* Every statement whose WHERE clause names the statuses it expects, other
\* than the completion under a lease, is modest.
LEMMA ModestStatements ==
    ASSUME NEW x \in Row, NEW l \in Lease
    PROVE  /\ Modest(x, x)
           /\ Modest(x, RecoverExpired(x))
           /\ Modest(x, FailOrphaned(x))
           /\ Modest(x, MarkStartedForLease(x, l))
           /\ Modest(x, RecordResultForLease(x, l))
           /\ Modest(x, MarkFailedForLease(x, l))
           /\ Modest(x, MarkCancelledForLease(x, l))
           /\ Modest(x, MarkPaused(x))
           /\ Modest(x, MarkResumed(x))
           /\ Modest(x, RecordResult(x))
<1>1. \A s \in {"queued", "cancelled", "failed", "paused"} : Released(x, s).status = s
  <2> TAKE s \in {"queued", "cancelled", "failed", "paused"}
  <2>1. s \in Statuses BY ReleaseStatuses
  <2> QED BY <2>1, ReleasedRow
<1>2. x.status \in ActiveStatus \cup {"queued", "paused"} => ~IsTerminal(x)
  BY DEF ActiveStatus, IsTerminal, TerminalStatus
<1>3. Modest(x, x) BY DEF Modest
<1>4. Modest(x, RecoverExpired(x)) BY <1>1, <1>2, <1>3 DEF Modest, RecoverExpired
<1>5. Modest(x, FailOrphaned(x)) BY <1>1, <1>2, <1>3 DEF Modest, FailOrphaned, MarkFailed
<1>6. Modest(x, MarkStartedForLease(x, l))
  BY <1>2, <1>3 DEF Modest, MarkStartedForLease, CanStart, ActiveStatus, Row
<1>7. Modest(x, RecordResultForLease(x, l)) BY <1>3 DEF Modest, RecordResultForLease, Row
<1>8. Modest(x, MarkFailedForLease(x, l))
  BY <1>1, <1>2, <1>3 DEF Modest, MarkFailedForLease, HoldsLease
<1>9. Modest(x, MarkCancelledForLease(x, l))
  BY <1>1, <1>2, <1>3 DEF Modest, MarkCancelledForLease, HoldsLease
<1>10. Modest(x, MarkPaused(x)) BY <1>1, <1>2, <1>3 DEF Modest, MarkPaused, CanPause
<1>11. Modest(x, MarkResumed(x)) BY <1>1, <1>2, <1>3 DEF Modest, MarkResumed, CanResume
<1>12. Modest(x, RecordResult(x)) BY <1>3 DEF Modest, RecordResult, Row
<1> QED BY <1>3, <1>4, <1>5, <1>6, <1>7, <1>8, <1>9, <1>10, <1>11, <1>12

LEMMA ModestRecover ==
    ASSUME TypeOK, Recover
    PROVE  RowsModest
<1>1. ASSUME NEW r \in Requests PROVE Modest(row[r], RecoverExpired(row[r]))
  BY ModestStatements, LeaseIds DEF TypeOK
<1> QED BY <1>1 DEF RowsModest, Recover, Recovered

LEMMA ModestUpdate ==
    ASSUME TypeOK, NEW r \in Requests, NEW x, Modest(row[r], x), SetRow(r, x) \/ SettleRow(r, x)
    PROVE  RowsModest
BY DEF SetRow, SettleRow, TypeOK, RowsModest, Modest

LEMMA ModestSame ==
    ASSUME TypeOK, row' = row
    PROVE  RowsModest
BY DEF RowsModest, Modest

\* A worker's step is modest, but for the completion under its lease.
LEMMA ModestThread ==
    ASSUME TypeInv, NEW t \in Threads, ThreadStep(t), ~CompleteRunRequest(t)
    PROVE  RowsModest
<1> DEFINE r == tick[t].req
<1>1. TypeOK /\ ThreadOK(t) /\ tick[t] \in Tick BY DEF TypeInv, TypeOK
<1>2. CASE StepRun(t) \/ ActiveRunRequest(t) \/ FindCancelled(t) \/ SelectQueued(t)
  BY <1>2, <1>1, ModestRecover DEF StepRun, ActiveRunRequest, FindCancelled, SelectQueued
<1>3. CASE ClaimQueued(t)
  BY <1>1, <1>3, ModestUpdate DEF ClaimQueued, ThreadOK, TypeOK, Modest, Claim, Row, IsTerminal,
     TerminalStatus
<1>4. CASE StartRunRequest(t) \/ RecordRunResult(t) \/ FinishRunRequest(t)
  BY <1>1, <1>4, ModestStatements, ModestUpdate, ModestSame DEF StartRunRequest, RecordRunResult,
     FinishRunRequest, ThreadOK, TypeOK, Tick
<1>5. CASE row' = row BY <1>1, <1>5, ModestSame
<1> QED BY <1>2, <1>3, <1>4, <1>5 DEF ThreadStep, RecordResourceLeases, StartCursor, StartSave, Heartbeat,
       LoadCursor, CheckCancelled, Abort, Advance, AdvanceFails, AdvanceErrs

\* A call's step is modest, but for the unguarded statements.
LEMMA ModestCall ==
    ASSUME TypeInv, NEW c \in Calls, CallStep(c), ~CancelRun(c), ~StopRow(c), ~DeleteRow(c)
    PROVE  RowsModest
<1> DEFINE r == call[c].req
<1>1. TypeOK BY DEF TypeInv
<1>2. CASE CreateLookup(c) \/ ControlRead(c)
  BY <1>1, <1>2, ModestRecover DEF CreateLookup, ControlRead
<1>3. CASE CreateInsert(c)
  <2>1. PICK q \in Requests : row[q].status = "absent" /\ SetRow(q, SubmitRunConfig(TRUE))
    BY <1>3 DEF CreateInsert
  <2>2. Modest(row[q], SubmitRunConfig(TRUE))
    BY <2>1 DEF Modest, SubmitRunConfig, AbsentRow, IsTerminal, TerminalStatus
  <2> QED BY <1>1, <2>1, <2>2, ModestUpdate
<1>4. CASE StopResult(c) \/ PauseRow(c) \/ ResumeRow(c)
  BY <1>4, ModestStatements, LeaseIds, <1>1, ModestUpdate, ModestSame DEF TypeInv, CallOK, TypeOK,
     StopResult, PauseRow, ResumeRow
<1>5. CASE row' = row BY <1>1, <1>5, ModestSame
<1> QED BY <1>2, <1>3, <1>4, <1>5
       DEF CallStep, PauseLoad, PauseSave, ResumeLoad, ResumeSave, DeleteStorage

\* Time and restarts are modest.
LEMMA ModestRest ==
    ASSUME TypeInv, (\E r \in Requests : Expire(r)) \/ ProcessEnds \/ RunGepaService
    PROVE  RowsModest
<1>1. TypeOK BY DEF TypeInv
<1>2. CASE ProcessEnds BY <1>1, <1>2, ModestSame DEF ProcessEnds
<1>3. ASSUME NEW r \in Requests, Expire(r) PROVE RowsModest
  <2> DEFINE x == [row[r] EXCEPT !.expired = TRUE]
  <2>1. row[r] \in Row BY <1>1 DEF TypeOK
  <2>2. Modest(row[r], x) BY <2>1 DEF Modest, Row
  <2>3. SetRow(r, x) BY <1>1, <1>3 DEF Expire, SetRow, TypeOK
  <2> QED BY <1>1, <2>2, <2>3, ModestUpdate
<1>4. CASE RunGepaService
  <2>1. ASSUME NEW r \in Requests PROVE Modest(row[r], row'[r])
    <3>1. row[r] \in Row BY <1>1 DEF TypeOK
    <3>2. \E x \in {row[r], FailOrphaned(row[r])} : row'[r] = RecoverExpired(x)
      BY <1>4 DEF RunGepaService
    <3>3. \A x \in {row[r], FailOrphaned(row[r])} : x \in Row /\ Modest(row[r], x)
      BY <3>1, ModestStatements, LeaseIds, RecoverChange DEF Change
    <3>4. \A x \in Row : Modest(x, RecoverExpired(x)) BY ModestStatements, LeaseIds
    <3> QED BY <3>2, <3>3, <3>4 DEF Modest, IsTerminal
  <2> QED BY <2>1 DEF RowsModest
<1> QED BY <1>2, <1>3, <1>4

\* Once a request is completed, failed or cancelled, no worker, recovery or
\* restart changes its status: only a cancel, stop or delete call that had
\* already read it can.
THEOREM TerminalStaysTerminal == Spec => TerminalIsFinal
<1> DEFINE Final == \A r \in Requests :
             IsTerminal(row[r]) /\ row'[r].status # row[r].status
               => \E c \in Calls : /\ call[c].req = r
                                   /\ call[c].pc \in {"cancel", "stop_row", "delete_row"}
<1>1. TypeInv /\ [Next]_vars => [Final]_vars
  <2> SUFFICES ASSUME TypeInv, Next PROVE Final OBVIOUS
  <2>1. TypeOK BY DEF TypeInv
  <2>2. CASE RowsModest BY <2>2 DEF RowsModest, Modest
  <2>3. ASSUME NEW t \in Threads, CompleteRunRequest(t) PROVE Final
    <3> DEFINE q == tick[t].req
               l == tick[t].lease
    <3>1. q \in Requests BY <2>3 DEF TypeInv, ThreadOK, CompleteRunRequest
    <3>2. row' = row \/ (HoldsLease(row[q], l) /\ \A r \in Requests \ {q} : row'[r] = row[r])
      BY <2>1, <2>3, <3>1 DEF CompleteRunRequest, SettleRow, TypeOK
    <3>3. HoldsLease(row[q], l) => ~IsTerminal(row[q])
      BY DEF HoldsLease, ActiveStatus, IsTerminal, TerminalStatus
    <3> QED BY <3>2, <3>3
  <2>4. ASSUME NEW c \in Calls, CancelRun(c) \/ StopRow(c) \/ DeleteRow(c) PROVE Final
    BY <2>4, <2>1 DEF TypeInv, CallOK, CancelRun, StopRow, DeleteRow, SettleRow, TypeOK
  <2>5. ASSUME NEW t \in Threads, ThreadStep(t) PROVE Final
    BY <2>2, <2>3, <2>5, ModestThread
  <2>6. ASSUME NEW c \in Calls, CallStep(c) PROVE Final
    BY <2>2, <2>4, <2>6, ModestCall
  <2>7. CASE (\E r \in Requests : Expire(r)) \/ ProcessEnds \/ RunGepaService
    BY <2>2, <2>7, ModestRest
  <2> QED BY <2>5, <2>6, <2>7 DEF Next
<1> QED BY <1>1, TypeInit, TypeNext, PTL DEF Spec, TerminalIsFinal

(***************************************************************************)
(* Results.                                                                 *)
(***************************************************************************)

\* No step makes a row disappear or loses its result.
LEMMA NextRowsKept ==
    ASSUME TypeInv, Next
    PROVE  RowsKept
<1>1. TypeOK BY DEF TypeInv
<1>2. CASE RowsChanged BY <1>2 DEF RowsChanged, RowsKept, Change
<1>3. ASSUME NEW t \in Threads, ThreadStep(t) PROVE RowsKept
  <2>1. CASE StepRun(t) \/ ActiveRunRequest(t) \/ FindCancelled(t) \/ SelectQueued(t)
    BY <2>1, <1>1, RecoverRows DEF StepRun, ActiveRunRequest, FindCancelled, SelectQueued
  <2>2. CASE ClaimQueued(t)
    <3> DEFINE r == tick[t].req
               x == Claim(row[r], tick[t].lease, WorkerId(t))
    <3>1. r \in Requests /\ row[r] \in Row /\ tick[t].lease \in Lease
      BY <2>2 DEF ClaimQueued, TypeInv, ThreadOK, TypeOK, Tick
    <3>2. WorkerId(t) \in Workers BY ServiceAssumption DEF WorkerId, Threads
    <3>3. Kept(row[r], x) BY <3>1, <3>2, FillChange
    <3>4. row' = [row EXCEPT ![r] = x] BY <2>2 DEF ClaimQueued, SetRow
    <3> HIDE DEF x
    <3>5. \A q \in Requests : row'[q] = IF q = r THEN x ELSE row[q] BY <1>1, <3>4 DEF TypeOK
    <3> QED BY <3>3, <3>5 DEF RowsKept, Kept
  <2>3. CASE \/ RecordResourceLeases(t) \/ StartRunRequest(t) \/ StartCursor(t) \/ StartSave(t) \/ Heartbeat(t)
             \/ LoadCursor(t) \/ CheckCancelled(t) \/ Abort(t) \/ Advance(t) \/ AdvanceFails(t)
             \/ AdvanceErrs(t) \/ RecordRunResult(t) \/ CompleteRunRequest(t) \/ FinishRunRequest(t)
    BY <2>3, WorkingRows, <1>2
  <2> QED BY <1>3, <2>1, <2>2, <2>3 DEF ThreadStep
<1>4. ASSUME NEW c \in Calls, CallStep(c) PROVE RowsKept BY <1>2, <1>4, CallRows
<1>5. ASSUME NEW r \in Requests, Expire(r) PROVE RowsKept BY <1>2, <1>5, TypeExpire
<1>6. CASE ProcessEnds BY <1>1, <1>6, SameRows DEF ProcessEnds
<1>7. CASE RunGepaService BY <1>2, <1>7, TypeRunGepaService
<1> QED BY <1>3, <1>4, <1>5, <1>6, <1>7 DEF Next

\* A row has a result, or is gone from the table.
HasResult(x) == x.result # "none" \/ x.status = "deleted"

LEMMA ResultStays ==
    ASSUME RowsKept, NEW r \in Requests, row[r].status # "absent", HasResult(row[r])
    PROVE  HasResult(row'[r])
BY DEF RowsKept, Kept, HasResult

\* Only a worker whose result was accepted goes on to the completing statement.
LEMMA ThreadNotCompleting ==
    ASSUME TypeInv, NEW t \in Threads, ThreadStep(t),
           ~(RecordRunResult(t) /\ HoldsLease(row[tick[t].req], tick[t].lease))
    PROVE  /\ \A s \in Threads \ {t} : tick'[s] = tick[s]
           /\ tick'[t].pc # "complete"
<1>1. TypeOK /\ ThreadOK(t) /\ tick[t] \in Tick BY DEF TypeInv, TypeOK
<1>2. Rest(t).pc \in {"idle", "done"} BY RestingTick
<1>3. CASE EndTick(t) BY <1>1, <1>2, <1>3, EndTickTypes
<1>4. CASE \E p \in ThreadPc \ {"complete"} : Goto(t, p)
  <2>1. PICK p \in ThreadPc \ {"complete"} : Goto(t, p) BY <1>4
  <2>2. tick'[t] = [tick[t] EXCEPT !.pc = p] /\ \A s \in Threads \ {t} : tick'[s] = tick[s]
    BY <1>1, <2>1, GotoTypes
  <2> QED BY <1>1, <2>2 DEF Tick
<1>5. CASE \E p \in ThreadPc : GotoRecord(t, p)
  <2>1. PICK p \in ThreadPc : GotoRecord(t, p) BY <1>5
  <2>2. /\ tick'[t] = [tick[t] EXCEPT !.pc = "record", !.then = p]
        /\ \A s \in Threads \ {t} : tick'[s] = tick[s]
    BY <1>1, <2>1, GotoRecordTypes
  <2> QED BY <1>1, <2>2 DEF Tick
<1>6. CASE \E o \in TerminalPhase : Settle(t, o)
  <2>1. PICK o \in TerminalPhase : Settle(t, o) BY <1>6
  <2>2. CASE tick' = [tick EXCEPT ![t].pc  = IF o = "completed" THEN "result" ELSE "finish",
                                  ![t].cur = NoCursor, ![t].out = o]
    BY <1>1, <2>2 DEF TypeOK, Tick
  <2> QED BY <1>3, <2>1, <2>2 DEF Settle
<1>7. CASE StepRun(t)
  BY <1>1, <1>7 DEF StepRun, Resting, TypeOK
<1>8. CASE ActiveRunRequest(t)
  <2>1. CASE \E p \in {"find_cancelled", "select"} : Goto(t, p) BY <1>4, <2>1 DEF ThreadPc
  <2>2. CASE \E r \in Requests : tick' = [tick EXCEPT
                     ![t].pc    = IF Recovered[r].status = "leased" THEN "start" ELSE "heartbeat",
                     ![t].req   = r,
                     ![t].lease = Recovered[r].lease]
    BY <1>1, <2>2 DEF TypeOK, Tick
  <2> QED BY <1>8, <2>1, <2>2 DEF ActiveRunRequest
<1>9. CASE FindCancelled(t)
  <2>1. CASE Goto(t, "select") BY <1>4, <2>1 DEF ThreadPc
  <2>2. CASE \E r \in Requests : tick' = [tick EXCEPT ![t].pc = "load", ![t].req = r]
    BY <1>1, <2>2 DEF TypeOK, Tick
  <2> QED BY <1>9, <2>1, <2>2 DEF FindCancelled
<1>10. CASE SelectQueued(t)
  <2>1. CASE \E r \in Requests, m \in Millis :
          tick' = [tick EXCEPT ![t].pc = "claim", ![t].req = r,
                               ![t].lease = <<WorkerId(t), m>>]
    BY <1>1, <2>1 DEF TypeOK, Tick
  <2> QED BY <1>3, <1>10, <2>1 DEF SelectQueued, Claimable
<1>11. CASE ClaimQueued(t) BY <1>2, <1>3, <1>5, <1>11 DEF ClaimQueued, ThreadPc
<1>12. CASE RecordResourceLeases(t)
  <2>1. CASE /\ tick[t].then # Rest(t).pc
             /\ tick' = [tick EXCEPT ![t].pc = tick[t].then, ![t].then = "idle"]
    BY <1>1, <1>12, <2>1 DEF ThreadOK, RecordResourceLeases, TypeOK, Tick
  <2> QED BY <1>3, <1>12, <2>1 DEF RecordResourceLeases
<1>13. CASE \/ StartRunRequest(t) \/ StartSave(t) \/ Heartbeat(t) \/ RecordRunResult(t)
            \/ CompleteRunRequest(t) \/ FinishRunRequest(t)
  BY <1>3, <1>4, <1>5, <1>13 DEF ThreadPc, StartRunRequest, StartSave, Heartbeat,
     RecordRunResult, CompleteRunRequest, FinishRunRequest
<1>14. CASE StartCursor(t) \/ LoadCursor(t)
  <2> DEFINE k == LoadOrNew(cursor[tick[t].req])
  <2>1. CASE \E p \in {"start_save", "check"} :
          tick' = [tick EXCEPT ![t].pc = p, ![t].cur = k]
    BY <1>1, <2>1 DEF TypeOK, Tick
  <2>2. CASE tick' = [tick EXCEPT ![t].pc = IF k.phase = "completed" THEN "result" ELSE "finish",
                                  ![t].out = k.phase]
    BY <1>1, <2>2 DEF TypeOK, Tick
  <2> QED BY <1>3, <1>14, <2>1, <2>2 DEF StartCursor, LoadCursor
<1>15. CASE CheckCancelled(t)
  <2>1. CASE \E o \in {"cancelled", "failed"} : tick' = [tick EXCEPT ![t].pc = "abort", ![t].out = o]
    BY <1>1, <2>1 DEF TypeOK, Tick
  <2>2. Rest(t).pc \in ThreadPc /\ "work" \in ThreadPc \ {"complete"} BY <1>2 DEF ThreadPc
  <2>3. CASE Goto(t, "work") BY <1>4, <2>2, <2>3
  <2>4. CASE GotoRecord(t, IF tick[t].cur.phase = "paused" THEN Rest(t).pc ELSE "work")
    BY <1>5, <2>2, <2>4
  <2> QED BY <1>3, <1>15, <2>1, <2>3, <2>4 DEF CheckCancelled
<1>16. CASE Abort(t) \/ Advance(t) \/ AdvanceFails(t) \/ AdvanceErrs(t)
  BY <1>1, <1>3, <1>6, <1>16 DEF Abort, ThreadOK, Tick, TerminalPhase, Advance, AdvanceFails,
     AdvanceErrs
<1> QED BY <1>7, <1>8, <1>9, <1>10, <1>11, <1>12, <1>13, <1>14, <1>15, <1>16 DEF ThreadStep

\* Only the first statement of stop leads to the second.
LEMMA CallNotStopping ==
    ASSUME TypeInv, NEW c \in Calls, CallStep(c), ~StopResult(c)
    PROVE  /\ \A d \in Calls \ {c} : call'[d] = call[d]
           /\ call'[c].pc # "stop_row"
<1>1. TypeOK /\ call[c] \in Call BY DEF TypeInv, TypeOK
<1>2. CASE EndCall(c) BY <1>1, <1>2, EndCallTypes
<1>3. CASE ControlRead(c)
  <2>1. PICK op \in Ops \ {"create"}, r \in Requests :
          call' = [call EXCEPT ![c] = IF FirstStep(op, r, Recovered[r]) = "done"
                                        THEN CallAt("done", NoRequest)
                                        ELSE CallAt(FirstStep(op, r, Recovered[r]), r)]
    BY <1>3 DEF ControlRead
  <2>2. op \in {"cancel", "stop", "pause", "resume", "delete"} BY ServiceAssumption
  <2>3. FirstStep(op, r, Recovered[r]) # "stop_row" BY <2>2 DEF FirstStep
  <2> QED BY <1>1, <2>1, <2>3 DEF TypeOK, CallAt
<1>4. CASE \E p \in {"insert", "delete_row"} : GotoCall(c, p)
  BY <1>1, <1>4 DEF GotoCall, TypeOK, Call
<1>5. CASE PauseLoad(c) \/ ResumeLoad(c)
  BY <1>1, <1>5 DEF PauseLoad, ResumeLoad, TypeOK, Call
<1>6. CASE PauseSave(c) \/ ResumeSave(c)
  BY <1>1, <1>6 DEF PauseSave, ResumeSave, TypeOK, CallAt
<1> QED BY <1>2, <1>3, <1>4, <1>5, <1>6 DEF CallStep, CreateLookup, CreateInsert, CancelRun,
       StopRow, PauseRow, ResumeRow, DeleteStorage, DeleteRow

\* What a thread or call that reached its completing statement has seen.
LEMMA ResultKeptNext ==
    ASSUME TypeInv, ResultInv, Next
    PROVE  ResultKept'
<1>1. TypeOK /\ RowsKept BY NextRowsKept DEF TypeInv
<1>2. ASSUME NEW t \in Threads, tick'[t].pc = "complete", tick'[t] = tick[t]
      PROVE  HasResult(row'[tick'[t].req])
  BY <1>2, <1>1, ResultStays DEF ResultInv, ResultKept, HasResult, TypeInv, ThreadOK
<1>3. ASSUME NEW c \in Calls, call'[c].pc = "stop_row", call'[c] = call[c]
      PROVE  HasResult(row'[call'[c].req])
  BY <1>3, <1>1, ResultStays DEF ResultInv, ResultKept, HasResult, TypeInv, CallOK
<1>4. ASSUME NEW t \in Threads, ThreadStep(t) PROVE ResultKept'
  <2>1. call' = call
    BY <1>4 DEF ThreadStep, StepRun, ActiveRunRequest, FindCancelled, SelectQueued, ClaimQueued,
         RecordResourceLeases, StartRunRequest, StartCursor, StartSave, Heartbeat, LoadCursor, CheckCancelled,
         Abort, Advance, AdvanceFails, AdvanceErrs, RecordRunResult, CompleteRunRequest,
         FinishRunRequest
  <2>2. CASE RecordRunResult(t) /\ HoldsLease(row[tick[t].req], tick[t].lease)
    <3> DEFINE r == tick[t].req
    <3>1. r \in Requests /\ row[r] \in Row /\ tick[t] \in Tick
      BY <2>2 DEF RecordRunResult, TypeInv, ThreadOK, TypeOK
    <3>2. row'[r].result = "run"
      BY <1>1, <2>2, <3>1 DEF RecordRunResult, SetRow, RecordResultForLease, TypeOK, Row
    <3>3. Goto(t, "complete") /\ "complete" \in ThreadPc BY <2>2 DEF RecordRunResult, ThreadPc
    <3>4. tick'[t] = [tick[t] EXCEPT !.pc = "complete"] /\ \A s \in Threads \ {t} : tick'[s] = tick[s]
      BY <1>1, <3>3, GotoTypes
    <3>5. tick'[t].req = r BY <3>1, <3>4 DEF Tick
    <3> QED BY <1>2, <1>3, <2>1, <3>2, <3>4, <3>5 DEF ResultKept, HasResult
  <2>3. CASE ~(RecordRunResult(t) /\ HoldsLease(row[tick[t].req], tick[t].lease))
    BY <1>4, <2>3, ThreadNotCompleting, <1>2, <1>3, <2>1 DEF TypeInv, ResultKept, HasResult
  <2> QED BY <2>2, <2>3
<1>5. ASSUME NEW c \in Calls, CallStep(c) PROVE ResultKept'
  <2>1. tick' = tick BY <1>5, CallRows
  <2>2. CASE StopResult(c)
    <3> DEFINE r == call[c].req
    <3>1. r \in Requests /\ row[r] \in Row /\ row[r].status # "absent" /\ call[c] \in Call
      BY <2>2 DEF StopResult, TypeInv, CallOK, TypeOK
    <3>2. row' = [row EXCEPT ![r] = RecordResult(row[r])] BY <2>2 DEF StopResult, SetRow
    <3>3. row'[r].result = "stop" \/ row'[r].status = "deleted"
      BY <1>1, <3>1, <3>2 DEF RecordResult, Exists, TypeOK, Row
    <3>4. call'[c].req = r /\ \A d \in Calls \ {c} : call'[d] = call[d]
      BY <1>1, <2>2, <3>1 DEF StopResult, GotoCall, TypeOK, Call
    <3> QED BY <1>2, <1>3, <2>1, <3>3, <3>4 DEF ResultKept, HasResult
  <2>3. CASE ~StopResult(c)
    BY <1>5, <2>3, CallNotStopping, <1>2, <1>3, <2>1 DEF ResultKept, HasResult
  <2> QED BY <2>2, <2>3
<1>6. CASE (\E r \in Requests : Expire(r)) \/ RunGepaService
  BY <1>6, <1>2, <1>3 DEF Expire, RunGepaService, ResultKept, HasResult
<1>7. CASE ProcessEnds
  BY <1>7, RestingTick DEF ProcessEnds, CallAt, ResultKept
<1> QED BY <1>4, <1>5, <1>6, <1>7 DEF Next

LEMMA CompletedNext ==
    ASSUME TypeInv, ResultInv, Next
    PROVE  CompletedHasResult'
<1>1. TypeOK /\ RowsKept BY NextRowsKept DEF TypeInv
<1>2. CASE RowsModest
  BY <1>1, <1>2 DEF RowsModest, Modest, RowsKept, Kept, ResultInv, CompletedHasResult
<1>3. ASSUME NEW r \in Requests, row[r].result # "none" \/ row[r].status = "deleted",
             row[r].status # "absent", \A q \in Requests \ {r} : row'[q] = row[q]
      PROVE  CompletedHasResult'
  BY <1>1, <1>3 DEF RowsKept, Kept, ResultInv, CompletedHasResult
<1>4. ASSUME NEW t \in Threads, CompleteRunRequest(t) PROVE CompletedHasResult'
  <2> DEFINE r == tick[t].req
  <2>1. r \in Requests /\ row[r].status # "absent" BY <1>4 DEF TypeInv, ThreadOK, CompleteRunRequest
  <2>2. row[r].result # "none" \/ row[r].status = "deleted"
    BY <1>4 DEF ResultInv, ResultKept, CompleteRunRequest
  <2>3. \A q \in Requests \ {r} : row'[q] = row[q]
    BY <1>1, <1>4, <2>1 DEF CompleteRunRequest, SettleRow, TypeOK
  <2> QED BY <1>3, <2>1, <2>2, <2>3
<1>5. ASSUME NEW c \in Calls, StopRow(c) PROVE CompletedHasResult'
  <2> DEFINE r == call[c].req
  <2>1. r \in Requests /\ row[r].status # "absent" BY <1>5 DEF TypeInv, CallOK, StopRow
  <2>2. row[r].result # "none" \/ row[r].status = "deleted"
    BY <1>5 DEF ResultInv, ResultKept, StopRow
  <2>3. \A q \in Requests \ {r} : row'[q] = row[q]
    BY <1>1, <1>5, <2>1 DEF StopRow, SettleRow, TypeOK
  <2> QED BY <1>3, <2>1, <2>2, <2>3
<1>6. ASSUME NEW c \in Calls, CancelRun(c) \/ DeleteRow(c) PROVE CompletedHasResult'
  <2> DEFINE r == call[c].req
  <2>1. r \in Requests /\ row[r] \in Row
    BY <1>6 DEF TypeInv, CallOK, CancelRun, DeleteRow, TypeOK
  <2>2. \A q \in Requests \ {r} : row'[q] = row[q]
    BY <1>1, <1>6, <2>1 DEF CancelRun, DeleteRow, SettleRow, TypeOK
  <2>3. row'[r].status = "completed" => row[r].status = "completed"
    <3>1. "cancelled" \in Statuses BY ReleaseStatuses
    <3>2. Released(row[r], "cancelled").status = "cancelled" BY <2>1, <3>1, ReleasedRow
    <3>3. CASE CancelRun(c)
      BY <1>1, <2>1, <3>2, <3>3 DEF CancelRun, SettleRow, MarkCancelled, TypeOK
    <3>4. CASE DeleteRow(c)
      BY <1>1, <2>1, <3>4 DEF DeleteRow, SettleRow, DeleteRunRequest, AbsentRow, TypeOK
    <3> QED BY <1>6, <3>3, <3>4
  <2> QED BY <1>1, <2>2, <2>3 DEF RowsKept, Kept, ResultInv, CompletedHasResult
<1>7. ASSUME NEW t \in Threads, ThreadStep(t) PROVE CompletedHasResult'
  BY <1>2, <1>4, <1>7, ModestThread
<1>8. ASSUME NEW c \in Calls, CallStep(c) PROVE CompletedHasResult'
  BY <1>2, <1>5, <1>6, <1>8, ModestCall
<1>9. CASE (\E r \in Requests : Expire(r)) \/ ProcessEnds \/ RunGepaService
  BY <1>2, <1>9, ModestRest
<1> QED BY <1>7, <1>8, <1>9 DEF Next

\* Neither of the two ways to 'completed' can lose the result: it is written
\* by an earlier statement and survives every statement in between.
THEOREM CompletedRunsHaveResults == Spec => []CompletedHasResult
<1>1. Init => ResultInv
  <2> SUFFICES ASSUME Init PROVE ResultInv OBVIOUS
  <2>1. \A r \in Requests : row[r].status # "completed" BY DEF Init, SubmitRunConfig, AbsentRow
  <2>2. \A t \in Threads : tick[t].pc # "complete" BY DEF Init, Resting
  <2>3. \A c \in Calls : call[c].pc # "stop_row" BY DEF Init, CallAt
  <2> QED BY <2>1, <2>2, <2>3 DEF ResultInv, CompletedHasResult, ResultKept
<1>2. TypeInv /\ ResultInv /\ [Next]_vars => ResultInv'
  <2>1. CASE Next BY <2>1, ResultKeptNext, CompletedNext DEF ResultInv
  <2>2. CASE UNCHANGED vars
    BY <2>2 DEF vars, ResultInv, CompletedHasResult, ResultKept
  <2> QED BY <2>1, <2>2
<1>3. ResultInv => CompletedHasResult BY DEF ResultInv
<1> QED BY <1>1, <1>2, <1>3, TypeInit, TypeNext, PTL DEF Spec

(***************************************************************************)
(* What a completed request leaves in the workspace.                        *)
(*                                                                          *)
(* While no deadline passes and nobody pauses, and with at most one step    *)
(* call, the worker that holds a request is one thread.  So nobody writes   *)
(* the cursor between the load and the save of its advance, the result is   *)
(* recorded over a completed cursor, and from then on nobody has work left  *)
(* on it: neither the holder, nor a sweep of a cancelled request.           *)
(***************************************************************************)

\* With at most one step call, a worker id is one thread.
OneStepCall == \A s, t \in Steps : s = t

\* Thread t settles request r without a lease, because r was cancelled.
Sweeps(t, r) == tick[t].lease = NoLease /\ tick[t].pc \notin Between /\ tick[t].req = r

\* Thread t is between the load of the cursor and its save.
Working(t) == tick[t].pc \in {"check", "work"} \/ (tick[t].pc = "record" /\ tick[t].then = "work")

\* A stop call has written its result and not yet the status.
Stopping(r) == \E c \in Calls : call[c].pc = "stop_row" /\ call[c].req = r

\* The request is, or is about to be, completed with the result of a run.
RunDone(r) == row[r].result = "run" /\ (row[r].status = "completed" \/ Stopping(r))

\* What the rows say of the deletes and sweeps under way.
CallsOver ==
    \A c \in Calls : call[c].pc \in {"delete_storage", "delete_row"} =>
        row[call[c].req].status \in TerminalStatus \cup {"deleted"}

SweepsOver ==
    \A t \in Threads, r \in Requests : Sweeps(t, r) =>
        row[r].status # "queued" /\ ~Active(r) /\ ~RunDone(r)

\* What the worker's place says of the cursor of its active request.
HeldCursor(t, r) ==
    /\ tick[t].pc # "abort"
    /\ Working(t) => cursor[r] = tick[t].cur /\ row[r].result # "run"
    /\ tick[t].pc = "start_save" => cursor[r] = tick[t].cur
    /\ tick[t].pc = "result" => cursor[r].phase = "completed"

CursorHeld == \A t \in Threads, r \in Requests : Holds(t, r) /\ Active(r) => HeldCursor(t, r)

\* Once the result of the run is there, nobody has work left on the cursor.
ResultLast ==
    \A r \in Requests :
        /\ row[r].status \in {"queued", "deleted"} => row[r].result # "run"
        /\ Active(r) /\ row[r].result = "run" => cursor[r].phase = "completed"

DoneLast ==
    \A r \in Requests : RunDone(r) =>
        /\ cursor[r].phase \in {"completed", "absent"}
        /\ \A t \in Threads : Holds(t, r) => tick[t].pc = "complete"
        /\ \A t \in Threads : Active(r) /\ WorkerId(t) = row[r].worker => Holds(t, r)

AgreeInv == CallsOver /\ SweepsOver /\ CursorHeld /\ ResultLast /\ DoneLast

LEMMA OneHolder ==
    ASSUME OneStepCall, OnceInv, NEW s \in Threads, NEW t \in Threads, NEW r \in Requests,
           Holds(s, r), Holds(t, r)
    PROVE  s = t
BY ServiceAssumption DEF OnceInv, LeasedOnce, WorkerId, OneStepCall, Threads

LEMMA OneThread ==
    ASSUME OneStepCall, NEW s \in Threads, NEW t \in Threads, WorkerId(s) = WorkerId(t)
    PROVE  s = t
BY ServiceAssumption DEF WorkerId, OneStepCall, Threads

\* A thread past its reads has a request, under a lease or as a sweep.
LEMMA AtWork ==
    ASSUME TypeInv, NEW t \in Threads, tick[t].pc \notin Between \cup {"claim"}
    PROVE  /\ tick[t].req \in Requests /\ row[tick[t].req].status # "absent"
           /\ Holds(t, tick[t].req) \/ Sweeps(t, tick[t].req)
BY DEF TypeInv, ThreadOK, Between, Holds, Sweeps

\* Whoever is not about to complete a request works on one that is not done.
LEMMA NotDone ==
    ASSUME TypeInv, AgreeInv, NEW t \in Threads,
           tick[t].pc \notin Between \cup {"claim", "complete"}
    PROVE  ~RunDone(tick[t].req)
BY AtWork DEF AgreeInv, DoneLast, SweepsOver

\* The guard of a lease holds for its holder on an active request, and for nobody else.
LEMMA GuardIsHolder ==
    ASSUME TypeInv, LeaseInv, OnceInv, AgreeInv, NEW t \in Threads,
           tick[t].pc \notin Between \cup {"claim"}
    PROVE  LET r == tick[t].req
           IN  HoldsLease(row[r], tick[t].lease) <=> Active(r)
<1> DEFINE r == tick[t].req
<1>1. r \in Requests /\ (Holds(t, r) \/ Sweeps(t, r)) BY AtWork
<1>2. CASE Holds(t, r) BY <1>1, <1>2 DEF OnceInv, LeasedOnce, HoldsLease, Active
<1>3. CASE Sweeps(t, r) BY <1>1, <1>3 DEF AgreeInv, SweepsOver, HoldsLease, Active
<1> QED BY <1>1, <1>2, <1>3

\* On an active request there is no other thread than its holder.
LEMMA Alone ==
    ASSUME OneStepCall, TypeInv, OnceInv, AgreeInv, NEW t \in Threads,
           tick[t].pc \notin Between \cup {"claim"}, Active(tick[t].req)
    PROVE  LET r == tick[t].req
           IN  /\ Holds(t, r)
               /\ \A s \in Threads \ {t} : ~Holds(s, r) /\ WorkerId(s) # row[r].worker
               /\ \A s \in Threads : ~Sweeps(s, r)
<1> DEFINE r == tick[t].req
<1>1. r \in Requests /\ Holds(t, r) BY AtWork DEF AgreeInv, SweepsOver
<1>2. \A s \in Threads \ {t} : ~Holds(s, r) BY <1>1, OneHolder
<1>3. row[r].worker = WorkerId(t) BY <1>1 DEF OnceInv, LeasedOnce
<1>4. \A s \in Threads \ {t} : WorkerId(s) # row[r].worker BY <1>3, OneThread
<1>5. \A s \in Threads : ~Sweeps(s, r) BY <1>1 DEF AgreeInv, SweepsOver
<1> QED BY <1>1, <1>2, <1>4, <1>5

\* Thread t does one step of its work on request r, and nothing else happens.
WorkStep(t, r) ==
    /\ tick[t].pc \notin Between \cup {"claim"} /\ tick[t].req = r
    /\ \A s \in Threads \ {t} : tick'[s] = tick[s]
    /\ \/ tick'[t].lease = NoLease /\ tick'[t].pc \in Between
       \/ /\ tick'[t].pc \notin Between \cup {"claim"}
          /\ tick'[t].req = r /\ tick'[t].lease = tick[t].lease
    /\ call' = call
    /\ \A q \in Requests \ {r} : row'[q] = row[q] /\ cursor'[q] = cursor[q]

\* What holds of the one request a step is about.
AgreeAt(r) ==
    /\ \A c \in Calls : call[c].pc \in {"delete_storage", "delete_row"} /\ call[c].req = r =>
          row[r].status \in TerminalStatus \cup {"deleted"}
    /\ \A t \in Threads : Sweeps(t, r) => row[r].status # "queued" /\ ~Active(r) /\ ~RunDone(r)
    /\ \A t \in Threads : Holds(t, r) /\ Active(r) => HeldCursor(t, r)
    /\ row[r].status \in {"queued", "deleted"} => row[r].result # "run"
    /\ Active(r) /\ row[r].result = "run" => cursor[r].phase = "completed"
    /\ RunDone(r) =>
         /\ cursor[r].phase \in {"completed", "absent"}
         /\ \A t \in Threads : Holds(t, r) => tick[t].pc = "complete"
         /\ \A t \in Threads : Active(r) /\ WorkerId(t) = row[r].worker => Holds(t, r)

LEMMA AgreePointwise ==
    ASSUME AgreeInv, NEW r \in Requests
    PROVE  AgreeAt(r)
BY DEF AgreeAt, AgreeInv, CallsOver, SweepsOver, CursorHeld, ResultLast, DoneLast

LEMMA AgreePrimed ==
    ASSUME TypeInv', \A r \in Requests : AgreeAt(r)'
    PROVE  AgreeInv'
<1>1. CallsOver'
  <2> SUFFICES ASSUME NEW c \in Calls, call'[c].pc \in {"delete_storage", "delete_row"}
               PROVE  row'[call'[c].req].status \in TerminalStatus \cup {"deleted"}
    BY DEF CallsOver
  <2>1. call'[c].req \in Requests BY DEF TypeInv, CallOK
  <2> QED BY <2>1 DEF AgreeAt
<1>2. SweepsOver' BY DEF AgreeAt, SweepsOver
<1>3. CursorHeld' BY DEF AgreeAt, CursorHeld
<1>4. ResultLast' BY DEF AgreeAt, ResultLast
<1>5. DoneLast' BY DEF AgreeAt, DoneLast
<1> QED BY <1>1, <1>2, <1>3, <1>4, <1>5 DEF AgreeInv

\* A step of work leaves the other requests as they were.
LEMMA OtherRequest ==
    ASSUME AgreeInv, TypeInv, NEW t \in Threads, NEW r \in Requests, WorkStep(t, r),
           NEW q \in Requests, q # r
    PROVE  AgreeAt(q)'
<1>1. AgreeAt(q) BY AgreePointwise
<1>2. row'[q] = row[q] /\ cursor'[q] = cursor[q] /\ call' = call BY DEF WorkStep
<1>3. (RunDone(q)' <=> RunDone(q)) /\ (Active(q)' <=> Active(q))
  BY <1>2 DEF RunDone, Stopping, Active
<1>4. ~Holds(t, q) /\ ~Holds(t, q)' /\ ~Sweeps(t, q) /\ ~Sweeps(t, q)'
  BY DEF WorkStep, Holds, Sweeps
<1>5. ASSUME NEW s \in Threads \ {t}
      PROVE  /\ tick'[s] = tick[s] /\ (Holds(s, q)' <=> Holds(s, q)) /\ (Sweeps(s, q)' <=> Sweeps(s, q))
             /\ HeldCursor(s, q)' <=> HeldCursor(s, q)
  BY <1>2 DEF WorkStep, Holds, Sweeps, HeldCursor, Working
<1>6. \A s \in Threads : /\ Holds(s, q)' <=> Holds(s, q)
                         /\ Sweeps(s, q)' <=> Sweeps(s, q)
                         /\ Holds(s, q) => tick'[s] = tick[s] /\ (HeldCursor(s, q)' <=> HeldCursor(s, q))
  BY <1>4, <1>5
<1> QED BY <1>1, <1>2, <1>3, <1>6 DEF AgreeAt

\* A step of work on an open request.
LEMMA WorkAgrees ==
    ASSUME OneStepCall, TypeInv, TypeInv', OnceInv, AgreeInv,
           NEW t \in Threads, NEW r \in Requests, WorkStep(t, r), tick[t].pc # "complete",
           CalmChange(row[r], row'[r]), Modest(row[r], row'[r]), Kept(row[r], row'[r]),
           row'[r].result = row[r].result, row'[r].status = "deleted" => row[r].status = "deleted",
           Active(r)' /\ row'[r].result = "run" => cursor'[r].phase = "completed",
           Holds(t, r)' /\ Active(r)' => HeldCursor(t, r)'
    PROVE  AgreeInv'
<1>0. tick[t].req = r /\ tick[t].pc \notin Between \cup {"claim"} BY DEF WorkStep
<1>1. AgreeAt(r) /\ row[r].status # "absent" BY <1>0, AtWork, AgreePointwise
<1>2. ~RunDone(r) BY <1>0, NotDone
<1>3. ~RunDone(r)' BY <1>2 DEF WorkStep, RunDone, Stopping, Modest
<1>4. Active(r)' => Active(r) BY DEF CalmChange, Active
<1>5. row'[r].status = "queued" => row[r].status = "queued" BY <1>1 DEF CalmChange
<1>6. row[r].status \in TerminalStatus \cup {"deleted"} => row'[r].status \in TerminalStatus \cup {"deleted"}
  BY DEF Modest, Kept, IsTerminal
<1>7. ASSUME NEW s \in Threads, Sweeps(s, r)' PROVE Sweeps(s, r)
  BY <1>7 DEF WorkStep, Sweeps
<1>8. ASSUME NEW s \in Threads, Holds(s, r)', Active(r)' PROVE HeldCursor(s, r)'
  <2>1. CASE s = t BY <1>8, <2>1
  <2>2. CASE s # t
    BY <1>8, <2>2, <1>0, <1>4, Alone DEF WorkStep, Holds
  <2> QED BY <2>1, <2>2
<1>9. AgreeAt(r)' BY <1>1, <1>3, <1>4, <1>5, <1>6, <1>7, <1>8 DEF AgreeAt, WorkStep
<1> QED BY <1>9, OtherRequest, AgreePrimed

\* What a step of the proof may use.
AgreeContext == OneStepCall /\ TypeInv /\ TypeInv' /\ LeaseInv /\ OnceInv /\ AgreeInv

\* A step of work that leaves the table alone.
LEMMA SameRowAgrees ==
    ASSUME AgreeContext, NEW t \in Threads, NEW r \in Requests, WorkStep(t, r),
           tick[t].pc # "complete", row' = row,
           Active(r) /\ row[r].result = "run" => cursor'[r].phase = "completed",
           Holds(t, r)' /\ Active(r) => HeldCursor(t, r)'
    PROVE  AgreeInv'
BY WorkAgrees DEF Active, AgreeContext, OnceInv, NeverRequeued, CalmChange, Modest, Kept

\* The end of a tick is a step of work.
LEMMA RestIsWork ==
    ASSUME TypeInv, NEW t \in Threads, tick[t].pc \notin Between \cup {"claim"}, EndTick(t), call' = call,
           NEW r \in Requests, tick[t].req = r,
           \A q \in Requests \ {r} : row'[q] = row[q] /\ cursor'[q] = cursor[q]
    PROVE  WorkStep(t, r) /\ ~Holds(t, r)'
BY EndTickTypes, RestingTick DEF TypeInv, WorkStep, Between, Holds

\* The thread goes on with its request, at place p.
GoesOn(t, p) ==
    /\ \A s \in Threads \ {t} : tick'[s] = tick[s]
    /\ tick'[t].pc = p /\ tick'[t].req = tick[t].req /\ tick'[t].lease = tick[t].lease

LEMMA GoOnIsWork ==
    ASSUME NEW t \in Threads, tick[t].pc \notin Between \cup {"claim"}, call' = call,
           NEW r \in Requests, tick[t].req = r,
           \A q \in Requests \ {r} : row'[q] = row[q] /\ cursor'[q] = cursor[q],
           NEW p, p \notin Between \cup {"claim"}, GoesOn(t, p)
    PROVE  WorkStep(t, r)
BY DEF WorkStep, GoesOn

LEMMA AgreeRecord ==
    ASSUME AgreeContext, NEW t \in Threads, RecordResourceLeases(t)
    PROVE  AgreeInv'
<1> PICK r \in Requests : tick[t].req = r BY AtWork DEF AgreeContext, Between, RecordResourceLeases
<1>1. TypeInv /\ TypeOK /\ ThreadOK(t) /\ tick[t] \in Tick BY DEF AgreeContext, TypeInv, TypeOK
<1>2. /\ tick[t].pc = "record" /\ tick[t].pc \notin Between \cup {"claim"}
      /\ row' = row /\ cursor' = cursor /\ call' = call
  BY DEF RecordResourceLeases, Between
<1>4. Active(r) /\ row[r].result = "run" => cursor'[r].phase = "completed"
  BY <1>2 DEF AgreeContext, AgreeInv, ResultLast
<1>5. CASE EndTick(t) BY <1>1, <1>2, <1>4, <1>5, RestIsWork, SameRowAgrees
<1>6. CASE tick[t].then # Rest(t).pc /\ ~EndTick(t)
  <2>1. tick' = [tick EXCEPT ![t].pc = tick[t].then, ![t].then = "idle"]
    BY <1>6 DEF RecordResourceLeases
  <2>2. GoesOn(t, tick[t].then) /\ tick'[t].cur = tick[t].cur
    BY <1>1, <2>1 DEF TypeOK, Tick, GoesOn
  <2>3. tick[t].then \in {"start_cursor", "load", "work"} BY <1>1, <1>2, <1>6 DEF ThreadOK
  <2>4. WorkStep(t, r) BY <1>2, <2>2, <2>3, GoOnIsWork DEF Between
  <2>5. ASSUME Holds(t, r)', Active(r) PROVE HeldCursor(t, r)'
    BY <1>2, <2>2, <2>5, <2>3 DEF Holds, GoesOn, AgreeContext, AgreeInv, CursorHeld, HeldCursor,
       Working
  <2> QED BY <1>2, <1>4, <2>4, <2>5, SameRowAgrees
<1> QED BY <1>5, <1>6 DEF RecordResourceLeases

LEMMA AgreeHeartbeat ==
    ASSUME AgreeContext, NEW t \in Threads, Heartbeat(t)
    PROVE  AgreeInv'
<1> PICK r \in Requests : tick[t].req = r BY AtWork DEF AgreeContext, Between, Heartbeat
<1>1. TypeInv /\ TypeOK /\ ThreadOK(t) /\ tick[t] \in Tick BY DEF AgreeContext, TypeInv, TypeOK
<1>2. /\ tick[t].pc = "heartbeat" /\ tick[t].pc \notin Between \cup {"claim"}
      /\ row' = row /\ cursor' = cursor /\ call' = call
  BY DEF Heartbeat, Between
<1>4. Active(r) /\ row[r].result = "run" => cursor'[r].phase = "completed"
  BY <1>2 DEF AgreeContext, AgreeInv, ResultLast
<1>5. GoesOn(t, "load") \/ (GoesOn(t, "record") /\ tick'[t].then = "load")
  BY <1>1 DEF Heartbeat, Goto, GotoRecord, TypeOK, Tick, GoesOn
<1>6. WorkStep(t, r) BY <1>2, <1>5, GoOnIsWork DEF Between
<1>7. HeldCursor(t, r)' BY <1>5 DEF HeldCursor, Working, GoesOn
<1> QED BY <1>2, <1>4, <1>6, <1>7, SameRowAgrees

LEMMA AgreeStartCursor ==
    ASSUME AgreeContext, NEW t \in Threads, StartCursor(t)
    PROVE  AgreeInv'
<1> PICK r \in Requests : tick[t].req = r BY AtWork DEF AgreeContext, Between, StartCursor
<1> DEFINE k == LoadOrNew(cursor[r])
<1>1. TypeInv /\ TypeOK /\ tick[t] \in Tick BY DEF AgreeContext, TypeInv, TypeOK
<1>2. /\ tick[t].pc = "start_cursor" /\ tick[t].pc \notin Between \cup {"claim"}
      /\ row' = row /\ call' = call
  BY DEF StartCursor, Between
<1>3. cursor[r] \in Cursor BY <1>1 DEF TypeOK
<1>4. /\ \A q \in Requests \ {r} : cursor'[q] = cursor[q]
      /\ cursor'[r] = cursor[r] \/ cursor'[r] = k
  BY <1>1, <1>3 DEF StartCursor, TypeOK
<1>5. cursor[r].phase = "completed" => cursor'[r].phase = "completed"
  BY <1>3, <1>4 DEF LoadOrNew, Cursor
<1>6. Active(r) /\ row[r].result = "run" => cursor'[r].phase = "completed"
  BY <1>3, <1>5 DEF AgreeContext, AgreeInv, ResultLast
<1>7. CASE EndTick(t) BY <1>1, <1>2, <1>3, <1>4, <1>6, <1>7, RestIsWork, SameRowAgrees
<1>8. CASE /\ cursor' = [cursor EXCEPT ![r] = k]
           /\ tick' = [tick EXCEPT ![t].pc = "start_save", ![t].cur = k]
  <2>1. cursor'[r] = k BY <1>1, <1>3, <1>8 DEF TypeOK
  <2> HIDE DEF k
  <2>2. GoesOn(t, "start_save") /\ tick'[t].cur = k BY <1>1, <1>8 DEF TypeOK, Tick, GoesOn
  <2>3. WorkStep(t, r) BY <1>2, <1>4, <2>2, GoOnIsWork DEF Between
  <2>4. HeldCursor(t, r)' BY <2>1, <2>2 DEF HeldCursor, Working, GoesOn
  <2> QED BY <1>2, <1>6, <2>3, <2>4, SameRowAgrees
<1> QED BY <1>7, <1>8 DEF StartCursor

\* What is saved is what was loaded: nobody else writes while the request is active.
LEMMA AgreeStartSave ==
    ASSUME AgreeContext, NEW t \in Threads, StartSave(t)
    PROVE  AgreeInv'
<1> PICK r \in Requests : tick[t].req = r BY AtWork DEF AgreeContext, Between, StartSave
<1> DEFINE k == [tick[t].cur EXCEPT !.prev = "none"]
<1>1. TypeInv /\ TypeOK /\ tick[t] \in Tick /\ OneStepCall /\ OnceInv /\ AgreeInv
  BY DEF AgreeContext, TypeInv, TypeOK
<1>2. /\ tick[t].pc = "start_save" /\ tick[t].pc \notin Between \cup {"claim"}
      /\ row' = row /\ call' = call /\ EndTick(t)
  BY DEF StartSave, Between
<1>3. cursor[r] \in Cursor /\ k \in Cursor /\ k.phase = tick[t].cur.phase
  BY <1>1 DEF TypeOK, Tick, Cursor
<1>4. cursor' = [cursor EXCEPT ![r] = Persist(cursor[r], k)] BY DEF StartSave
<1>5. /\ \A q \in Requests \ {r} : cursor'[q] = cursor[q]
      /\ cursor'[r] = cursor[r] \/ cursor'[r] = k
  BY <1>1, <1>3, <1>4 DEF TypeOK, Persist
<1>6. Active(r) => cursor[r] = tick[t].cur
  <2> SUFFICES ASSUME Active(r) PROVE cursor[r] = tick[t].cur OBVIOUS
  <2>1. Holds(t, r) BY <1>1, <1>2, Alone
  <2> QED BY <1>1, <1>2, <2>1 DEF AgreeInv, CursorHeld, HeldCursor
<1> HIDE DEF k
<1>7. Active(r) /\ row[r].result = "run" => cursor'[r].phase = "completed"
  BY <1>1, <1>3, <1>5, <1>6 DEF AgreeInv, ResultLast
<1> QED BY <1>1, <1>2, <1>5, <1>7, RestIsWork, SameRowAgrees

LEMMA AgreeLoadCursor ==
    ASSUME AgreeContext, NEW t \in Threads, LoadCursor(t)
    PROVE  AgreeInv'
<1> PICK r \in Requests : tick[t].req = r BY AtWork DEF AgreeContext, Between, LoadCursor
<1> DEFINE k == LoadOrNew(cursor[r])
<1>1. TypeInv /\ TypeOK /\ tick[t] \in Tick BY DEF AgreeContext, TypeInv, TypeOK
<1>2. /\ tick[t].pc = "load" /\ tick[t].pc \notin Between \cup {"claim"}
      /\ row' = row /\ call' = call
  BY DEF LoadCursor, Between
<1>3. cursor[r] \in Cursor BY <1>1 DEF TypeOK
<1>4. cursor' = cursor \/ cursor' = [cursor EXCEPT ![r] = k] BY DEF LoadCursor
<1>5. /\ \A q \in Requests \ {r} : cursor'[q] = cursor[q]
      /\ cursor'[r] = cursor[r] \/ cursor'[r] = k
  BY <1>1, <1>3, <1>4 DEF TypeOK
<1>6. cursor[r].phase = "completed" => cursor'[r].phase = "completed" /\ k.phase = "completed"
  BY <1>5 DEF LoadOrNew
<1>7. Active(r) /\ row[r].result = "run" => cursor'[r].phase = "completed" /\ k.phase = "completed"
  BY <1>3, <1>6 DEF AgreeContext, AgreeInv, ResultLast
<1>8. CASE EndTick(t) BY <1>1, <1>2, <1>3, <1>5, <1>7, <1>8, RestIsWork, SameRowAgrees
<1>9. CASE /\ cursor' = [cursor EXCEPT ![r] = k] /\ k.phase \notin TerminalPhase
           /\ tick' = [tick EXCEPT ![t].pc = "check", ![t].cur = k]
  <2>1. cursor'[r] = k BY <1>1, <1>3, <1>9 DEF TypeOK
  <2> HIDE DEF k
  <2>2. GoesOn(t, "check") /\ tick'[t].cur = k BY <1>1, <1>9 DEF TypeOK, Tick, GoesOn
  <2>3. WorkStep(t, r) BY <1>2, <1>5, <2>2, GoOnIsWork DEF Between
  <2>4. Active(r) => row[r].result # "run" BY <1>7, <1>9 DEF TerminalPhase
  <2>5. Active(r) => HeldCursor(t, r)' BY <1>2, <2>1, <2>2, <2>4 DEF HeldCursor, Working, GoesOn
  <2> QED BY <1>2, <1>3, <1>7, <2>3, <2>5, SameRowAgrees
<1>10. CASE /\ cursor' = [cursor EXCEPT ![r] = k] /\ k.phase \in TerminalPhase
            /\ tick' = [tick EXCEPT ![t].pc = IF k.phase = "completed" THEN "result" ELSE "finish",
                                    ![t].out = k.phase]
  <2>1. cursor'[r] = k BY <1>1, <1>3, <1>10 DEF TypeOK
  <2> HIDE DEF k
  <2>2. GoesOn(t, "finish") \/ (GoesOn(t, "result") /\ k.phase = "completed")
    BY <1>1, <1>10 DEF TypeOK, Tick, GoesOn
  <2>3. WorkStep(t, r) BY <1>2, <1>5, <2>2, GoOnIsWork DEF Between
  <2>4. HeldCursor(t, r)' BY <2>1, <2>2 DEF HeldCursor, Working, GoesOn
  <2> QED BY <1>2, <1>3, <1>7, <2>3, <2>4, SameRowAgrees
<1> QED BY <1>8, <1>9, <1>10 DEF LoadCursor

LEMMA AgreeCheckCancelled ==
    ASSUME AgreeContext, NEW t \in Threads, CheckCancelled(t)
    PROVE  AgreeInv'
<1> PICK r \in Requests : tick[t].req = r BY AtWork DEF AgreeContext, Between, CheckCancelled
<1> DEFINE go == IF tick[t].cur.phase = "paused" THEN Rest(t).pc ELSE "work"
<1>1. TypeInv /\ TypeOK /\ tick[t] \in Tick /\ LeaseInv /\ OnceInv /\ AgreeInv
  BY DEF AgreeContext, TypeInv, TypeOK
<1>2. /\ tick[t].pc = "check" /\ tick[t].pc \notin Between \cup {"claim"}
      /\ row' = row /\ cursor' = cursor /\ call' = call
  BY DEF CheckCancelled, Between
<1>4. Active(r) /\ row[r].result = "run" => cursor'[r].phase = "completed"
  BY <1>1, <1>2 DEF AgreeInv, ResultLast
<1>5. Active(r) => CanHeartbeat(row[r], tick[t].lease) /\ row[r].status # "cancelled"
  BY <1>1, <1>2, GuardIsHolder DEF CanHeartbeat, OnceInv, NeverRequeued, Active, ActiveStatus
<1>6. Active(r) /\ Holds(t, r) => HeldCursor(t, r) BY <1>1 DEF AgreeInv, CursorHeld
<1>7. CASE EndTick(t) BY <1>1, <1>2, <1>4, <1>7, RestIsWork, SameRowAgrees
<1>8. CASE /\ row[r].status = "cancelled" \/ ~CanHeartbeat(row[r], tick[t].lease)
           /\ \E o : tick' = [tick EXCEPT ![t].pc = "abort", ![t].out = o]
  BY <1>1, <1>8, <1>2, GoOnIsWork, <1>5, <1>4, SameRowAgrees DEF TypeOK, Tick, GoesOn, Between
<1>9. CASE Goto(t, "work") \/ GotoRecord(t, go)
  <2>1. Rest(t).pc # "work" /\ (go = "work" \/ go = Rest(t).pc) BY RestingTick
  <2> HIDE DEF go
  <2>2. /\ GoesOn(t, "work") \/ (GoesOn(t, "record") /\ tick'[t].then = go)
        /\ tick'[t].cur = tick[t].cur
    BY <1>1, <1>9 DEF Goto, GotoRecord, TypeOK, Tick, GoesOn
  <2>3. WorkStep(t, r) BY <1>2, <2>2, GoOnIsWork DEF Between
  <2>4. ASSUME Holds(t, r)', Active(r) PROVE HeldCursor(t, r)'
    BY <1>2, <2>2, <2>4, <1>6 DEF Holds, GoesOn, HeldCursor, Working
  <2> QED BY <1>2, <1>4, <2>3, <2>4, SameRowAgrees
<1> QED BY <1>7, <1>8, <1>9 DEF CheckCancelled

\* The end of an advance: over, or on to the settlement.
LEMMA Settled ==
    ASSUME TypeInv, NEW t \in Threads, NEW o, Settle(t, o)
    PROVE  EndTick(t) \/ GoesOn(t, "finish") \/ (GoesOn(t, "result") /\ o = "completed")
BY DEF TypeInv, TypeOK, Settle, Tick, GoesOn

\* The four ways in which an advance ends.
LEMMA AgreeAdvance ==
    ASSUME AgreeContext, NEW t \in Threads,
           Abort(t) \/ Advance(t) \/ AdvanceFails(t) \/ AdvanceErrs(t)
    PROVE  AgreeInv'
<1> PICK r \in Requests : tick[t].req = r BY AtWork DEF AgreeContext, Between, Abort, Advance, AdvanceFails, AdvanceErrs
<1>1. TypeInv /\ TypeOK /\ ThreadOK(t) /\ tick[t] \in Tick /\ OneStepCall /\ OnceInv /\ AgreeInv
  BY DEF AgreeContext, TypeInv, TypeOK
<1>2. /\ tick[t].pc \in {"abort", "work"} /\ tick[t].pc \notin Between \cup {"claim"}
      /\ row' = row /\ call' = call
  BY DEF Abort, Advance, AdvanceFails, AdvanceErrs, Between
<1>3. cursor[r] \in Cursor BY <1>1 DEF TypeOK
<1>4. cursor' = cursor \/ \E p : SaveCursor(t, p)
  BY DEF Abort, Advance, AdvanceFails, AdvanceErrs
<1>5. \A q \in Requests \ {r} : cursor'[q] = cursor[q] BY <1>1, <1>4 DEF SaveCursor, TypeOK
<1>6. Active(r) => /\ Holds(t, r) /\ HeldCursor(t, r) /\ tick[t].pc = "work"
                   /\ cursor[r] = tick[t].cur /\ row[r].result # "run"
  BY <1>1, <1>2, Alone, <1>3 DEF AgreeInv, CursorHeld, HeldCursor, Working
<1>7. CASE EndTick(t) BY <1>1, <1>2, <1>3, <1>5, <1>6, <1>7, RestIsWork, SameRowAgrees
<1>8. CASE GoesOn(t, "finish")
  BY <1>2, <1>5, <1>8, GoOnIsWork, <1>3, <1>6, SameRowAgrees DEF Between, HeldCursor, Working,
     GoesOn
<1>9. CASE GoesOn(t, "result") /\ (Active(r) => cursor'[r].phase = "completed")
  BY <1>2, <1>5, <1>9, GoOnIsWork, <1>3, <1>6, SameRowAgrees DEF Between, HeldCursor, Working,
     GoesOn
<1>10. CASE Abort(t)
  BY <1>6, <1>10, <1>1, <1>7, <1>8, <1>9, Settled DEF Abort
<1>11. CASE Advance(t)
  <2> DEFINE p == NextPhase[tick[t].cur.phase]
             k == [seq |-> tick[t].cur.seq + 1, phase |-> p, prev |-> "none"]
  <2>1. EndTick(t) \/ (Settle(t, p) /\ p = "completed") BY <1>11 DEF Advance
  <2>2. cursor' = [cursor EXCEPT ![r] = Persist(cursor[r], k)] BY <1>11 DEF Advance, SaveCursor
  <2>3. k.phase = p /\ k.seq = tick[t].cur.seq + 1 OBVIOUS
  <2> HIDE DEF k, p
  <2>4. cursor'[r] = Persist(cursor[r], k) BY <1>1, <1>3, <2>2 DEF TypeOK
  <2>5. ASSUME Active(r) PROVE cursor'[r].phase = p
    BY <1>1, <1>3, <1>6, <2>5, <2>3, <2>4 DEF ThreadOK, Cursor, Persist, WorkPhase
  <2> QED BY <1>1, <1>7, <1>8, <1>9, <2>1, <2>5, Settled
<1>12. CASE AdvanceFails(t) \/ AdvanceErrs(t)
  BY <1>1, <1>7, <1>8, <1>12, Settled DEF AdvanceFails, AdvanceErrs
<1> QED BY <1>10, <1>11, <1>12

\* Starting and finishing an attempt: the row changes, its result does not.
LEMMA AgreeStartOrFinish ==
    ASSUME AgreeContext, NEW t \in Threads, ThreadStep(t), StartRunRequest(t) \/ FinishRunRequest(t)
    PROVE  AgreeInv'
<1> PICK r \in Requests : tick[t].req = r
  BY AtWork DEF AgreeContext, Between, StartRunRequest, FinishRunRequest
<1>1. TypeInv /\ TypeOK /\ tick[t] \in Tick /\ OneStepCall /\ OnceInv /\ AgreeInv /\ TypeInv'
  BY DEF AgreeContext, TypeInv, TypeOK
<1>2. /\ tick[t].pc \in {"start", "finish"} /\ tick[t].pc \notin Between \cup {"claim"}
      /\ cursor' = cursor /\ call' = call
  BY DEF StartRunRequest, FinishRunRequest, Between
<1>3. ~CompleteRunRequest(t) /\ ~ClaimQueued(t) BY <1>2 DEF CompleteRunRequest, ClaimQueued, Between
<1>4. /\ CalmChange(row[r], row'[r]) /\ Modest(row[r], row'[r]) /\ Kept(row[r], row'[r])
  BY <1>1, <1>3, CalmThread, ModestThread, WorkingRows
     DEF OnceInv, CalmRows, RowsModest, RowsChanged, Change
<1>5. row[r] \in Row /\ tick[t].lease \in Lease BY <1>1 DEF TypeOK, Tick
<1>6. \/ row' = row
      \/ row' = [row EXCEPT ![r] = MarkStartedForLease(row[r], tick[t].lease)]
      \/ row' = [row EXCEPT ![r] = MarkFailedForLease(row[r], tick[t].lease)]
      \/ row' = [row EXCEPT ![r] = MarkCancelledForLease(row[r], tick[t].lease)]
  BY DEF StartRunRequest, FinishRunRequest, SetRow, SettleRow
<1>7. /\ \A q \in Requests \ {r} : row'[q] = row[q]
      /\ \/ row'[r] = row[r]
         \/ row'[r] = MarkStartedForLease(row[r], tick[t].lease)
         \/ row'[r] = MarkFailedForLease(row[r], tick[t].lease)
         \/ row'[r] = MarkCancelledForLease(row[r], tick[t].lease)
  BY <1>1, <1>6 DEF TypeOK
<1>8. row'[r].result = row[r].result /\ (row'[r].status = "deleted" => row[r].status = "deleted")
  BY <1>5, <1>7 DEF MarkStartedForLease, MarkFailedForLease, MarkCancelledForLease, Released, Row
<1>9. Active(r)' /\ row'[r].result = "run" => cursor'[r].phase = "completed"
  BY <1>1, <1>2, <1>4, <1>8 DEF AgreeInv, ResultLast, CalmChange, Active
<1>10. CASE EndTick(t)
  BY <1>1, <1>2, <1>4, <1>7, <1>8, <1>9, <1>10, RestIsWork, WorkAgrees
<1>11. CASE GotoRecord(t, "start_cursor")
  <2>1. GoesOn(t, "record") /\ tick'[t].then = "start_cursor"
    BY <1>1, <1>11 DEF GotoRecord, TypeOK, Tick, GoesOn
  <2>2. WorkStep(t, r) BY <1>2, <1>7, <2>1, GoOnIsWork DEF Between
  <2>3. HeldCursor(t, r)' BY <2>1 DEF HeldCursor, Working, GoesOn
  <2> QED BY <1>1, <1>2, <1>4, <1>8, <1>9, <2>2, <2>3, WorkAgrees
<1> QED BY <1>10, <1>11 DEF StartRunRequest, FinishRunRequest

\* A row of an active request changes under its only holder.
LEMMA AgreeRecordRunResult ==
    ASSUME AgreeContext, NEW t \in Threads, RecordRunResult(t)
    PROVE  AgreeInv'
<1> PICK r \in Requests : tick[t].req = r BY AtWork DEF AgreeContext, Between, RecordRunResult
<1>1. /\ TypeInv /\ TypeOK /\ tick[t] \in Tick /\ OneStepCall /\ LeaseInv /\ OnceInv
      /\ AgreeInv /\ TypeInv' /\ row[r] \in Row
  BY DEF AgreeContext, TypeInv, TypeOK
<1>2. /\ tick[t].pc = "result" /\ tick[t].pc \notin Between \cup {"claim"}
      /\ cursor' = cursor /\ call' = call
      /\ row' = [row EXCEPT ![r] = RecordResultForLease(row[r], tick[t].lease)]
  BY DEF RecordRunResult, Between, SetRow
<1>3. HoldsLease(row[r], tick[t].lease) <=> Active(r) BY <1>1, <1>2, GuardIsHolder
<1>4. CASE ~Active(r)
  BY <1>1, <1>2, <1>3, <1>4, RestIsWork, SameRowAgrees DEF RecordRunResult, RecordResultForLease,
     TypeOK
<1>5. CASE Active(r)
  <2>1. /\ \A q \in Requests \ {r} : row'[q] = row[q]
        /\ row'[r].status = row[r].status /\ row'[r].worker = row[r].worker
    BY <1>1, <1>2, <1>3, <1>5 DEF RecordResultForLease, TypeOK, Row
  <2>2. GoesOn(t, "complete")
    BY <1>1, <1>3, <1>5 DEF RecordRunResult, Goto, TypeOK, Tick, GoesOn
  <2>3. WorkStep(t, r) BY <1>2, <2>1, <2>2, GoOnIsWork DEF Between
  <2>4. /\ Holds(t, r) /\ \A s \in Threads \ {t} : ~Holds(s, r) /\ WorkerId(s) # row[r].worker
        /\ \A s \in Threads : ~Sweeps(s, r)
    BY <1>1, <1>2, <1>5, Alone
  <2>5. cursor[r].phase = "completed"
    BY <1>1, <1>2, <1>5, <2>4 DEF AgreeInv, CursorHeld, HeldCursor
  <2>6. Holds(t, r)' BY <2>2, <2>4 DEF Holds, GoesOn
  <2>7. \A s \in Threads \ {t} : ~Holds(s, r)' BY <2>2, <2>4 DEF Holds, GoesOn
  <2>8. \A s \in Threads : ~Sweeps(s, r)' BY <2>2, <2>4, <2>6 DEF Sweeps, GoesOn, Holds
  <2>9. AgreeAt(r) /\ row'[r].status \notin {"queued", "deleted"} /\ (Active(r)' <=> Active(r))
    BY <1>1, <1>5, <2>1, AgreePointwise DEF Active, ActiveStatus
  <2>10. HeldCursor(t, r)' BY <2>2 DEF HeldCursor, Working, GoesOn
  <2>11. AgreeAt(r)'
    BY <1>2, <2>1, <2>2, <2>4, <2>5, <2>6, <2>7, <2>8, <2>9, <2>10 DEF AgreeAt, GoesOn
  <2> QED BY <1>1, <2>3, <2>11, OtherRequest, AgreePrimed
<1> QED BY <1>4, <1>5

LEMMA AgreeComplete ==
    ASSUME AgreeContext, NEW t \in Threads, CompleteRunRequest(t)
    PROVE  AgreeInv'
<1> PICK r \in Requests : tick[t].req = r BY AtWork DEF AgreeContext, Between, CompleteRunRequest
<1>1. /\ TypeInv /\ TypeOK /\ tick[t] \in Tick /\ OneStepCall /\ LeaseInv /\ OnceInv
      /\ AgreeInv /\ TypeInv' /\ row[r] \in Row
  BY DEF AgreeContext, TypeInv, TypeOK
<1>2. /\ tick[t].pc = "complete" /\ tick[t].pc \notin Between \cup {"claim"}
      /\ cursor' = cursor /\ call' = call /\ EndTick(t)
  BY DEF CompleteRunRequest, Between
<1>3. HoldsLease(row[r], tick[t].lease) <=> Active(r) BY <1>1, <1>2, GuardIsHolder
<1>4. AgreeAt(r) BY <1>1, AgreePointwise
<1>5. CASE ~Active(r)
  <2>1. row' = row BY <1>3, <1>5 DEF CompleteRunRequest
  <2>2. WorkStep(t, r) /\ ~Holds(t, r)' BY <1>1, <1>2, <2>1, RestIsWork
  <2>3. ASSUME NEW s \in Threads
        PROVE  (Holds(s, r)' => Holds(s, r) /\ tick'[s] = tick[s]) /\ (Sweeps(s, r)' => Sweeps(s, r))
    BY <2>2 DEF WorkStep, Holds, Sweeps
  <2>4. (RunDone(r)' <=> RunDone(r)) /\ ~Active(r)' BY <1>2, <1>5, <2>1 DEF RunDone, Stopping, Active
  <2>5. AgreeAt(r)' BY <1>2, <1>4, <2>1, <2>3, <2>4 DEF AgreeAt
  <2> QED BY <1>1, <2>2, <2>5, OtherRequest, AgreePrimed
<1>6. CASE Active(r)
  <2>1. row' = [row EXCEPT ![r] = Released(row[r], "completed")]
    BY <1>3, <1>6 DEF CompleteRunRequest, SettleRow, MarkCompletedForLease
  <2>2. /\ \A q \in Requests \ {r} : row'[q] = row[q]
        /\ row'[r].status = "completed" /\ row'[r].result = row[r].result
    BY <1>1, <2>1 DEF Released, TypeOK, Row
  <2>3. WorkStep(t, r) /\ ~Holds(t, r)' BY <1>1, <1>2, <2>2, RestIsWork
  <2>4. \A s \in Threads : ~Holds(s, r)' /\ ~Sweeps(s, r)'
    BY <1>1, <1>2, <1>6, <2>3, Alone DEF WorkStep, Holds, Sweeps
  <2>5. ~Active(r)' /\ row'[r].status \in TerminalStatus BY <2>2 DEF Active, ActiveStatus, TerminalStatus
  <2>6. AgreeAt(r)'
    BY <1>2, <1>4, <1>6, <2>2, <2>4, <2>5 DEF AgreeAt, RunDone
  <2> QED BY <1>1, <2>3, <2>6, OtherRequest, AgreePrimed
<1> QED BY <1>5, <1>6

\* The claim: nobody has been at work on the request.
LEMMA AgreeClaim ==
    ASSUME AgreeContext, NEW t \in Threads, ClaimQueued(t)
    PROVE  AgreeInv'
<1>1. /\ TypeInv /\ TypeOK /\ tick[t] \in Tick /\ ThreadOK(t) /\ OneStepCall /\ LeaseInv /\ OnceInv
      /\ AgreeInv /\ TypeInv'
  BY DEF AgreeContext, TypeInv, TypeOK
<1>2. tick[t].pc = "claim" /\ cursor' = cursor /\ call' = call BY DEF ClaimQueued
<1> PICK r \in Requests : tick[t].req = r BY <1>1, <1>2 DEF ThreadOK
<1>3. row[r] \in Row /\ tick[t].lease # NoLease
  BY <1>1, <1>2 DEF TypeOK, LeaseInv, LeaseNames
<1>4. row' = [row EXCEPT ![r] = Claim(row[r], tick[t].lease, WorkerId(t))]
  BY DEF ClaimQueued, SetRow
<1>5. \A q \in Requests \ {r} : row'[q] = row[q] BY <1>1, <1>4 DEF TypeOK
<1>6. \A q \in Requests : ~Holds(t, q) /\ ~Sweeps(t, q) BY <1>2, <1>3 DEF Holds, Sweeps
<1>7. ASSUME NEW q \in Requests, row'[q] = row[q],
             \A s \in Threads \ {t} : tick'[s] = tick[s], ~Holds(t, q)', ~Sweeps(t, q)'
      PROVE  AgreeAt(q)'
  BY <1>1, AgreePointwise, <1>2, <1>7, <1>6 DEF RunDone, Stopping, Active, Holds, Sweeps,
     HeldCursor, Working, AgreeAt
<1>8. CASE row[r].status # "queued"
  <2>1. EndTick(t) BY <1>8 DEF ClaimQueued
  <2>2. row'[r] = row[r] BY <1>1, <1>3, <1>4, <1>8 DEF TypeOK, Claim
  <2>3. tick'[t] = Rest(t) /\ \A s \in Threads \ {t} : tick'[s] = tick[s] BY <1>1, <2>1, EndTickTypes
  <2>4. \A q \in Requests : ~Holds(t, q)' /\ ~Sweeps(t, q)'
    BY <2>3, RestingTick DEF Holds, Sweeps, Between
  <2> QED BY <1>1, <1>5, <1>7, <2>2, <2>3, <2>4, AgreePrimed
<1>9. CASE row[r].status = "queued"
  <2>1. GotoRecord(t, Rest(t).pc) BY <1>9 DEF ClaimQueued
  <2>2. GoesOn(t, "record") /\ tick'[t].then = Rest(t).pc
    BY <1>1, <2>1 DEF GotoRecord, TypeOK, Tick, GoesOn
  <2>3. ASSUME NEW q \in Requests, q # r PROVE AgreeAt(q)'
    BY <1>3, <1>5, <1>7, <2>2, <2>3 DEF GoesOn, Holds, Sweeps
  <2>4. /\ row'[r].status = "leased" /\ row'[r].result = row[r].result
    BY <1>1, <1>3, <1>4, <1>9 DEF TypeOK, Row, Claim
  <2>5. AgreeAt(r) BY <1>1, AgreePointwise
  <2>6. row'[r].result # "run" BY <1>9, <2>4, <2>5 DEF AgreeAt
  <2>7. \A s \in Threads \ {t} : ~Holds(s, r) /\ ~Sweeps(s, r)
    BY <1>1, <1>9, <2>5 DEF AgreeAt, OnceInv, LeasedOnce
  <2>8. \A s \in Threads \ {t} : ~Holds(s, r)' /\ ~Sweeps(s, r)'
    BY <2>2, <2>7 DEF GoesOn, Holds, Sweeps
  <2>9. ~Sweeps(t, r)' BY <1>3, <2>2 DEF GoesOn, Sweeps
  <2>10. HeldCursor(t, r)' BY <2>2, RestingTick DEF HeldCursor, Working, GoesOn
  <2>11. ASSUME NEW c \in Calls, call'[c].req = r
         PROVE  call'[c].pc \notin {"delete_storage", "delete_row"}
    BY <1>2, <1>9, <2>5, <2>11 DEF AgreeAt, TerminalStatus
  <2>12. ~RunDone(r)' BY <2>6 DEF RunDone
  <2>13. AgreeAt(r)'
    BY <2>4, <2>6, <2>8, <2>9, <2>10, <2>11, <2>12 DEF AgreeAt
  <2> QED BY <1>1, <2>3, <2>13, AgreePrimed
<1> QED BY <1>8, <1>9

\* What a worker reads before it works.
LEMMA AgreeReads ==
    ASSUME AgreeContext, NEW t \in Threads,
           StepRun(t) \/ ActiveRunRequest(t) \/ FindCancelled(t) \/ SelectQueued(t)
    PROVE  AgreeInv'
<1>1. /\ TypeInv /\ TypeOK /\ tick[t] \in Tick /\ ThreadOK(t) /\ OneStepCall /\ LeaseInv /\ OnceInv
      /\ AgreeInv /\ TypeInv'
  BY DEF AgreeContext, TypeInv, TypeOK
<1>2. Recover /\ cursor' = cursor /\ call' = call
  BY DEF StepRun, ActiveRunRequest, FindCancelled, SelectQueued
<1>3. row' = row /\ Recovered = row BY <1>1, <1>2, CalmRecover DEF OnceInv
<1>4. tick[t].lease = NoLease /\ tick[t].pc \in Between
  BY <1>1 DEF StepRun, ActiveRunRequest, FindCancelled, SelectQueued, ThreadOK, Between
<1>5. \A q \in Requests : ~Holds(t, q) /\ ~Sweeps(t, q) BY <1>4 DEF Holds, Sweeps
<1>6. ASSUME \A s \in Threads \ {t} : tick'[s] = tick[s],
             \A q \in Requests : Sweeps(t, q)' => row[q].status = "cancelled" /\ ~RunDone(q),
             \A q \in Requests : Holds(t, q)' =>
                /\ Active(q) /\ WorkerId(t) = row[q].worker
                /\ tick'[t].pc \in {"start", "heartbeat"}
      PROVE  AgreeInv'
  <2> SUFFICES ASSUME NEW q \in Requests PROVE AgreeAt(q)' BY <1>1, AgreePrimed
  <2>1. AgreeAt(q) BY <1>1, AgreePointwise
  <2>2. (RunDone(q)' <=> RunDone(q)) /\ (Active(q)' <=> Active(q)) /\ row'[q] = row[q]
    BY <1>2, <1>3 DEF RunDone, Stopping, Active
  <2>3. \A s \in Threads \ {t} :
           /\ (Holds(s, q)' <=> Holds(s, q)) /\ (Sweeps(s, q)' <=> Sweeps(s, q))
           /\ tick'[s] = tick[s] /\ (HeldCursor(s, q)' <=> HeldCursor(s, q))
    BY <1>2, <1>6, <2>2 DEF Holds, Sweeps, HeldCursor, Working
  <2>4. Holds(t, q)' => HeldCursor(t, q)' /\ ~RunDone(q)
    BY <1>5, <1>6, <2>1 DEF HeldCursor, Working, AgreeAt
  <2>5. Sweeps(t, q)' => row[q].status # "queued" /\ ~Active(q) /\ ~RunDone(q)
    BY <1>6 DEF Active, ActiveStatus
  <2>6. RunDone(q) /\ Active(q) => WorkerId(t) # row[q].worker BY <1>5, <2>1 DEF AgreeAt
  <2> QED BY <1>2, <2>1, <2>2, <2>3, <2>4, <2>5, <2>6 DEF AgreeAt
<1>7. CASE /\ \A s \in Threads \ {t} : tick'[s] = tick[s]
           /\ \/ tick'[t].lease = NoLease /\ tick'[t].pc \in Between
              \/ tick'[t].lease # NoLease /\ tick'[t].pc = "claim"
  BY <1>6, <1>7 DEF Holds, Sweeps
<1>8. CASE StepRun(t)
  <2>1. PICK p \in {"idle", "done"} : tick' = [tick EXCEPT ![t] = Resting(p)]
    BY <1>8 DEF StepRun
  <2> QED BY <1>1, <1>7, <2>1 DEF TypeOK, Resting, Between
<1>9. CASE \E p \in {"find_cancelled", "select"} : Goto(t, p)
  BY <1>1, <1>4, <1>7, <1>9 DEF Goto, TypeOK, Tick, Between
<1>10. CASE EndTick(t)
  BY <1>1, <1>10, EndTickTypes, <1>7, RestingTick DEF Between
<1>11. CASE \E r \in Requests, m \in Millis :
              tick' = [tick EXCEPT ![t].pc = "claim", ![t].req = r,
                                   ![t].lease = <<WorkerId(t), m>>]
  BY <1>1, <1>7, <1>11, WorkerIds, LeaseIds DEF TypeOK, Tick
<1>12. CASE \E r \in Requests :
              /\ row[r].status \in ActiveStatus /\ row[r].worker = WorkerId(t)
              /\ tick' = [tick EXCEPT
                    ![t].pc    = IF row[r].status = "leased" THEN "start" ELSE "heartbeat",
                    ![t].req   = r,
                    ![t].lease = row[r].lease]
  <2>1. PICK r \in Requests :
              /\ row[r].status \in ActiveStatus /\ row[r].worker = WorkerId(t)
              /\ tick' = [tick EXCEPT
                    ![t].pc    = IF row[r].status = "leased" THEN "start" ELSE "heartbeat",
                    ![t].req   = r,
                    ![t].lease = row[r].lease]
    BY <1>12
  <2>2. /\ \A s \in Threads \ {t} : tick'[s] = tick[s]
        /\ tick'[t].req = r /\ tick'[t].lease = row[r].lease
        /\ tick'[t].pc \in {"start", "heartbeat"}
    BY <1>1, <2>1 DEF TypeOK, Tick
  <2>3. row[r].lease # NoLease BY <1>1, <2>1 DEF LeaseInv, LeaseColumns
  <2> QED BY <1>6, <2>1, <2>2, <2>3 DEF Holds, Sweeps, Active
<1>13. CASE \E r \in Requests :
              /\ row[r].status = "cancelled" /\ cursor[r].phase \notin TerminalPhase \cup {"absent"}
              /\ tick' = [tick EXCEPT ![t].pc = "load", ![t].req = r]
  <2>1. PICK r \in Requests :
              /\ row[r].status = "cancelled" /\ cursor[r].phase \notin TerminalPhase \cup {"absent"}
              /\ tick' = [tick EXCEPT ![t].pc = "load", ![t].req = r]
    BY <1>13
  <2>2. /\ \A s \in Threads \ {t} : tick'[s] = tick[s]
        /\ tick'[t].req = r /\ tick'[t].lease = NoLease /\ tick'[t].pc = "load"
    BY <1>1, <1>4, <2>1 DEF TypeOK, Tick
  <2>3. ~RunDone(r) BY <1>1, <2>1 DEF AgreeInv, DoneLast, TerminalPhase
  <2> QED BY <1>6, <2>1, <2>2, <2>3 DEF Holds, Sweeps
<1>14. CASE ActiveRunRequest(t) BY <1>3, <1>9, <1>12, <1>14 DEF ActiveRunRequest
<1>15. CASE FindCancelled(t) BY <1>3, <1>9, <1>13, <1>15 DEF FindCancelled
<1>16. CASE SelectQueued(t) BY <1>10, <1>11, <1>16 DEF SelectQueued, Claimable
<1> QED BY <1>8, <1>14, <1>15, <1>16

\* Call c takes a step on request r, and nothing else happens.
CallWork(c, r) ==
    /\ call[c].req = r /\ call'[c].req \in {r, NoRequest}
    /\ \A d \in Calls \ {c} : call'[d] = call[d]
    /\ tick' = tick
    /\ \A q \in Requests \ {r} : row'[q] = row[q] /\ cursor'[q] = cursor[q]

\* The other requests are as they were.
LEMMA OtherCalled ==
    ASSUME AgreeInv, NEW c \in Calls, NEW r \in Requests, CallWork(c, r),
           NEW q \in Requests, q # r
    PROVE  AgreeAt(q)'
BY AgreePointwise, ServiceAssumption DEF CallWork, Stopping, RunDone, Active, Holds, Sweeps,
   HeldCursor, Working, AgreeAt

\* The shape of the last and of the inner statements of a call.
LEMMA CallMoves ==
    ASSUME TypeInv, NEW c \in Calls, call[c].req \in Requests
    PROVE  /\ EndCall(c) => /\ \A d \in Calls \ {c} : call'[d] = call[d]
                            /\ call'[c].pc = "done" /\ call'[c].req = NoRequest
           /\ \A p : GotoCall(c, p) => /\ \A d \in Calls \ {c} : call'[d] = call[d]
                                       /\ call'[c].pc = p /\ call'[c].req = call[c].req
BY DEF TypeInv, TypeOK, EndCall, GotoCall, CallAt, Call

\* Cancel, stop and delete: the statement decides without asking for a lease.
LEMMA AgreeCancel ==
    ASSUME AgreeContext, NEW c \in Calls, CancelRun(c)
    PROVE  AgreeInv'
<1>1. TypeInv /\ TypeOK /\ CallOK(c) /\ AgreeInv /\ TypeInv' BY DEF AgreeContext, TypeInv
<1> PICK r \in Requests : call[c].req = r BY <1>1 DEF CancelRun, CallOK
<1>2. /\ row' = [row EXCEPT ![r] = MarkCancelled(row[r])] /\ row[r] \in Row
      /\ cursor' = cursor /\ tick' = tick /\ call[c].pc = "cancel"
  BY <1>1 DEF CancelRun, SettleRow, TypeOK
<1>3. /\ \A d \in Calls \ {c} : call'[d] = call[d]
      /\ call'[c].pc = "done" /\ call'[c].req = NoRequest
  BY <1>1, CallMoves DEF CancelRun
<1>4. CallWork(c, r) BY <1>1, <1>2, <1>3 DEF CallWork, TypeOK
<1>5. AgreeAt(r) BY <1>1, AgreePointwise
<1>6. /\ row'[r].status = "cancelled" \/ row'[r] = row[r]
      /\ row'[r].result = row[r].result
  BY <1>1, <1>2 DEF MarkCancelled, Released, TypeOK, Row
<1>7. Stopping(r)' => Stopping(r) BY <1>3 DEF Stopping
<1>8. (RunDone(r)' => RunDone(r)) /\ (Active(r)' => row'[r] = row[r] /\ Active(r))
  BY <1>6, <1>7 DEF RunDone, Active, ActiveStatus
<1>9. \A s \in Threads : /\ Holds(s, r)' <=> Holds(s, r)
                         /\ Sweeps(s, r)' <=> Sweeps(s, r)
                         /\ Active(r)' => (HeldCursor(s, r)' <=> HeldCursor(s, r))
  BY <1>2, <1>6, <1>8 DEF Holds, Sweeps, HeldCursor, Working
<1>10. AgreeAt(r)'
  BY <1>2, <1>3, <1>5, <1>6, <1>8, <1>9 DEF AgreeAt, TerminalStatus
<1> QED BY <1>1, <1>4, <1>10, OtherCalled, AgreePrimed

LEMMA AgreeStopResult ==
    ASSUME AgreeContext, NEW c \in Calls, StopResult(c)
    PROVE  AgreeInv'
<1>1. TypeInv /\ TypeOK /\ CallOK(c) /\ AgreeInv /\ TypeInv' BY DEF AgreeContext, TypeInv
<1> PICK r \in Requests : call[c].req = r BY <1>1 DEF StopResult, CallOK
<1>2. /\ row' = [row EXCEPT ![r] = RecordResult(row[r])] /\ row[r] \in Row
      /\ cursor' = cursor /\ tick' = tick /\ row[r].status # "absent"
  BY <1>1 DEF StopResult, SetRow, TypeOK, CallOK
<1>3. /\ \A d \in Calls \ {c} : call'[d] = call[d]
      /\ call'[c].pc = "stop_row" /\ call'[c].req = r
  BY <1>1, CallMoves DEF StopResult
<1>4. CallWork(c, r) BY <1>1, <1>2, <1>3 DEF CallWork, TypeOK
<1>5. AgreeAt(r) BY <1>1, AgreePointwise
<1>6. row'[r] = RecordResult(row[r]) BY <1>1, <1>2 DEF TypeOK
<1>7. row'[r].status = row[r].status /\ row'[r].worker = row[r].worker /\ row'[r].result # "run"
  BY <1>2, <1>5, <1>6 DEF RecordResult, Exists, Row, AgreeAt
<1>8. ~RunDone(r)' /\ (Active(r)' <=> Active(r)) BY <1>7 DEF RunDone, Active
<1>9. \A s \in Threads : /\ Holds(s, r)' <=> Holds(s, r)
                         /\ Sweeps(s, r)' <=> Sweeps(s, r)
                         /\ HeldCursor(s, r) => HeldCursor(s, r)'
  BY <1>2, <1>7 DEF Holds, Sweeps, HeldCursor, Working
<1>10. AgreeAt(r)' BY <1>3, <1>5, <1>7, <1>8, <1>9 DEF AgreeAt
<1> QED BY <1>1, <1>4, <1>10, OtherCalled, AgreePrimed

LEMMA AgreeStopRow ==
    ASSUME AgreeContext, NEW c \in Calls, StopRow(c)
    PROVE  AgreeInv'
<1>1. TypeInv /\ TypeOK /\ CallOK(c) /\ AgreeInv /\ TypeInv' BY DEF AgreeContext, TypeInv
<1> PICK r \in Requests : call[c].req = r BY <1>1 DEF StopRow, CallOK
<1>2. /\ row' = [row EXCEPT ![r] = MarkCompleted(row[r])] /\ row[r] \in Row
      /\ cursor' = cursor /\ tick' = tick /\ row[r].status # "absent"
  BY <1>1 DEF StopRow, SettleRow, TypeOK, CallOK
<1>3. /\ \A d \in Calls \ {c} : call'[d] = call[d]
      /\ call'[c].pc = "done" /\ call'[c].req = NoRequest
  BY <1>1, CallMoves DEF StopRow
<1>4. CallWork(c, r) BY <1>1, <1>2, <1>3 DEF CallWork, TypeOK
<1>5. AgreeAt(r) /\ Stopping(r) BY <1>1, AgreePointwise DEF StopRow, Stopping
<1>6. row'[r] = MarkCompleted(row[r]) BY <1>1, <1>2 DEF TypeOK
<1>7. /\ row'[r].status = "completed" \/ (row'[r].status = "deleted" /\ row[r].status = "deleted")
      /\ row'[r].result = row[r].result
  <2>1. CASE Exists(row[r])
    <3>1. row'[r] = Released(row[r], "completed") BY <1>6, <2>1 DEF MarkCompleted
    <3>2. "completed" \in Statuses BY ReleaseStatuses
    <3> QED BY <1>2, <3>1, <3>2, ReleasedRow
  <2>2. CASE ~Exists(row[r]) BY <1>2, <1>6, <2>2 DEF MarkCompleted, Exists
  <2> QED BY <2>1, <2>2
<1>8. (RunDone(r)' => RunDone(r)) /\ ~Active(r)' BY <1>5, <1>7 DEF RunDone, Active, ActiveStatus
<1>9. \A s \in Threads : (Holds(s, r)' <=> Holds(s, r)) /\ (Sweeps(s, r)' <=> Sweeps(s, r))
  BY <1>2 DEF Holds, Sweeps
<1>10. AgreeAt(r)' BY <1>2, <1>3, <1>5, <1>7, <1>8, <1>9 DEF AgreeAt, TerminalStatus
<1> QED BY <1>1, <1>4, <1>10, OtherCalled, AgreePrimed

LEMMA AgreeDelete ==
    ASSUME AgreeContext, NEW c \in Calls, DeleteStorage(c) \/ DeleteRow(c)
    PROVE  AgreeInv'
<1>1. TypeInv /\ TypeOK /\ CallOK(c) /\ AgreeInv /\ TypeInv' BY DEF AgreeContext, TypeInv
<1> PICK r \in Requests : call[c].req = r BY <1>1 DEF DeleteStorage, DeleteRow, CallOK
<1>2. tick' = tick /\ call[c].pc \in {"delete_storage", "delete_row"} BY DEF DeleteStorage, DeleteRow
<1>3. /\ \A d \in Calls \ {c} : call'[d] = call[d]
      /\ call'[c].pc \in {"done", "delete_row"} /\ call'[c].req \in {r, NoRequest}
  BY <1>1, CallMoves DEF DeleteStorage, DeleteRow
<1>4. AgreeAt(r) /\ row[r].status \in TerminalStatus \cup {"deleted"}
  BY <1>1, <1>2, AgreePointwise DEF AgreeAt
<1>5. /\ \A q \in Requests \ {r} : row'[q] = row[q] /\ cursor'[q] = cursor[q]
      /\ \/ row'[r] = row[r] /\ cursor'[r] = NoCursor
         \/ row'[r] = DeleteRunRequest(row[r]) /\ cursor'[r] = cursor[r]
  BY <1>1 DEF DeleteStorage, DeleteRow, SettleRow, TypeOK
<1>6. CallWork(c, r) BY <1>2, <1>3, <1>5 DEF CallWork
<1>7. /\ row'[r].status \in TerminalStatus \cup {"deleted"}
      /\ row'[r].result = "run" => row'[r] = row[r] /\ cursor'[r].phase = "absent"
      /\ row'[r].status = "deleted" => row'[r].result # "run"
  BY <1>4, <1>5 DEF DeleteRunRequest, AbsentRow, NoCursor, AgreeAt
<1>8. Stopping(r)' => Stopping(r) BY <1>3 DEF Stopping
<1>9. (RunDone(r)' => RunDone(r)) /\ ~Active(r)' /\ row'[r].status # "queued"
  BY <1>7, <1>8 DEF RunDone, Active, ActiveStatus, TerminalStatus
<1>10. \A s \in Threads : (Holds(s, r)' <=> Holds(s, r)) /\ (Sweeps(s, r)' <=> Sweeps(s, r))
  BY <1>2 DEF Holds, Sweeps
<1>11. RunDone(r)' => cursor'[r].phase = "absent" BY <1>7 DEF RunDone
<1>12. AgreeAt(r)' BY <1>2, <1>4, <1>7, <1>9, <1>10, <1>11 DEF AgreeAt
<1> QED BY <1>1, <1>6, <1>12, OtherCalled, AgreePrimed

\* A call that only reads, and admission.
LEMMA AgreeCallReads ==
    ASSUME AgreeContext, NEW c \in Calls, CreateLookup(c) \/ ControlRead(c)
    PROVE  AgreeInv'
<1>1. TypeInv /\ TypeOK /\ OnceInv /\ AgreeInv /\ TypeInv' BY DEF AgreeContext, TypeInv
<1>2. /\ Recover /\ cursor' = cursor /\ tick' = tick /\ call[c].pc = "fresh"
      /\ call \in [Calls -> Call] /\ call[c] \in Call
  BY <1>1 DEF CreateLookup, ControlRead, TypeOK
<1>3. row' = row /\ Recovered = row BY <1>1, <1>2, CalmRecover DEF OnceInv
<1>4. /\ \A d \in Calls \ {c} : call'[d] = call[d]
      /\ call'[c].pc # "stop_row"
      /\ call'[c].pc \in {"delete_storage", "delete_row"} => row[call'[c].req].status \in TerminalStatus
  <2>1. CASE CreateLookup(c) BY <1>2, <2>1 DEF CreateLookup, EndCall, GotoCall, CallAt, Call
  <2>2. CASE ControlRead(c)
    <3>1. PICK op \in Ops \ {"create"}, q \in Requests :
            LET p == FirstStep(op, q, row[q])
            IN  call' = [call EXCEPT ![c] = IF p = "done" THEN CallAt("done", NoRequest)
                                                         ELSE CallAt(p, q)]
      BY <1>3, <2>2 DEF ControlRead
    <3>2. op \in {"cancel", "stop", "pause", "resume", "delete"} BY ServiceAssumption
    <3>3. /\ FirstStep(op, q, row[q]) \notin {"stop_row", "delete_row"}
          /\ FirstStep(op, q, row[q]) = "delete_storage" => IsTerminal(row[q])
      <4>1. CASE op = "cancel" BY <4>1 DEF FirstStep
      <4>2. CASE op = "stop" BY <4>2 DEF FirstStep
      <4>3. CASE op = "pause" BY <4>3 DEF FirstStep
      <4>4. CASE op = "resume" BY <4>4 DEF FirstStep
      <4>5. CASE op = "delete" BY <4>5 DEF FirstStep
      <4> QED BY <3>2, <4>1, <4>2, <4>3, <4>4, <4>5
    <3>4. /\ \A d \in Calls \ {c} : call'[d] = call[d]
          /\ \/ call'[c].pc = "done"
             \/ call'[c].pc = FirstStep(op, q, row[q]) /\ call'[c].req = q
      BY <1>2, <3>1 DEF CallAt
    <3> QED BY <3>3, <3>4 DEF IsTerminal
  <2> QED BY <2>1, <2>2
<1>5. ASSUME NEW q \in Requests PROVE AgreeAt(q)'
  BY <1>1, AgreePointwise, <1>2, <1>4, <1>3 DEF Stopping, RunDone, Active, Holds, Sweeps,
     HeldCursor, Working, AgreeAt
<1> QED BY <1>1, <1>5, AgreePrimed

LEMMA AgreeInsert ==
    ASSUME AgreeContext, NEW c \in Calls, CreateInsert(c)
    PROVE  AgreeInv'
<1>1. TypeInv /\ TypeOK /\ OnceInv /\ AgreeInv /\ TypeInv' BY DEF AgreeContext, TypeInv
<1>2. PICK r \in Requests : row[r].status = "absent" /\ SetRow(r, SubmitRunConfig(TRUE))
  BY DEF CreateInsert
<1>3. /\ cursor' = cursor /\ tick' = tick /\ call[c].pc = "insert"
      /\ \A d \in Calls \ {c} : call'[d] = call[d]
      /\ call'[c].pc = "done"
  BY <1>1 DEF CreateInsert, EndCall, CallAt, TypeOK
<1>4. /\ \A q \in Requests \ {r} : row'[q] = row[q]
      /\ row'[r].status = "queued" /\ row'[r].result = "none"
  BY <1>1, <1>2 DEF SetRow, TypeOK, SubmitRunConfig, AbsentRow
<1>5. \A d \in Calls : call'[d].pc \in {"stop_row", "delete_storage", "delete_row"}
        => call'[d] = call[d] /\ call[d].req # r
  BY <1>1, <1>2, <1>3 DEF TypeInv, CallOK
<1>6. \A s \in Threads : ~Holds(s, r)' /\ ~Sweeps(s, r)'
  BY <1>1, <1>2, <1>3 DEF TypeInv, ThreadOK, Holds, Sweeps, Between
<1>7. AgreeAt(r)'
  BY <1>4, <1>5, <1>6 DEF RunDone, Active, ActiveStatus, AgreeAt
<1>8. ASSUME NEW q \in Requests, q # r PROVE AgreeAt(q)'
  BY <1>1, AgreePointwise, <1>3, <1>4, <1>8, <1>5 DEF Stopping, RunDone, Active, Holds, Sweeps,
     HeldCursor, Working, AgreeAt
<1> QED BY <1>1, <1>7, <1>8, AgreePrimed

\* The process ends and comes back: whoever was at work is gone.
LEMMA AgreeRestart ==
    ASSUME AgreeContext, ProcessEnds \/ RunGepaService
    PROVE  AgreeInv'
<1>1. TypeInv /\ TypeOK /\ OnceInv /\ AgreeInv /\ TypeInv' BY DEF AgreeContext, TypeInv
<1>2. CASE ProcessEnds
  <2>1. row' = row /\ cursor' = cursor BY <1>2 DEF ProcessEnds
  <2>2. \A t \in Threads : tick'[t].lease = NoLease /\ tick'[t].pc \in Between
    BY <1>1, <1>2, RestingTick DEF ProcessEnds, TypeInv, ThreadOK, Between
  <2>3. \A c \in Calls : call'[c].pc \in {"fresh", "done"} BY <1>2 DEF ProcessEnds, CallAt
  <2>4. ASSUME NEW q \in Requests PROVE AgreeAt(q)'
    BY <1>1, AgreePointwise, <2>2, <2>1, <2>3 DEF Holds, Sweeps, RunDone, Stopping, Active,
       ActiveStatus, AgreeAt
  <2> QED BY <1>1, <2>4, AgreePrimed
<1>3. CASE RunGepaService
  <2>1. cursor' = cursor /\ tick' = tick /\ call' = call BY <1>3 DEF RunGepaService
  <2>2. ASSUME NEW q \in Requests PROVE AgreeAt(q)'
    <3>1. AgreeAt(q) BY <1>1, AgreePointwise
    <3>2. row[q] \in Row /\ NoLease \in Lease /\ ~row[q].expired /\ row[q].status # "paused"
      BY <1>1, LeaseIds DEF TypeOK, OnceInv, NeverRequeued
    <3>3. RecoverExpired(row[q]) = row[q] /\ RecoverExpired(FailOrphaned(row[q])) = FailOrphaned(row[q])
      BY <3>2, CalmStatements
    <3>4. row'[q] = row[q] \/ row'[q] = FailOrphaned(row[q]) BY <1>3, <3>3 DEF RunGepaService
    <3>5. /\ row'[q] = row[q] \/ row'[q].status = "failed"
          /\ row'[q].result = row[q].result
      BY <3>2, <3>4 DEF FailOrphaned, MarkFailed, Released, Row
    <3>6. (RunDone(q)' => RunDone(q)) /\ (Active(q)' => Active(q) /\ row'[q] = row[q])
      BY <2>1, <3>5 DEF RunDone, Stopping, Active, ActiveStatus
    <3>7. \A s \in Threads : /\ Holds(s, q)' <=> Holds(s, q)
                             /\ Sweeps(s, q)' <=> Sweeps(s, q)
                             /\ Active(q)' => (HeldCursor(s, q)' <=> HeldCursor(s, q))
      BY <2>1, <3>6 DEF Holds, Sweeps, HeldCursor, Working
    <3> QED BY <2>1, <3>1, <3>5, <3>6, <3>7 DEF AgreeAt, TerminalStatus
  <2> QED BY <1>1, <2>2, AgreePrimed
<1> QED BY <1>2, <1>3

LEMMA AgreeInit == Init => AgreeInv
<1> SUFFICES ASSUME Init PROVE AgreeInv OBVIOUS
<1>1. \A r \in Requests : row[r].result = "none" /\ row[r].status \in {"absent", "queued"}
  BY DEF Init, SubmitRunConfig, AbsentRow
<1>2. \A t \in Threads : tick[t].lease = NoLease /\ tick[t].pc \in Between BY DEF Init, Resting, Between
<1>3. \A c \in Calls : call[c].pc = "fresh" BY DEF Init, CallAt
<1> QED BY <1>1, <1>2, <1>3 DEF AgreeInv, CallsOver, SweepsOver, CursorHeld, ResultLast, DoneLast,
                                Holds, Sweeps, RunDone

\* The agreement of one state, while nothing expires and nobody pauses.
CalmAgree == Calm => AgreeInv

LEMMA AgreeNext ==
    ASSUME OneStepCall
    PROVE  TypeInv /\ TypeInv' /\ LeaseInv /\ (Calm => OnceInv) /\ CalmAgree /\ [Next]_vars => CalmAgree'
<1> SUFFICES ASSUME TypeInv, TypeInv', LeaseInv, Calm => OnceInv, Calm => AgreeInv, [Next]_vars, Calm'
             PROVE  AgreeInv'
  BY DEF CalmAgree
<1>1. TypeOK BY DEF TypeInv
<1>2. CASE UNCHANGED vars
  BY <1>2 DEF vars, Calm, AgreeInv, CallsOver, SweepsOver, CursorHeld, ResultLast, DoneLast,
              Holds, Sweeps, Active, RunDone, Stopping, HeldCursor, Working
<1>3. CASE \E r \in Requests : Expire(r) BY <1>1, <1>3 DEF Expire, Calm, TypeOK
<1>4. CASE \/ \E t \in Threads : ThreadStep(t)
           \/ \E c \in Calls : CallStep(c)
           \/ ProcessEnds \/ RunGepaService
  <2>1. Calm BY <1>4 DEF Calm, ThreadStep, CallStep, ProcessEnds, RunGepaService
  <2>2. AgreeContext BY <2>1 DEF AgreeContext
  <2>3. ASSUME NEW t \in Threads, ThreadStep(t) PROVE AgreeInv'
    <3>1. CASE StepRun(t) \/ ActiveRunRequest(t) \/ FindCancelled(t) \/ SelectQueued(t)
      BY <2>2, <3>1, AgreeReads
    <3>2. CASE ClaimQueued(t) BY <2>2, <3>2, AgreeClaim
    <3>3. CASE RecordResourceLeases(t) BY <2>2, <3>3, AgreeRecord
    <3>4. CASE StartRunRequest(t) \/ FinishRunRequest(t) BY <2>2, <2>3, <3>4, AgreeStartOrFinish
    <3>5. CASE StartCursor(t) BY <2>2, <3>5, AgreeStartCursor
    <3>12. CASE StartSave(t) BY <2>2, <3>12, AgreeStartSave
    <3>6. CASE Heartbeat(t) BY <2>2, <3>6, AgreeHeartbeat
    <3>7. CASE LoadCursor(t) BY <2>2, <3>7, AgreeLoadCursor
    <3>8. CASE CheckCancelled(t) BY <2>2, <3>8, AgreeCheckCancelled
    <3>9. CASE Abort(t) \/ Advance(t) \/ AdvanceFails(t) \/ AdvanceErrs(t)
      BY <2>2, <3>9, AgreeAdvance
    <3>10. CASE RecordRunResult(t) BY <2>2, <3>10, AgreeRecordRunResult
    <3>11. CASE CompleteRunRequest(t) BY <2>2, <3>11, AgreeComplete
    <3> QED BY <2>3, <3>1, <3>2, <3>3, <3>4, <3>5, <3>6, <3>7, <3>8, <3>9, <3>10, <3>11,
           <3>12 DEF ThreadStep
  <2>4. ASSUME NEW c \in Calls, CallStep(c) PROVE AgreeInv'
    <3>1. CASE CreateLookup(c) \/ ControlRead(c) BY <2>2, <3>1, AgreeCallReads
    <3>2. CASE CreateInsert(c) BY <2>2, <3>2, AgreeInsert
    <3>3. CASE CancelRun(c) BY <2>2, <3>3, AgreeCancel
    <3>4. CASE StopResult(c) BY <2>2, <3>4, AgreeStopResult
    <3>5. CASE StopRow(c) BY <2>2, <3>5, AgreeStopRow
    <3>6. CASE DeleteStorage(c) \/ DeleteRow(c) BY <2>2, <3>6, AgreeDelete
    <3>7. CASE PauseLoad(c) \/ PauseSave(c) \/ PauseRow(c) \/ ResumeLoad(c) \/ ResumeSave(c) \/ ResumeRow(c)
      BY <2>2, <3>7 DEF AgreeContext, OnceInv, NeverRequeued, PauseLoad, PauseSave, PauseRow,
                        ResumeLoad, ResumeSave, ResumeRow
    <3> QED BY <2>4, <3>1, <3>2, <3>3, <3>4, <3>5, <3>6, <3>7 DEF CallStep
  <2>5. CASE ProcessEnds \/ RunGepaService BY <2>2, <2>5, AgreeRestart
  <2> QED BY <1>4, <2>3, <2>4, <2>5
<1> QED BY <1>2, <1>3, <1>4 DEF Next

\* With at most one step call under way, and while no deadline passes and
\* nobody pauses, a request completed with the result of its run has a
\* completed cursor: whatever cancels, stops, deletes and restarts
\* interleave, nobody writes the cursor after the run's own last save.
THEOREM CompletedCursorsAgree ==
    ASSUME OneStepCall
    PROVE  Spec => []CompletedCursorAgrees
<1>1. CalmAgree => CompletedCursorAgrees
  BY DEF CalmAgree, Calm, AgreeInv, DoneLast, RunDone, CompletedCursorAgrees
<1>2. Init => CalmAgree BY AgreeInit DEF CalmAgree
<1>3. Init => (Calm => OnceInv) BY OnceInit
<1>4. TypeInv /\ LeaseInv /\ (Calm => OnceInv) /\ [Next]_vars => (Calm => OnceInv)' BY OnceNext
<1>5. TypeInv /\ TypeInv' /\ LeaseInv /\ (Calm => OnceInv) /\ CalmAgree /\ [Next]_vars => CalmAgree'
  BY AgreeNext
<1> QED BY <1>1, <1>2, <1>3, <1>4, <1>5, LeaseInit, LeaseNext, TypeInit, TypeNext, PTL DEF Spec
=============================================================================
