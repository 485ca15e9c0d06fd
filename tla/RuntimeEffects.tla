--------------------------- MODULE RuntimeEffects ---------------------------
(***************************************************************************)
(* Runtime effects of one GEPA run in service mode (sync-serial pipeline):  *)
(* the paid rollouts and proposals, each with a row in runtime_effects, a   *)
(* budget reservation, a budget commit and an optimizer job, driven by the  *)
(* ticks of synth_gepa/src/lib.rs and the executor of runtime.rs.           *)
(*                                                                          *)
(* A thread is a service worker, or the primary worker when it ticks a      *)
(* cancelled run.  A step is one autocommitted SQL statement (with reads    *)
(* whose answer no other thread can change) or one call to the outside.     *)
(* The queue of run requests is in RunService; here the request of the run  *)
(* is its status and the worker that holds its lease.                       *)
(***************************************************************************)
EXTENDS OptimizerJobStore, BudgetLedger

CONSTANTS
    Last,         \* the run plans the effects 1 .. Last, in this order
    Proposals,    \* those that are proposer turns; the others are rollouts
    Estimate,     \* effect -> max_cost_usd of its budget estimate
    Reported,     \* costs a provider may report, Unknown for none
    Errors,       \* error classes a dispatch may end with
    Workers,      \* service workers
    Canceller,    \* the tick of the cancelled run on the primary worker
    Cancellable,  \* whether the user may cancel the run
    MaxExpiries,  \* bound: lapses of a lease whose holder is alive
    MaxCrashes,   \* bound: ends of the service process
    MaxSteals     \* bound: lapses of the run request's own lease

Effects == 1 .. Last
Threads == Workers \cup {Canceller}

ASSUME EffectsAssumption ==
    /\ Last \in Nat \ {0} /\ Proposals \subseteq Effects
    /\ Estimate \in [Effects -> Nat]
    /\ Reported \subseteq Cost /\ Reported # {}
    /\ Errors \subseteq ErrorClass
    /\ Workers # {} /\ Canceller \notin Workers
    /\ Cancellable \in BOOLEAN
    /\ MaxExpiries \in Nat /\ MaxCrashes \in Nat /\ MaxSteals \in Nat

\* runtime_effect_retry_policy
MaxAttempts(e) == IF e \in Proposals THEN 1 ELSE 3

VARIABLES
    effect,       \* runtime_effects
    reservation,  \* budget_reservations, by status
    commit,       \* budget_commits
    job,          \* optimizer_jobs
    cursor,       \* the latest cursor checkpoint
    request,      \* status of the run request
    owner,        \* the worker holding the request's lease
    tick,         \* thread -> where it is in its tick, and what it read
    minted,       \* lease ids minted so far
    dispatched,   \* effect -> calls made to the provider for it
    unknown,      \* effects once settled with an unknown cost
    expiries, crashes, steals

rows == <<effect, reservation, commit, job>>
ghosts == <<dispatched, unknown>>
bounds == <<expiries, crashes, steals>>
vars == <<effect, reservation, commit, job, cursor, request, owner, tick, minted,
          dispatched, unknown, expiries, crashes, steals>>

-----------------------------------------------------------------------------
(* Rows and local state *)

EffectTerminal == {"completed", "failed", "cancelled", "rejected"}
EffectStatus   == EffectTerminal \cup {"absent", "planned", "running"}

\* linked: the row names its job and its reservation.
EffectRow == [status : EffectStatus, linked : BOOLEAN]

NoEffect == 0
CursorTerminal == {"completed", "failed", "cancelled"}

Cursor == [seq     : Nat,
           phase   : CursorTerminal \cup {"work"},
           next    : 1 .. Last + 1,             \* effects before it are consumed
           pending : Effects \cup {NoEffect}]   \* pending_job_id

NewCursor == [seq |-> 0, phase |-> "work", next |-> 1, pending |-> NoEffect]

\* record_checkpoint, latest_checkpoint: the highest sequence number counts.
Persist(old, k) == IF k.seq >= old.seq THEN k ELSE old

PlanPc   == {"plan", "record", "admit", "reject", "reserve", "enqueue", "link"}
ExecPc   == {"pending", "claim", "run", "mark", "dispatch", "retry", "outcome_read",
             "outcome_write", "ensure", "again_read", "again_write", "reread"}
SettlePc == {"settle_effect", "settle_reservation", "settle_commit", "settle_read",
             "settle_job", "settle_ledger"}
TickPc   == PlanPc \cup ExecPc \cup SettlePc \cup
            {"idle", "check", "failed_job", "save", "abort_job", "abort_list",
             "abort_next", "terminal", "finish", "error"}

Tick == [pc     : TickPc,
         cur    : Cursor,                         \* GepaRunState
         eff    : Effects \cup {NoEffect},        \* the effect being worked on
         row    : Job,                            \* the job row last read
         lease  : Nat,                            \* lease id of the executor
         status : EffectTerminal \cup {"none"},   \* what the effect is settled as
         cost   : Cost,                           \* reported_cost_usd
         error  : ErrorClass \cup {"none"},
         then   : {"executor", "abort_list", "abort_next"},  \* who settles
         todo   : SUBSET (Effects \X BOOLEAN),    \* an abort's list: effect, linked
         out    : CursorTerminal \cup {"none"}]

Resting == [pc |-> "idle", cur |-> NewCursor, eff |-> NoEffect, row |-> AbsentJob,
            lease |-> NoLease, status |-> "none", cost |-> Unknown, error |-> "none",
            then |-> "executor", todo |-> {}, out |-> "none"]

TypeOK ==
    /\ effect \in [Effects -> EffectRow]
    /\ reservation \in [Effects -> ReservationStatus]
    /\ commit \in [Effects -> Commit]
    /\ job \in [Effects -> Job]
    /\ cursor \in Cursor
    /\ request \in CursorTerminal \cup {"active"}
    /\ owner \in Workers
    /\ tick \in [Threads -> Tick]
    /\ minted \in Nat
    /\ dispatched \in [Effects -> Nat]
    /\ unknown \in SUBSET Effects
    /\ expiries \in 0 .. MaxExpiries
    /\ crashes \in 0 .. MaxCrashes
    /\ steals \in 0 .. MaxSteals

Init ==
    /\ effect = [e \in Effects |-> [status |-> "absent", linked |-> FALSE]]
    /\ reservation = [e \in Effects |-> "absent"]
    /\ commit = [e \in Effects |-> NoCommit]
    /\ job = [e \in Effects |-> AbsentJob]
    /\ cursor = NewCursor
    /\ request = "active"
    /\ owner \in Workers
    /\ tick = [t \in Threads |-> Resting]
    /\ minted = 0
    /\ dispatched = [e \in Effects |-> 0]
    /\ unknown = {}
    /\ expiries = 0 /\ crashes = 0 /\ steals = 0

-----------------------------------------------------------------------------
(* Steps of a tick.  At(t, p) is the guard on where the thread is, Goto where
   it goes next. *)

At(t, p)   == tick[t].pc = p
Goto(t, p) == tick' = [tick EXCEPT ![t].pc = p]
EndTick(t) == tick' = [tick EXCEPT ![t] = Resting]

\* The tick fails with an error: terminalize_run_request_error.
Err(t) == Goto(t, "error")

\* Save the cursor as k, and end the tick.
SaveNext(t, k) == tick' = [tick EXCEPT ![t].pc = "save", ![t].cur = k]

\* Begin terminalize_aborted_gepa_run; s is the status it records.
BeginAbort(t, s) == tick' = [tick EXCEPT ![t].pc = "abort_job", ![t].out = s]

\* Begin record_runtime_effect_completed for effect e: the executor settles
\* what it dispatched, an abort what was left.
BeginSettle(t, e, s, c, err) ==
    tick' = [tick EXCEPT ![t].pc = "settle_effect", ![t].eff = e, ![t].status = s,
                         ![t].cost = c, ![t].error = err]

AbortSettle(t, e, then, left) ==
    tick' = [tick EXCEPT ![t].pc = "settle_effect", ![t].eff = e,
                         ![t].status = tick[t].out, ![t].cost = Unknown,
                         ![t].error = "fatal", ![t].then = then, ![t].todo = left]

Ledger == Current(commit, reservation, Estimate)

\* tick_active_run_request and tick_cancelled_run_request_workspace up to the
\* end of restore_gepa_run_state, and the answer for a run that has ended.
Load(t) ==
    /\ At(t, "idle")
    /\ IF t = Canceller THEN request = "cancelled" /\ cursor.phase = "work"
       ELSE request = "active" /\ owner = t
    /\ tick' = [tick EXCEPT ![t].cur = cursor,
                            ![t].pc  = IF cursor.phase = "work" THEN "check" ELSE "finish",
                            ![t].out = IF cursor.phase = "work" THEN "none" ELSE cursor.phase]
    /\ UNCHANGED <<rows, cursor, request, owner, minted, ghosts, bounds>>

\* check_cancelled: a cancelled request aborts the run as cancelled, a lost
\* lease as failed.
CheckCancelled(t) ==
    /\ At(t, "check")
    /\ \/ /\ request = "cancelled"
          /\ BeginAbort(t, "cancelled")
       \/ /\ request # "cancelled" /\ owner # t
          /\ BeginAbort(t, "failed")
       \/ /\ request # "cancelled" /\ owner = t
          /\ Goto(t, IF tick[t].cur.pending = NoEffect THEN "plan" ELSE "pending")
    /\ UNCHANGED <<rows, cursor, request, owner, minted, ghosts, bounds>>

-----------------------------------------------------------------------------
(* Planning: record_runtime_effect_planned for the effect the cursor stands at *)

\* The job of an earlier, interrupted planning is taken over.
PlanExisting(t) ==
    LET k == tick[t].cur
    IN  /\ At(t, "plan") /\ k.next \in Effects
        /\ job[k.next].status # "absent"
        /\ SaveNext(t, [k EXCEPT !.pending = k.next])
        /\ UNCHANGED <<rows, cursor, request, owner, minted, ghosts, bounds>>

PlanNew(t) ==
    LET k == tick[t].cur
    IN  /\ At(t, "plan") /\ k.next \in Effects
        /\ job[k.next].status = "absent"
        /\ tick' = [tick EXCEPT ![t].pc = "record", ![t].eff = k.next]
        /\ UNCHANGED <<rows, cursor, request, owner, minted, ghosts, bounds>>

\* finalize_completed_gepa_run, when everything planned is consumed.
Finalize(t) ==
    /\ At(t, "plan") /\ tick[t].cur.next > Last
    /\ tick' = [tick EXCEPT ![t].pc = "terminal", ![t].out = "completed"]
    /\ UNCHANGED <<rows, cursor, request, owner, minted, ghosts, bounds>>

RecordPlanned(t) ==
    /\ At(t, "record")
    /\ effect' = [effect EXCEPT ![tick[t].eff] = [status |-> "planned", linked |-> FALSE]]
    /\ Goto(t, "admit")
    /\ UNCHANGED <<reservation, commit, job, cursor, request, owner, minted, ghosts, bounds>>

\* breach_for_request on a fresh snapshot of the ledger.
Admit(t) ==
    /\ At(t, "admit")
    /\ Goto(t, IF BreachForRequest(Ledger, Estimate[tick[t].eff]) THEN "reject" ELSE "reserve")
    /\ UNCHANGED <<rows, cursor, request, owner, minted, ghosts, bounds>>

Reject(t) ==
    /\ At(t, "reject")
    /\ effect' = [effect EXCEPT ![tick[t].eff] = [status |-> "rejected", linked |-> FALSE]]
    /\ Err(t)
    /\ UNCHANGED <<reservation, commit, job, cursor, request, owner, minted, ghosts, bounds>>

Reserve(t) ==
    /\ At(t, "reserve")
    /\ reservation' = [reservation EXCEPT ![tick[t].eff] = "reserved"]
    /\ Goto(t, "enqueue")
    /\ UNCHANGED <<effect, commit, job, cursor, request, owner, minted, ghosts, bounds>>

Enqueue(t) ==
    /\ At(t, "enqueue")
    /\ job' = [job EXCEPT ![tick[t].eff] = Enqueued]
    /\ Goto(t, "link")
    /\ UNCHANGED <<effect, reservation, commit, cursor, request, owner, minted, ghosts, bounds>>

Link(t) ==
    /\ At(t, "link")
    /\ effect' = [effect EXCEPT ![tick[t].eff] = [status |-> "planned", linked |-> TRUE]]
    /\ SaveNext(t, [tick[t].cur EXCEPT !.pending = tick[t].eff])
    /\ UNCHANGED <<reservation, commit, job, cursor, request, owner, minted, ghosts, bounds>>

\* persist_gepa_run_state
SaveCursor(t) ==
    LET k == tick[t].cur
    IN  /\ At(t, "save")
        /\ cursor' = Persist(cursor, [k EXCEPT !.seq = @ + 1])
        /\ EndTick(t)
        /\ UNCHANGED <<rows, request, owner, minted, ghosts, bounds>>

-----------------------------------------------------------------------------
(* A pending job: advance_pending_runtime_job and, for its first case, the
   executor's execute_one_pending_optimizer_job *)

\* consume_completed_runtime_job: without an outcome there is nothing to
\* consume, and the tick fails.
ConsumeCompleted(t, e, j) ==
    IF j.outcome
    THEN SaveNext(t, [tick[t].cur EXCEPT !.next = e + 1, !.pending = NoEffect])
    ELSE Err(t)

PendingJob(t) ==
    LET e == tick[t].cur.pending
        j == job[e]
    IN  /\ At(t, "pending")
        /\ \/ /\ Claimable(j)
              /\ tick' = [tick EXCEPT ![t].pc = "claim", ![t].eff = e]
           \/ /\ InHand(j) \/ (j.status = "retry_scheduled" /\ ~j.due)
              /\ EndTick(t)
           \/ /\ j.status = "completed"
              /\ ConsumeCompleted(t, e, j)
           \/ /\ j.status \in JobTerminal \ {"completed"}
              /\ tick' = [tick EXCEPT ![t].pc = "failed_job", ![t].eff = e, ![t].row = j]
        /\ UNCHANGED <<rows, cursor, request, owner, minted, ghosts, bounds>>

RecoveredJobs == [e \in Effects |-> RecoverExpired(job[e], MaxAttempts(e))]

\* claim_optimizer_job, which first recovers the expired jobs of the run.
Claim(t) ==
    LET e == tick[t].eff
        j == RecoveredJobs[e]
    IN  /\ At(t, "claim")
        /\ IF Claimable(j)
           THEN /\ job' = [RecoveredJobs EXCEPT ![e] = Claimed(j, minted + 1)]
                /\ minted' = minted + 1
                /\ tick' = [tick EXCEPT ![t].pc = "run", ![t].lease = minted + 1]
           ELSE /\ job' = RecoveredJobs
                /\ minted' = minted
                /\ Goto(t, "reread")
        /\ UNCHANGED <<effect, reservation, commit, cursor, request, owner, ghosts, bounds>>

\* mark_optimizer_job_running
MarkRunning(t) ==
    LET e == tick[t].eff
    IN  /\ At(t, "run")
        /\ IF Holds(job[e], tick[t].lease)
           THEN /\ job' = [job EXCEPT ![e] = Running(@)]
                /\ tick' = [tick EXCEPT ![t].pc = "mark", ![t].row = Running(job[e])]
           ELSE /\ job' = job
                /\ Goto(t, "reread")
        /\ UNCHANGED <<effect, reservation, commit, cursor, request, owner, minted, ghosts, bounds>>

\* record_runtime_effect_running
RecordRunning(t) ==
    /\ At(t, "mark")
    /\ effect' = [effect EXCEPT ![tick[t].eff] = [status |-> "running", linked |-> TRUE]]
    /\ Goto(t, "dispatch")
    /\ UNCHANGED <<reservation, commit, job, cursor, request, owner, minted, ghosts, bounds>>

\* execute_dispatch answers, with a cost or without.
DispatchOk(t) ==
    /\ At(t, "dispatch")
    /\ \E c \in Reported :
         tick' = [tick EXCEPT ![t].pc = "outcome_read", ![t].status = "completed", ![t].cost = c]
    /\ dispatched' = [dispatched EXCEPT ![tick[t].eff] = @ + 1]
    /\ UNCHANGED <<rows, cursor, request, owner, minted, unknown, bounds>>

\* execute_dispatch fails: another attempt if the error and the policy allow it,
\* a failed settlement otherwise.
DispatchErr(t) ==
    LET e == tick[t].eff
    IN  /\ At(t, "dispatch")
        /\ \E x \in Errors :
             IF x \in ExecutorRetryable /\ tick[t].row.attempt < MaxAttempts(e)
             THEN tick' = [tick EXCEPT ![t].pc = "retry", ![t].error = x]
             ELSE BeginSettle(t, e, "failed", Unknown, x)
        /\ dispatched' = [dispatched EXCEPT ![e] = @ + 1]
        /\ UNCHANGED <<rows, cursor, request, owner, minted, unknown, bounds>>

\* schedule_runtime_retry_if_allowed: only under the lease.
ScheduleRetry(t) ==
    LET e == tick[t].eff
    IN  /\ At(t, "retry")
        /\ IF Holds(job[e], tick[t].lease)
           THEN /\ job' = [job EXCEPT ![e] = Rescheduled(@, tick[t].error)]
                /\ Goto(t, "reread")
           ELSE /\ job' = job
                /\ BeginSettle(t, e, "failed", Unknown, tick[t].error)
        /\ UNCHANGED <<effect, reservation, commit, cursor, request, owner, minted, ghosts, bounds>>

\* Reads the row, to write it back with the outcome in its payload: before the
\* settlement (persist_runtime_outcome_before_completion) and again after it.
ReadForOutcome(t) ==
    /\ \/ At(t, "outcome_read") /\ tick' = [tick EXCEPT ![t].pc = "outcome_write", ![t].row = job[tick[t].eff]]
       \/ At(t, "again_read")   /\ tick' = [tick EXCEPT ![t].pc = "again_write", ![t].row = job[tick[t].eff]]
    /\ UNCHANGED <<rows, cursor, request, owner, minted, ghosts, bounds>>

WriteOutcome(t) ==
    /\ \/ At(t, "outcome_write") /\ Goto(t, "settle_effect")
       \/ At(t, "again_write") /\ SaveNext(t, tick[t].cur)
    /\ job' = [job EXCEPT ![tick[t].eff] = WithOutcome(tick[t].row)]
    /\ UNCHANGED <<effect, reservation, commit, cursor, request, owner, minted, ghosts, bounds>>

\* ensure_job_lease
EnsureLease(t) ==
    LET j == job[tick[t].eff]
    IN  /\ At(t, "ensure")
        /\ Goto(t, IF j.lease = tick[t].lease /\ j.status = "completed" THEN "again_read" ELSE "reread")
        /\ UNCHANGED <<rows, cursor, request, owner, minted, ghosts, bounds>>

\* Fault: a job put back in the queue is taken for consumed.
RereadConsumingRetries(t) ==
    LET e == tick[t].eff
        j == job[e]
    IN  /\ At(t, "reread")
        /\ IF j.status \in {"failed", "cancelled", "expired"}
           THEN tick' = [tick EXCEPT ![t].pc = "failed_job", ![t].row = j]
           ELSE SaveNext(t, [tick[t].cur EXCEPT !.next = e + 1, !.pending = NoEffect])
        /\ UNCHANGED <<rows, cursor, request, owner, minted, ghosts, bounds>>

\* The row after the executor ended with an error.
Reread(t) ==
    LET e == tick[t].eff
        j == job[e]
    IN  /\ At(t, "reread")
        /\ \/ /\ j.status = "completed"
              /\ ConsumeCompleted(t, e, j)
           \/ /\ j.status = "retry_scheduled"
              /\ SaveNext(t, tick[t].cur)
           \/ /\ j.status \in JobTerminal \ {"completed"}
              /\ tick' = [tick EXCEPT ![t].pc = "failed_job", ![t].row = j]
           \/ /\ j.status \in {"pending", "leased", "running"}
              /\ BeginAbort(t, "failed")
        /\ UNCHANGED <<rows, cursor, request, owner, minted, ghosts, bounds>>

\* schedule_failed_runtime_retry_if_allowed: j is the row read before, the
\* UPDATE looks at the row as it is now.
RetryAllowed(e, j) ==
    /\ j.status # "cancelled" /\ j.failure \in PayloadRetryable
    /\ j.attempt < MaxAttempts(e)
    /\ job[e].status \in {"failed", "expired"}

\* consume_failed_rollout_job_as_degraded
Degradable(e, j) ==
    e \notin Proposals /\ j.status # "cancelled" /\ j.failure \in PayloadRetryable

\* consume_failed_runtime_job: the run ends, the effect is left as it is.
ConsumeFailed(t, j) ==
    tick' = [tick EXCEPT ![t].pc = "terminal", ![t].cur.pending = NoEffect,
                         ![t].out = IF j.status = "cancelled" THEN "cancelled" ELSE "failed"]

FailedJob(t) ==
    LET e == tick[t].eff
        j == tick[t].row
        k == tick[t].cur
    IN  /\ At(t, "failed_job")
        /\ \/ /\ RetryAllowed(e, j)
              /\ job' = [job EXCEPT ![e] = Rescheduled(@, j.failure)]
              /\ SaveNext(t, k)
           \/ /\ ~RetryAllowed(e, j) /\ Degradable(e, j)
              /\ job' = job
              /\ SaveNext(t, [k EXCEPT !.next = e + 1, !.pending = NoEffect])
           \/ /\ ~RetryAllowed(e, j) /\ ~Degradable(e, j)
              /\ job' = job
              /\ ConsumeFailed(t, j)
        /\ UNCHANGED <<effect, reservation, commit, cursor, request, owner, minted, ghosts, bounds>>

-----------------------------------------------------------------------------
(* record_runtime_effect_completed, statement by statement *)

SettleEffect(t) ==
    /\ At(t, "settle_effect")
    /\ effect' = [effect EXCEPT ![tick[t].eff] = [status |-> tick[t].status, linked |-> TRUE]]
    /\ Goto(t, "settle_reservation")
    /\ UNCHANGED <<reservation, commit, job, cursor, request, owner, minted, ghosts, bounds>>

SettleReservation(t) ==
    /\ At(t, "settle_reservation")
    /\ reservation' = [reservation EXCEPT ![tick[t].eff] =
                         IF tick[t].status = "completed" THEN "committed" ELSE tick[t].status]
    /\ Goto(t, "settle_commit")
    /\ UNCHANGED <<effect, commit, job, cursor, request, owner, minted, ghosts, bounds>>

\* Fault: a cost that is not known is not committed.
SettleCommitKnownOnly(t) ==
    LET e == tick[t].eff
        c == SettledEffectCost(tick[t].status, tick[t].cost, Estimate[e])
    IN  /\ At(t, "settle_commit")
        /\ commit' = IF c = Unknown THEN commit ELSE [commit EXCEPT ![e] = CommitOf(c)]
        /\ Goto(t, "settle_read")
        /\ UNCHANGED <<effect, reservation, job, cursor, request, owner, minted, ghosts, bounds>>

\* record_budget_commit; the release row written next is read by no decision.
SettleCommit(t) ==
    LET e == tick[t].eff
        c == SettledEffectCost(tick[t].status, tick[t].cost, Estimate[e])
    IN  /\ At(t, "settle_commit")
        /\ commit' = [commit EXCEPT ![e] = CommitOf(c)]
        /\ unknown' = IF c = Unknown THEN unknown \cup {e} ELSE unknown
        /\ Goto(t, "settle_read")
        /\ UNCHANGED <<effect, reservation, job, cursor, request, owner, minted, dispatched, bounds>>

SettleRead(t) ==
    /\ At(t, "settle_read")
    /\ tick' = [tick EXCEPT ![t].pc = "settle_job", ![t].row = job[tick[t].eff]]
    /\ UNCHANGED <<rows, cursor, request, owner, minted, ghosts, bounds>>

SettleJob(t) ==
    LET failure == IF tick[t].status = "completed" THEN "none" ELSE tick[t].error
    IN  /\ At(t, "settle_job")
        /\ job' = [job EXCEPT ![tick[t].eff] = Settled(tick[t].row, tick[t].status, failure)]
        /\ Goto(t, "settle_ledger")
        /\ UNCHANGED <<effect, reservation, commit, cursor, request, owner, minted, ghosts, bounds>>

\* exceeded_limit turns a settlement into an error; a failed dispatch ends in
\* an error in any case.
SettleLedger(t) ==
    LET over == ExceededLimit(Ledger)
    IN  /\ At(t, "settle_ledger")
        /\ \/ /\ tick[t].then = "executor"
              /\ Goto(t, IF over \/ tick[t].status = "failed" THEN "reread" ELSE "ensure")
           \/ /\ tick[t].then # "executor"
              /\ Goto(t, IF over THEN "error" ELSE tick[t].then)
        /\ UNCHANGED <<rows, cursor, request, owner, minted, ghosts, bounds>>

-----------------------------------------------------------------------------
(* terminalize_aborted_gepa_run *)

\* Fault: the pending job is settled again although it is over.
AbortJobAlways(t) ==
    LET e == tick[t].cur.pending
    IN  /\ At(t, "abort_job")
        /\ IF e # NoEffect THEN AbortSettle(t, e, "abort_list", {}) ELSE Goto(t, "abort_list")
        /\ UNCHANGED <<rows, cursor, request, owner, minted, ghosts, bounds>>

\* terminalize_pending_runtime_job_for_abort
AbortJob(t) ==
    LET e == tick[t].cur.pending
    IN  /\ At(t, "abort_job")
        /\ IF e # NoEffect /\ job[e].status \notin JobTerminal
           THEN AbortSettle(t, e, "abort_list", {})
           ELSE Goto(t, "abort_list")
        /\ UNCHANGED <<rows, cursor, request, owner, minted, ghosts, bounds>>

\* terminalize_pending_runtime_work_for_abort reads the list of effects once.
AbortList(t) ==
    LET open == {e \in Effects : effect[e].status \in {"planned", "running"}}
    IN  /\ At(t, "abort_list")
        /\ tick' = [tick EXCEPT ![t].pc = "abort_next",
                                ![t].todo = {<<e, effect[e].linked>> : e \in open}]
        /\ UNCHANGED <<rows, cursor, request, owner, minted, ghosts, bounds>>

\* One effect of the list; without a reservation only its own row is ended.
AbortNext(t) ==
    LET list  == tick[t].todo
        First(x) == x \in list /\ \A y \in list : x[1] <= y[1]
    IN  /\ At(t, "abort_next")
        /\ \/ /\ list = {}
              /\ Goto(t, "terminal")
              /\ effect' = effect
           \/ \E x \in list :
                /\ First(x) /\ x[2]
                /\ AbortSettle(t, x[1], "abort_next", list \ {x})
                /\ effect' = effect
           \/ \E x \in list :
                /\ First(x) /\ ~x[2]
                /\ effect' = [effect EXCEPT ![x[1]] = [status |-> tick[t].out, linked |-> FALSE]]
                /\ tick' = [tick EXCEPT ![t].todo = list \ {x}]
        /\ UNCHANGED <<reservation, commit, job, cursor, request, owner, minted, ghosts, bounds>>

-----------------------------------------------------------------------------
(* The end of a run, and of a tick *)

\* terminalize_gepa_run_state, or the last save of finalize_completed_gepa_run.
Terminalize(t) ==
    LET k == tick[t].cur
    IN  /\ At(t, "terminal")
        /\ cursor' = Persist(cursor, [k EXCEPT !.seq = @ + 1, !.phase = tick[t].out])
        /\ Goto(t, "finish")
        /\ UNCHANGED <<rows, request, owner, minted, ghosts, bounds>>

\* Write the request's status under its lease.
SettleRequest(t, s) ==
    request' = IF request = "active" /\ owner = t THEN s ELSE request

\* terminalize_advanced_run_request
Finish(t) ==
    /\ At(t, "finish")
    /\ SettleRequest(t, tick[t].out)
    /\ EndTick(t)
    /\ UNCHANGED <<rows, cursor, owner, minted, ghosts, bounds>>

\* terminalize_run_request_error
FinishWithError(t) ==
    /\ At(t, "error")
    /\ SettleRequest(t, "failed")
    /\ EndTick(t)
    /\ UNCHANGED <<rows, cursor, owner, minted, ghosts, bounds>>

TickStep(t) ==
    \/ Load(t) \/ CheckCancelled(t)
    \/ PlanExisting(t) \/ PlanNew(t) \/ Finalize(t) \/ RecordPlanned(t) \/ Admit(t)
    \/ Reject(t) \/ Reserve(t) \/ Enqueue(t) \/ Link(t) \/ SaveCursor(t)
    \/ PendingJob(t) \/ Claim(t) \/ MarkRunning(t) \/ RecordRunning(t)
    \/ DispatchOk(t) \/ DispatchErr(t) \/ ScheduleRetry(t)
    \/ ReadForOutcome(t) \/ WriteOutcome(t) \/ EnsureLease(t) \/ Reread(t) \/ FailedJob(t)
    \/ SettleEffect(t) \/ SettleReservation(t) \/ SettleCommit(t) \/ SettleRead(t)
    \/ SettleJob(t) \/ SettleLedger(t)
    \/ AbortJob(t) \/ AbortList(t) \/ AbortNext(t)
    \/ Terminalize(t) \/ Finish(t) \/ FinishWithError(t)

-----------------------------------------------------------------------------
(* What happens around the ticks *)

Held(e) == \E t \in Threads : tick[t].lease = job[e].lease

\* lease_expires_at passes.  A live holder sends no heartbeat while it waits
\* for the dispatch, so its lease may lapse as well.
Expire(e) ==
    /\ InHand(job[e]) /\ ~job[e].late
    /\ Held(e) => expiries < MaxExpiries
    /\ expiries' = IF Held(e) THEN expiries + 1 ELSE expiries
    /\ job' = [job EXCEPT ![e].late = TRUE]
    /\ UNCHANGED <<effect, reservation, commit, cursor, request, owner, tick, minted,
                   ghosts, crashes, steals>>

\* next_retry_at passes.
BecomeDue(e) ==
    /\ job[e].status = "retry_scheduled" /\ ~job[e].due
    /\ job' = [job EXCEPT ![e].due = TRUE]
    /\ UNCHANGED <<effect, reservation, commit, cursor, request, owner, tick, minted,
                   ghosts, bounds>>

\* recover_service_state, at the start of each tick of the primary worker.
Recover ==
    /\ \E e \in Effects : InHand(job[e]) /\ job[e].late
    /\ job' = RecoveredJobs
    /\ UNCHANGED <<effect, reservation, commit, cursor, request, owner, tick, minted,
                   ghosts, bounds>>

\* POST /runs/{id}/cancel.  Bound: a run is cancelled or loses its lease to another worker, not both.
Cancel ==
    /\ Cancellable /\ request = "active" /\ steals = 0
    /\ request' = "cancelled"
    /\ UNCHANGED <<rows, cursor, owner, tick, minted, ghosts, bounds>>

\* The lease of the run request lapses under a slow tick, and an idle worker
\* claims the request.
Steal(w) ==
    /\ steals < MaxSteals /\ request = "active"
    /\ w # owner /\ At(w, "idle")
    /\ owner' = w
    /\ steals' = steals + 1
    /\ UNCHANGED <<rows, cursor, request, tick, minted, ghosts, expiries, crashes>>

\* The process ends and is started again: what the threads held is gone.
Crash ==
    /\ crashes < MaxCrashes
    /\ tick' = [t \in Threads |-> Resting]
    /\ crashes' = crashes + 1
    /\ UNCHANGED <<rows, cursor, request, owner, minted, ghosts, expiries, steals>>

Next ==
    \/ \E t \in Threads : TickStep(t)
    \/ \E e \in Effects : Expire(e) \/ BecomeDue(e)
    \/ Recover \/ Cancel \/ Crash
    \/ \E w \in Workers : Steal(w)

Spec == Init /\ [][Next]_vars

\* Threads keep ticking and finish what they started; leases that nobody
\* holds lapse, backoffs pass, and the primary worker keeps recovering.
Fairness ==
    /\ \A t \in Threads : WF_vars(TickStep(t))
    /\ \A e \in Effects : WF_vars(~Held(e) /\ Expire(e)) /\ WF_vars(BecomeDue(e))
    /\ WF_vars(Recover)

FairSpec == Spec /\ Fairness

-----------------------------------------------------------------------------
(* Properties *)

\* An effect is dispatched at most as often as its retry policy allows, through
\* retries, lapsed leases, crashes and aborts; a proposer turn at most once.
DispatchBound == \A e \in Effects : dispatched[e] <= MaxAttempts(e)

\* How far the settled cost of the effects went beyond their estimates.
OverrunOf(e) ==
    IF commit[e].there /\ commit[e].cost # Unknown /\ commit[e].cost > Estimate[e]
    THEN commit[e].cost - Estimate[e] ELSE 0

Overrun == SumFunctionOnSet([e \in Effects |-> OverrunOf(e)], Effects)

\* What is spent and reserved together passes the limit by no more than single
\* effects passed their own estimate.
LedgerBounded ==
    \/ MaxCost = NoLimit \/ Ledger = Unknown
    \/ Ledger <= MaxCost + Overrun

\* A completed job has its outcome, or the run that must consume it fails
\* (runtime_outcome_from_job); a cancelled run consumes nothing.
CompletedHasOutcome ==
    request # "cancelled" =>
        \A e \in Effects : job[e].status = "completed" => job[e].outcome

\* An effect the cursor has passed is not open again: its job is over.
ConsumedIsOver ==
    request # "cancelled" =>
        \A e \in Effects : e < cursor.next => job[e].status \in JobTerminal

\* The cursor passes no effect the provider was never asked for, whoever moves
\* it and however stale what they read.
ConsumedWasDispatched == \A e \in Effects : e < cursor.next => dispatched[e] > 0

\* Money that went to a provider is on the books: the reservation still
\* stands, or there is a commit, or a thread is between the two writes.
PaidIsAccounted ==
    \A e \in Effects : dispatched[e] > 0 =>
        \/ reservation[e] = "reserved" \/ commit[e].there
        \/ \E t \in Threads : At(t, "settle_commit") /\ tick[t].eff = e

\* The run's books: nothing passed over unasked, nothing paid and forgotten.
PaidOnTheBooks == PaidIsAccounted /\ ConsumedWasDispatched

\* A run that is served ends, whatever its effects do.
RunSettles == request = "active" ~> request # "active"

\* A cancelled run gets a terminal cursor, whatever the worker was doing.
CancelReachesCursor == request = "cancelled" ~> cursor.phase # "work"

\* The rows of different tables agree although no transaction spans them: the
\* ledger stays within the limit, a completed job has its outcome, and what the
\* cursor has passed is over.
BooksHold == LedgerBounded /\ CompletedHasOutcome /\ ConsumedIsOver
=============================================================================
