------------------------ MODULE RuntimeEffectsProofs ------------------------
(***************************************************************************)
(* Type correctness of RuntimeEffects: what a tick holds is what its next   *)
(* statement needs; and the books: an effect is passed only when it was     *)
(* dispatched, and what was dispatched is reserved or committed.  For any   *)
(* number of effects, workers and faults.                                   *)
(***************************************************************************)
EXTENDS RuntimeEffects, TLAPS, FiniteSetTheorems, WellFoundedInduction

-----------------------------------------------------------------------------
(* What the fields of a tick hold, by where the thread is *)

EffPc == {"record", "admit", "reject", "reserve", "enqueue", "link", "claim", "run",
          "mark", "dispatch", "retry", "outcome_read", "outcome_write", "ensure",
          "again_read", "again_write", "reread", "failed_job"} \cup SettlePc

AbortPc == {"abort_job", "abort_list", "abort_next"}

Ending == {"failed", "cancelled"}

TickOK(r) ==
    /\ r.pc \in EffPc => r.eff \in Effects
    /\ r.pc = "pending" => r.cur.pending \in Effects
    /\ r.pc \in SettlePc \cup {"outcome_read", "outcome_write"} =>
         r.status \in {"completed", "failed", "cancelled"}
    /\ r.pc \in AbortPc \/ (r.pc \in SettlePc /\ r.then # "executor") => r.out \in Ending
    /\ r.pc \in {"terminal", "finish"} => r.out \in CursorTerminal
    /\ r.pc \in PlanPc \cup ExecPc \cup {"idle", "check"} => r.then = "executor"
    /\ r.pc = "retry" => r.error \in ErrorClass

TypeInv == TypeOK /\ \A t \in Threads : TickOK(tick[t])

-----------------------------------------------------------------------------
(* Type correctness *)

\* A step of thread t leaves it with the tick r, and the other threads alone.
Becomes(t, r) == r \in Tick /\ TickOK(r) /\ tick' = [tick EXCEPT ![t] = r]

LEMMA GotoBecomes ==
    ASSUME TypeInv, NEW t \in Threads, NEW p \in TickPc, Goto(t, p),
           TickOK([tick[t] EXCEPT !.pc = p])
    PROVE  Becomes(t, [tick[t] EXCEPT !.pc = p])
  BY DEF Goto, TypeInv, TypeOK, Tick, Becomes

LEMMA SaveNextBecomes ==
    ASSUME TypeInv, NEW t \in Threads, NEW k \in Cursor, SaveNext(t, k)
    PROVE  Becomes(t, [tick[t] EXCEPT !.pc = "save", !.cur = k])
  <1>1. tick' = [tick EXCEPT ![t] = [tick[t] EXCEPT !.pc = "save", !.cur = k]]
    BY DEF SaveNext, TypeInv, TypeOK
  <1>2. tick[t] \in Tick /\ "save" \in TickPc
    BY DEF TypeInv, TypeOK, TickPc
  <1>3. [tick[t] EXCEPT !.pc = "save", !.cur = k] \in Tick
    BY <1>2 DEF Tick
  <1>4. TickOK([tick[t] EXCEPT !.pc = "save", !.cur = k])
    BY <1>2 DEF TickOK, EffPc, SettlePc, AbortPc, PlanPc, ExecPc, Tick
  <1> QED  BY <1>1, <1>3, <1>4 DEF Becomes

LEMMA BeginAbortBecomes ==
    ASSUME TypeInv, NEW t \in Threads, NEW s \in Ending, BeginAbort(t, s)
    PROVE  Becomes(t, [tick[t] EXCEPT !.pc = "abort_job", !.out = s])
  <1>1. tick' = [tick EXCEPT ![t] = [tick[t] EXCEPT !.pc = "abort_job", !.out = s]]
    BY DEF BeginAbort, TypeInv, TypeOK
  <1>2. tick[t] \in Tick /\ "abort_job" \in TickPc /\ s \in CursorTerminal
    BY DEF TypeInv, TypeOK, TickPc, Ending, CursorTerminal
  <1>3. [tick[t] EXCEPT !.pc = "abort_job", !.out = s] \in Tick
    BY <1>2 DEF Tick
  <1>4. TickOK([tick[t] EXCEPT !.pc = "abort_job", !.out = s])
    BY <1>2 DEF TickOK, EffPc, SettlePc, AbortPc, PlanPc, ExecPc, Tick
  <1> QED  BY <1>1, <1>3, <1>4 DEF Becomes

LEMMA BeginSettleBecomes ==
    ASSUME TypeInv, NEW t \in Threads, NEW e \in Effects, NEW c \in Cost,
           NEW x \in ErrorClass, BeginSettle(t, e, "failed", c, x), tick[t].then = "executor"
    PROVE  Becomes(t, [tick[t] EXCEPT !.pc = "settle_effect", !.eff = e, !.status = "failed",
                                      !.cost = c, !.error = x])
  <1> DEFINE r == [tick[t] EXCEPT !.pc = "settle_effect", !.eff = e, !.status = "failed",
                                  !.cost = c, !.error = x]
  <1>1. tick' = [tick EXCEPT ![t] = r]
    BY DEF BeginSettle, TypeInv, TypeOK
  <1>2. tick[t] \in Tick /\ "settle_effect" \in TickPc /\ "failed" \in EffectTerminal
    BY DEF TypeInv, TypeOK, TickPc, SettlePc, EffectTerminal
  <1>3. r \in Tick
    BY <1>2 DEF Tick
  <1>4. TickOK(r)
    BY <1>2 DEF TickOK, EffPc, SettlePc, AbortPc, PlanPc, ExecPc, Tick
  <1> QED  BY <1>1, <1>3, <1>4 DEF Becomes

LEMMA AbortSettleBecomes ==
    ASSUME TypeInv, NEW t \in Threads, NEW e \in Effects, tick[t].out \in Ending,
           NEW th \in {"abort_list", "abort_next"}, NEW left \in SUBSET (Effects \X BOOLEAN),
           AbortSettle(t, e, th, left)
    PROVE  Becomes(t, [tick[t] EXCEPT !.pc = "settle_effect", !.eff = e,
                                      !.status = tick[t].out, !.cost = Unknown,
                                      !.error = "fatal", !.then = th, !.todo = left])
  <1> DEFINE r == [tick[t] EXCEPT !.pc = "settle_effect", !.eff = e,
                                  !.status = tick[t].out, !.cost = Unknown,
                                  !.error = "fatal", !.then = th, !.todo = left]
  <1>1. tick' = [tick EXCEPT ![t] = r]
    BY DEF AbortSettle, TypeInv, TypeOK
  <1>2. /\ tick[t] \in Tick /\ "settle_effect" \in TickPc /\ tick[t].out \in EffectTerminal
        /\ Unknown \in Cost /\ "fatal" \in ErrorClass
        /\ th \in {"executor", "abort_list", "abort_next"}
    BY DEF TypeInv, TypeOK, TickPc, SettlePc, EffectTerminal, Ending, Cost, ErrorClass
  <1>3. r \in Tick
    BY <1>2 DEF Tick
  <1>4. TickOK(r)
    BY <1>2 DEF TickOK, EffPc, SettlePc, AbortPc, PlanPc, ExecPc, Tick, Ending
  <1> QED  BY <1>1, <1>3, <1>4 DEF Becomes

LEMMA RestingOK == Resting \in Tick /\ TickOK(Resting) /\ NewCursor \in Cursor /\ AbsentJob \in Job
  <1>1. NewCursor \in Cursor
    BY EffectsAssumption DEF NewCursor, Cursor, NoEffect, CursorTerminal, Effects
  <1>2. AbsentJob \in Job
    BY DEF AbsentJob, Job, JobStatus, NoLease, ErrorClass
  <1>3. Resting \in Tick
    BY <1>1, <1>2 DEF Resting, Tick, TickPc, NoEffect, NoLease, Cost, EffectTerminal
  <1>4. TickOK(Resting)
    BY DEF Resting, TickOK, EffPc, SettlePc, AbortPc, PlanPc, ExecPc
  <1> QED  BY <1>1, <1>2, <1>3, <1>4

LEMMA EndTickBecomes ==
    ASSUME TypeInv, NEW t \in Threads, EndTick(t)
    PROVE  Becomes(t, Resting)
  BY RestingOK DEF EndTick, Becomes

\* The rows and counters, without the ticks.
DataOK ==
    /\ effect \in [Effects -> EffectRow]
    /\ reservation \in [Effects -> ReservationStatus]
    /\ commit \in [Effects -> Commit]
    /\ job \in [Effects -> Job]
    /\ cursor \in Cursor
    /\ request \in CursorTerminal \cup {"active"}
    /\ owner \in Workers
    /\ minted \in Nat
    /\ dispatched \in [Effects -> Nat]
    /\ unknown \in SUBSET Effects
    /\ expiries \in 0 .. MaxExpiries
    /\ crashes \in 0 .. MaxCrashes
    /\ steals \in 0 .. MaxSteals

LEMMA TypeParts == TypeOK <=> DataOK /\ tick \in [Threads -> Tick]
  BY DEF TypeOK, DataOK

LEMMA BecomesKeepsType ==
    ASSUME TypeInv, NEW t \in Threads, NEW r, Becomes(t, r), DataOK'
    PROVE  TypeInv'
  BY DEF TypeInv, TypeOK, Becomes, DataOK

\* What the statements on a job do to the columns the bound rests on.
LEMMA JobFacts ==
    ASSUME NEW j \in Job, NEW l \in Nat, NEW s \in JobStatus,
           NEW c \in ErrorClass \cup {"none"}
    PROVE  /\ Enqueued \in Job /\ Enqueued.attempt = 0 /\ Enqueued.status = "pending"
           /\ Claimed(j, l) \in Job /\ Claimed(j, l).attempt = j.attempt + 1
           /\ Claimed(j, l).status = "leased"
           /\ Running(j) \in Job /\ Running(j).attempt = j.attempt /\ Running(j).status = "running"
           /\ Rescheduled(j, c) \in Job /\ Rescheduled(j, c).attempt = j.attempt
           /\ Rescheduled(j, c).status = "retry_scheduled"
           /\ Settled(j, s, c) \in Job /\ Settled(j, s, c).attempt = j.attempt
           /\ Settled(j, s, c).status = s
           /\ WithOutcome(j) \in Job /\ WithOutcome(j).attempt = j.attempt
           /\ WithOutcome(j).status = j.status
  <1>1. /\ Enqueued \in Job /\ Enqueued.attempt = 0 /\ Enqueued.status = "pending"
    BY RestingOK DEF AbsentJob, JobStatus, Enqueued, Job
  <1>2. /\ Claimed(j, l) \in Job /\ Claimed(j, l).attempt = j.attempt + 1
        /\ Claimed(j, l).status = "leased"
    <2>1. "leased" \in JobStatus /\ j.attempt \in Nat /\ j.attempt + 1 \in Nat
      BY DEF Job, JobStatus
    <2> QED  BY <2>1 DEF Claimed, Job
  <1>3. Running(j) \in Job /\ Running(j).attempt = j.attempt /\ Running(j).status = "running"
    BY DEF Running, Job, JobStatus
  <1>4. \A x \in ErrorClass \cup {"none"} :
          /\ Rescheduled(j, x) \in Job /\ Rescheduled(j, x).attempt = j.attempt
          /\ Rescheduled(j, x).status = "retry_scheduled"
    BY DEF Rescheduled, Job, JobStatus, NoLease
  <1>5. /\ Settled(j, s, c) \in Job /\ Settled(j, s, c).attempt = j.attempt
        /\ Settled(j, s, c).status = s
    BY DEF Settled, Job
  <1>6. /\ WithOutcome(j) \in Job /\ WithOutcome(j).attempt = j.attempt
        /\ WithOutcome(j).status = j.status
    BY DEF WithOutcome, Job
  <1> QED  BY <1>1, <1>2, <1>3, <1>4, <1>5, <1>6

LEMMA RecoverFacts ==
    ASSUME NEW j \in Job, NEW max \in Nat
    PROVE  /\ RecoverExpired(j, max) \in Job /\ RecoverExpired(j, max).attempt = j.attempt
           /\ \/ RecoverExpired(j, max) = j
              \/ /\ InHand(j)
                 /\ \/ RecoverExpired(j, max).status = "retry_scheduled" /\ j.attempt < max
                    \/ RecoverExpired(j, max).status = "expired"
  <1>1. j.failure \in ErrorClass \cup {"none"} /\ 0 \in Nat /\ "failed" \in JobStatus
    BY DEF Job, JobStatus
  <1>2. /\ Rescheduled(j, j.failure) \in Job /\ Rescheduled(j, j.failure).attempt = j.attempt
        /\ Rescheduled(j, j.failure).status = "retry_scheduled"
    BY <1>1, JobFacts
  <1>3. LET x == [j EXCEPT !.status = "expired", !.lease = NoLease, !.due = TRUE, !.late = FALSE]
        IN  x \in Job /\ x.attempt = j.attempt /\ x.status = "expired"
    BY DEF Job, JobStatus, NoLease
  <1> QED  BY <1>2, <1>3 DEF RecoverExpired

LEMMA Policy == \A e \in Effects : MaxAttempts(e) \in Nat /\ MaxAttempts(e) >= 1
  BY DEF MaxAttempts

\* recover_expired_optimizer_jobs keeps every count of attempts.
LEMMA RecoveredFacts ==
    ASSUME TypeInv
    PROVE  /\ RecoveredJobs \in [Effects -> Job]
           /\ \A e \in Effects :
                /\ RecoveredJobs[e].attempt = job[e].attempt
                /\ \/ RecoveredJobs[e] = job[e]
                   \/ /\ InHand(job[e])
                      /\ \/ RecoveredJobs[e].status = "retry_scheduled" /\ job[e].attempt < MaxAttempts(e)
                         \/ RecoveredJobs[e].status = "expired"
  <1>1. \A e \in Effects : job[e] \in Job
    BY DEF TypeInv, TypeOK
  <1>2. \A e \in Effects :
          /\ RecoverExpired(job[e], MaxAttempts(e)) \in Job
          /\ RecoverExpired(job[e], MaxAttempts(e)).attempt = job[e].attempt
          /\ \/ RecoverExpired(job[e], MaxAttempts(e)) = job[e]
             \/ /\ InHand(job[e])
                /\ \/ /\ RecoverExpired(job[e], MaxAttempts(e)).status = "retry_scheduled"
                      /\ job[e].attempt < MaxAttempts(e)
                   \/ RecoverExpired(job[e], MaxAttempts(e)).status = "expired"
    <2> TAKE e \in Effects
    <2>1. job[e] \in Job /\ MaxAttempts(e) \in Nat
      BY <1>1, Policy
    <2> QED  BY <2>1, RecoverFacts
  <1> QED  BY <1>2 DEF RecoveredJobs

LEMMA EnqueuedOK == Enqueued \in Job
  BY RestingOK, JobFacts DEF JobStatus

LEMMA RecordPlannedType ==
    ASSUME TypeInv, NEW t \in Threads, RecordPlanned(t)
    PROVE  TypeInv'
  <1> USE DEF At
  <1>1. tick[t] \in Tick /\ TickOK(tick[t]) /\ DataOK
    BY TypeParts DEF TypeInv, TypeOK
  <1>2. Goto(t, "admit") /\ "admit" \in TickPc
    BY DEF RecordPlanned, TickPc, PlanPc, ExecPc, SettlePc
  <1>3. TickOK([tick[t] EXCEPT !.pc = "admit"])
    BY <1>1 DEF RecordPlanned, TickOK, EffPc, SettlePc, AbortPc, PlanPc, ExecPc, Tick
  <1>4. DataOK'
    <2>1. tick[t].eff \in Effects
      BY <1>1 DEF RecordPlanned, TickOK, EffPc, SettlePc
    <2>2. [status |-> "planned", linked |-> FALSE] \in EffectRow
      BY <1>1 DEF RecordPlanned, EffectRow, EffectStatus, EffectTerminal, TickOK, SettlePc
    <2> QED  BY <1>1, <2>1, <2>2 DEF RecordPlanned, DataOK, rows, ghosts, bounds
  <1> QED  BY <1>2, <1>3, <1>4, GotoBecomes, BecomesKeepsType

LEMMA RejectType ==
    ASSUME TypeInv, NEW t \in Threads, Reject(t)
    PROVE  TypeInv'
  <1> USE DEF At
  <1>1. tick[t] \in Tick /\ TickOK(tick[t]) /\ DataOK
    BY TypeParts DEF TypeInv, TypeOK
  <1>2. Goto(t, "error") /\ "error" \in TickPc
    BY DEF Reject, TickPc, PlanPc, ExecPc, SettlePc, Err
  <1>3. TickOK([tick[t] EXCEPT !.pc = "error"])
    BY <1>1 DEF Reject, TickOK, EffPc, SettlePc, AbortPc, PlanPc, ExecPc, Tick
  <1>4. DataOK'
    <2>1. tick[t].eff \in Effects
      BY <1>1 DEF Reject, TickOK, EffPc, SettlePc
    <2>2. [status |-> "rejected", linked |-> FALSE] \in EffectRow
      BY <1>1 DEF Reject, EffectRow, EffectStatus, EffectTerminal, TickOK, SettlePc
    <2> QED  BY <1>1, <2>1, <2>2 DEF Reject, DataOK, rows, ghosts, bounds
  <1> QED  BY <1>2, <1>3, <1>4, GotoBecomes, BecomesKeepsType

LEMMA ReserveType ==
    ASSUME TypeInv, NEW t \in Threads, Reserve(t)
    PROVE  TypeInv'
  <1> USE DEF At
  <1>1. tick[t] \in Tick /\ TickOK(tick[t]) /\ DataOK
    BY TypeParts DEF TypeInv, TypeOK
  <1>2. Goto(t, "enqueue") /\ "enqueue" \in TickPc
    BY DEF Reserve, TickPc, PlanPc, ExecPc, SettlePc
  <1>3. TickOK([tick[t] EXCEPT !.pc = "enqueue"])
    BY <1>1 DEF Reserve, TickOK, EffPc, SettlePc, AbortPc, PlanPc, ExecPc, Tick
  <1>4. DataOK'
    BY <1>1 DEF Reserve, TickOK, EffPc, ReservationStatus, DataOK, rows, ghosts, bounds
  <1> QED  BY <1>2, <1>3, <1>4, GotoBecomes, BecomesKeepsType

LEMMA EnqueueType ==
    ASSUME TypeInv, NEW t \in Threads, Enqueue(t)
    PROVE  TypeInv'
  <1> USE DEF At
  <1>1. tick[t] \in Tick /\ TickOK(tick[t]) /\ DataOK
    BY TypeParts DEF TypeInv, TypeOK
  <1>2. Goto(t, "link") /\ "link" \in TickPc
    BY DEF Enqueue, TickPc, PlanPc, ExecPc, SettlePc
  <1>3. TickOK([tick[t] EXCEPT !.pc = "link"])
    BY <1>1 DEF Enqueue, TickOK, EffPc, SettlePc, AbortPc, PlanPc, ExecPc, Tick
  <1>4. DataOK'
    BY <1>1, EnqueuedOK DEF Enqueue, TickOK, EffPc, DataOK, rows, ghosts, bounds
  <1> QED  BY <1>2, <1>3, <1>4, GotoBecomes, BecomesKeepsType

LEMMA RecordRunningType ==
    ASSUME TypeInv, NEW t \in Threads, RecordRunning(t)
    PROVE  TypeInv'
  <1> USE DEF At
  <1>1. tick[t] \in Tick /\ TickOK(tick[t]) /\ DataOK
    BY TypeParts DEF TypeInv, TypeOK
  <1>2. Goto(t, "dispatch") /\ "dispatch" \in TickPc
    BY DEF RecordRunning, TickPc, PlanPc, ExecPc, SettlePc
  <1>3. TickOK([tick[t] EXCEPT !.pc = "dispatch"])
    BY <1>1 DEF RecordRunning, TickOK, EffPc, SettlePc, AbortPc, PlanPc, ExecPc, Tick
  <1>4. DataOK'
    <2>1. tick[t].eff \in Effects
      BY <1>1 DEF RecordRunning, TickOK, EffPc, SettlePc
    <2>2. [status |-> "running", linked |-> TRUE] \in EffectRow
      BY <1>1 DEF RecordRunning, EffectRow, EffectStatus, EffectTerminal, TickOK, SettlePc
    <2> QED  BY <1>1, <2>1, <2>2 DEF RecordRunning, DataOK, rows, ghosts, bounds
  <1> QED  BY <1>2, <1>3, <1>4, GotoBecomes, BecomesKeepsType

LEMMA SettleEffectType ==
    ASSUME TypeInv, NEW t \in Threads, SettleEffect(t)
    PROVE  TypeInv'
  <1> USE DEF At
  <1>1. tick[t] \in Tick /\ TickOK(tick[t]) /\ DataOK
    BY TypeParts DEF TypeInv, TypeOK
  <1>2. Goto(t, "settle_reservation") /\ "settle_reservation" \in TickPc
    BY DEF SettleEffect, TickPc, PlanPc, ExecPc, SettlePc
  <1>3. TickOK([tick[t] EXCEPT !.pc = "settle_reservation"])
    BY <1>1 DEF SettleEffect, TickOK, EffPc, SettlePc, AbortPc, PlanPc, ExecPc, Tick
  <1>4. DataOK'
    <2>1. tick[t].eff \in Effects
      BY <1>1 DEF SettleEffect, TickOK, EffPc, SettlePc
    <2>2. [status |-> tick[t].status, linked |-> TRUE] \in EffectRow
      BY <1>1 DEF SettleEffect, EffectRow, EffectStatus, EffectTerminal, TickOK, SettlePc
    <2> QED  BY <1>1, <2>1, <2>2 DEF SettleEffect, DataOK, rows, ghosts, bounds
  <1> QED  BY <1>2, <1>3, <1>4, GotoBecomes, BecomesKeepsType

LEMMA SettleReservationType ==
    ASSUME TypeInv, NEW t \in Threads, SettleReservation(t)
    PROVE  TypeInv'
  <1> USE DEF At
  <1>1. tick[t] \in Tick /\ TickOK(tick[t]) /\ DataOK
    BY TypeParts DEF TypeInv, TypeOK
  <1>2. Goto(t, "settle_commit") /\ "settle_commit" \in TickPc
    BY DEF SettleReservation, TickPc, PlanPc, ExecPc, SettlePc
  <1>3. TickOK([tick[t] EXCEPT !.pc = "settle_commit"])
    BY <1>1 DEF SettleReservation, TickOK, EffPc, SettlePc, AbortPc, PlanPc, ExecPc, Tick
  <1>4. DataOK'
    BY <1>1 DEF SettleReservation, TickOK, EffPc, SettlePc, ReservationStatus, DataOK, rows,
       ghosts, bounds
  <1> QED  BY <1>2, <1>3, <1>4, GotoBecomes, BecomesKeepsType

LEMMA SettleCommitType ==
    ASSUME TypeInv, NEW t \in Threads, SettleCommit(t)
    PROVE  TypeInv'
  <1> USE DEF At
  <1>1. tick[t] \in Tick /\ TickOK(tick[t]) /\ DataOK
    BY TypeParts DEF TypeInv, TypeOK
  <1>2. Goto(t, "settle_read") /\ "settle_read" \in TickPc
    BY DEF SettleCommit, TickPc, PlanPc, ExecPc, SettlePc
  <1>3. TickOK([tick[t] EXCEPT !.pc = "settle_read"])
    BY <1>1 DEF SettleCommit, TickOK, EffPc, SettlePc, AbortPc, PlanPc, ExecPc, Tick
  <1>4. DataOK'
    <2> DEFINE c == SettledEffectCost(tick[t].status, tick[t].cost, Estimate[tick[t].eff])
    <2>1. tick[t].eff \in Effects
      BY <1>1 DEF SettleCommit, TickOK, EffPc, SettlePc
    <2>2. c \in Cost
      BY <1>1, <2>1, EffectsAssumption DEF SettledEffectCost, Cost, Tick
    <2>3. CommitOf(c) \in Commit
      BY <2>2 DEF CommitOf, Commit
    <2>4. commit' = [commit EXCEPT ![tick[t].eff] = CommitOf(c)]
      BY DEF SettleCommit
    <2>5. unknown' \in SUBSET Effects
      BY <1>1, <2>1 DEF SettleCommit, DataOK
    <2> QED  BY <1>1, <2>1, <2>3, <2>4, <2>5 DEF SettleCommit, DataOK, bounds
  <1> QED  BY <1>2, <1>3, <1>4, GotoBecomes, BecomesKeepsType

LEMMA SettleJobType ==
    ASSUME TypeInv, NEW t \in Threads, SettleJob(t)
    PROVE  TypeInv'
  <1> USE DEF At
  <1>1. tick[t] \in Tick /\ TickOK(tick[t]) /\ DataOK
    BY TypeParts DEF TypeInv, TypeOK
  <1>2. Goto(t, "settle_ledger") /\ "settle_ledger" \in TickPc
    BY DEF SettleJob, TickPc, PlanPc, ExecPc, SettlePc
  <1>3. TickOK([tick[t] EXCEPT !.pc = "settle_ledger"])
    BY <1>1 DEF SettleJob, TickOK, EffPc, SettlePc, AbortPc, PlanPc, ExecPc, Tick
  <1>4. DataOK'
    <2> DEFINE x == IF tick[t].status = "completed" THEN "none" ELSE tick[t].error
    <2>1. tick[t].eff \in Effects /\ tick[t].status \in JobStatus /\ 0 \in Nat
      BY <1>1 DEF SettleJob, TickOK, EffPc, SettlePc, JobStatus
    <2>2. x \in ErrorClass \cup {"none"} /\ tick[t].row \in Job
      BY <1>1 DEF Tick
    <2>3. Settled(tick[t].row, tick[t].status, x) \in Job
      BY <2>1, <2>2, JobFacts
    <2>4. job' = [job EXCEPT ![tick[t].eff] = Settled(tick[t].row, tick[t].status, x)]
      BY DEF SettleJob
    <2> QED  BY <1>1, <2>1, <2>3, <2>4 DEF SettleJob, DataOK, rows, ghosts, bounds
  <1> QED  BY <1>2, <1>3, <1>4, GotoBecomes, BecomesKeepsType

LEMMA AdmitType ==
    ASSUME TypeInv, NEW t \in Threads, Admit(t)
    PROVE  TypeInv'
  <1> USE DEF At
  <1>1. tick[t] \in Tick /\ TickOK(tick[t]) /\ DataOK
    BY TypeParts DEF TypeInv, TypeOK
  <1> DEFINE p == IF BreachForRequest(Ledger, Estimate[tick[t].eff]) THEN "reject" ELSE "reserve"
  <1>2. Goto(t, p) /\ p \in TickPc
    BY DEF Admit, TickPc, PlanPc, ExecPc, SettlePc
  <1>3. TickOK([tick[t] EXCEPT !.pc = p])
    BY <1>1 DEF Admit, TickOK, EffPc, SettlePc, AbortPc, PlanPc, ExecPc, Tick
  <1>4. DataOK'
    BY <1>1 DEF Admit, DataOK, rows, ghosts, bounds
  <1> QED  BY <1>2, <1>3, <1>4, GotoBecomes, BecomesKeepsType

LEMMA EnsureLeaseType ==
    ASSUME TypeInv, NEW t \in Threads, EnsureLease(t)
    PROVE  TypeInv'
  <1> USE DEF At
  <1>1. tick[t] \in Tick /\ TickOK(tick[t]) /\ DataOK
    BY TypeParts DEF TypeInv, TypeOK
  <1> DEFINE p == IF job[tick[t].eff].lease = tick[t].lease /\ job[tick[t].eff].status = "completed"
                  THEN "again_read" ELSE "reread"
  <1>2. Goto(t, p) /\ p \in TickPc
    BY DEF EnsureLease, TickPc, PlanPc, ExecPc, SettlePc
  <1>3. TickOK([tick[t] EXCEPT !.pc = p])
    BY <1>1 DEF EnsureLease, TickOK, EffPc, SettlePc, AbortPc, PlanPc, ExecPc, Tick
  <1>4. DataOK'
    BY <1>1 DEF EnsureLease, DataOK, rows, ghosts, bounds
  <1> QED  BY <1>2, <1>3, <1>4, GotoBecomes, BecomesKeepsType

LEMMA SettleLedgerType ==
    ASSUME TypeInv, NEW t \in Threads, SettleLedger(t)
    PROVE  TypeInv'
  <1> USE DEF At
  <1>1. tick[t] \in Tick /\ TickOK(tick[t]) /\ DataOK
    BY TypeParts DEF TypeInv, TypeOK
  <1> DEFINE p == IF tick[t].then = "executor"
                  THEN IF ExceededLimit(Ledger) \/ tick[t].status = "failed" THEN "reread" ELSE "ensure"
                  ELSE IF ExceededLimit(Ledger) THEN "error" ELSE tick[t].then
  <1>2. Goto(t, p) /\ p \in TickPc
    BY <1>1 DEF SettleLedger, TickPc, PlanPc, ExecPc, SettlePc, Tick
  <1>3. TickOK([tick[t] EXCEPT !.pc = p])
    BY <1>1 DEF SettleLedger, TickOK, EffPc, SettlePc, AbortPc, PlanPc, ExecPc, Tick
  <1>4. DataOK'
    BY <1>1 DEF SettleLedger, DataOK, rows, ghosts, bounds
  <1> QED  BY <1>2, <1>3, <1>4, GotoBecomes, BecomesKeepsType

LEMMA PlanNewType ==
    ASSUME TypeInv, NEW t \in Threads, PlanNew(t)
    PROVE  TypeInv'
  <1> USE DEF At
  <1>1. tick[t] \in Tick /\ TickOK(tick[t]) /\ DataOK
    BY TypeParts DEF TypeInv, TypeOK
  <1>2. DataOK'
    BY <1>1 DEF PlanNew, DataOK, rows, ghosts, bounds
  <1> DEFINE r == [tick[t] EXCEPT !.pc = "record", !.eff = tick[t].cur.next]
  <1>3. tick' = [tick EXCEPT ![t] = r]
    BY DEF PlanNew, TypeInv, TypeOK
  <1>4. r \in Tick
    BY <1>1 DEF PlanNew, Tick, TickPc, PlanPc, ExecPc, SettlePc
  <1>5. TickOK(r)
    BY <1>1 DEF PlanNew, TickOK, EffPc, SettlePc, AbortPc, PlanPc, ExecPc, Tick
  <1> QED  BY <1>2, <1>3, <1>4, <1>5, BecomesKeepsType DEF Becomes

LEMMA FinalizeType ==
    ASSUME TypeInv, NEW t \in Threads, Finalize(t)
    PROVE  TypeInv'
  <1> USE DEF At
  <1>1. tick[t] \in Tick /\ TickOK(tick[t]) /\ DataOK
    BY TypeParts DEF TypeInv, TypeOK
  <1>2. DataOK'
    BY <1>1 DEF Finalize, DataOK, rows, ghosts, bounds
  <1> DEFINE r == [tick[t] EXCEPT !.pc = "terminal", !.out = "completed"]
  <1>3. tick' = [tick EXCEPT ![t] = r]
    BY DEF Finalize, TypeInv, TypeOK
  <1>4. r \in Tick
    BY ZenonT(40), <1>1 DEF Finalize, Tick, TickPc, PlanPc, ExecPc, SettlePc, CursorTerminal
  <1>5. TickOK(r)
    BY <1>1 DEF Finalize, TickOK, EffPc, SettlePc, AbortPc, PlanPc, ExecPc, Tick, CursorTerminal
  <1> QED  BY <1>2, <1>3, <1>4, <1>5, BecomesKeepsType DEF Becomes

LEMMA SettleReadType ==
    ASSUME TypeInv, NEW t \in Threads, SettleRead(t)
    PROVE  TypeInv'
  <1> USE DEF At
  <1>1. tick[t] \in Tick /\ TickOK(tick[t]) /\ DataOK
    BY TypeParts DEF TypeInv, TypeOK
  <1>2. DataOK'
    BY <1>1 DEF SettleRead, DataOK, rows, ghosts, bounds
  <1> DEFINE r == [tick[t] EXCEPT !.pc = "settle_job", !.row = job[tick[t].eff]]
  <1>3. tick' = [tick EXCEPT ![t] = r]
    BY DEF SettleRead, TypeInv, TypeOK
  <1>4. r \in Tick
    BY ZenonT(40), <1>1 DEF SettleRead, Tick, TickPc, PlanPc, ExecPc, SettlePc, DataOK, TickOK, EffPc
  <1>5. TickOK(r)
    BY <1>1 DEF SettleRead, TickOK, EffPc, SettlePc, AbortPc, PlanPc, ExecPc, Tick
  <1> QED  BY <1>2, <1>3, <1>4, <1>5, BecomesKeepsType DEF Becomes

LEMMA AbortListType ==
    ASSUME TypeInv, NEW t \in Threads, AbortList(t)
    PROVE  TypeInv'
  <1> USE DEF At
  <1>1. tick[t] \in Tick /\ TickOK(tick[t]) /\ DataOK
    BY TypeParts DEF TypeInv, TypeOK
  <1>2. DataOK'
    BY <1>1 DEF AbortList, DataOK, rows, ghosts, bounds
  <1> DEFINE r == [tick[t] EXCEPT !.pc = "abort_next",
                            !.todo = {<<e, effect[e].linked>> : e \in {x \in Effects : effect[x].status \in {"planned", "running"}}}]
  <1>3. tick' = [tick EXCEPT ![t] = r]
    BY DEF AbortList, TypeInv, TypeOK
  <1>4. r \in Tick
    <2>1. \A e \in Effects : effect[e].linked \in BOOLEAN
      BY <1>1 DEF DataOK, EffectRow
    <2>2. {<<e, effect[e].linked>> : e \in {x \in Effects : effect[x].status \in {"planned", "running"}}}
            \in SUBSET (Effects \X BOOLEAN)
      BY <2>1
    <2>3. "abort_next" \in TickPc
      BY DEF TickPc
    <2> QED  BY <1>1, <2>2, <2>3 DEF Tick
  <1>5. TickOK(r)
    BY <1>1 DEF AbortList, TickOK, EffPc, SettlePc, AbortPc, PlanPc, ExecPc, Tick
  <1> QED  BY <1>2, <1>3, <1>4, <1>5, BecomesKeepsType DEF Becomes

LEMMA LoadType ==
    ASSUME TypeInv, NEW t \in Threads, Load(t)
    PROVE  TypeInv'
  <1> USE DEF At
  <1>1. tick[t] \in Tick /\ TickOK(tick[t]) /\ DataOK
    BY TypeParts DEF TypeInv, TypeOK
  <1>2. DataOK'
    BY <1>1 DEF Load, DataOK, rows, ghosts, bounds
  <1>3. CASE cursor.phase = "work"
    <2> DEFINE r == [tick[t] EXCEPT !.cur = cursor, !.pc = "check", !.out = "none"]
    <2>1. tick' = [tick EXCEPT ![t] = r]
      BY <1>3 DEF Load, TypeInv, TypeOK
    <2>2. r \in Tick
      BY <1>1 DEF Tick, TickPc, DataOK
    <2>3. TickOK(r)
      BY <1>1 DEF Load, TickOK, EffPc, SettlePc, AbortPc, PlanPc, ExecPc, Tick
    <2> QED  BY <1>2, <2>1, <2>2, <2>3, BecomesKeepsType DEF Becomes
  <1>4. CASE cursor.phase # "work"
    <2> DEFINE r == [tick[t] EXCEPT !.cur = cursor, !.pc = "finish", !.out = cursor.phase]
    <2>1. tick' = [tick EXCEPT ![t] = r]
      BY <1>4 DEF Load, TypeInv, TypeOK
    <2>2. cursor.phase \in CursorTerminal
      BY <1>1, <1>4 DEF DataOK, Cursor
    <2>3. r \in Tick
      BY <1>1, <2>2 DEF Tick, TickPc, DataOK
    <2>4. TickOK(r)
      BY <1>1, <2>2 DEF Load, TickOK, EffPc, SettlePc, AbortPc, PlanPc, ExecPc, Tick
    <2> QED  BY <1>2, <2>1, <2>3, <2>4, BecomesKeepsType DEF Becomes
  <1> QED  BY <1>3, <1>4

LEMMA CheckCancelledType ==
    ASSUME TypeInv, NEW t \in Threads, CheckCancelled(t)
    PROVE  TypeInv'
  <1> USE DEF At
  <1>1. tick[t] \in Tick /\ TickOK(tick[t]) /\ DataOK
    BY TypeParts DEF TypeInv, TypeOK
  <1>2. DataOK'
    BY <1>1 DEF CheckCancelled, DataOK, rows, ghosts, bounds
  <1>3. CASE BeginAbort(t, "cancelled") \/ BeginAbort(t, "failed")
    BY <1>2, <1>3, BeginAbortBecomes, BecomesKeepsType DEF Ending
  <1>4. CASE Goto(t, IF tick[t].cur.pending = NoEffect THEN "plan" ELSE "pending")
    <2> DEFINE p == IF tick[t].cur.pending = NoEffect THEN "plan" ELSE "pending"
    <2>1. p \in TickPc
      BY DEF TickPc, PlanPc, ExecPc, SettlePc
    <2>2. TickOK([tick[t] EXCEPT !.pc = p])
      BY <1>1 DEF CheckCancelled, TickOK, EffPc, SettlePc, AbortPc, PlanPc, ExecPc, Tick, Cursor
    <2> QED  BY <1>2, <1>4, <2>1, <2>2, GotoBecomes, BecomesKeepsType
  <1> QED  BY <1>3, <1>4 DEF CheckCancelled

LEMMA PlanExistingType ==
    ASSUME TypeInv, NEW t \in Threads, PlanExisting(t)
    PROVE  TypeInv'
  <1> USE DEF At
  <1>1. tick[t] \in Tick /\ TickOK(tick[t]) /\ DataOK
    BY TypeParts DEF TypeInv, TypeOK
  <1>2. DataOK'
    BY <1>1 DEF PlanExisting, DataOK, rows, ghosts, bounds
  <1> DEFINE k == [tick[t].cur EXCEPT !.pending = tick[t].cur.next]
  <1>3. k \in Cursor
    BY <1>1 DEF PlanExisting, Tick, Cursor
  <1> QED  BY <1>2, <1>3, SaveNextBecomes, BecomesKeepsType DEF PlanExisting

LEMMA LinkType ==
    ASSUME TypeInv, NEW t \in Threads, Link(t)
    PROVE  TypeInv'
  <1> USE DEF At
  <1>1. tick[t] \in Tick /\ TickOK(tick[t]) /\ DataOK
    BY TypeParts DEF TypeInv, TypeOK
  <1>2. DataOK'
    BY <1>1 DEF Link, TickOK, EffPc, EffectRow, EffectStatus, DataOK, ghosts, bounds
  <1> DEFINE k == [tick[t].cur EXCEPT !.pending = tick[t].eff]
  <1>3. k \in Cursor
    BY <1>1 DEF Link, Tick, Cursor, TickOK, EffPc
  <1> QED  BY <1>2, <1>3, SaveNextBecomes, BecomesKeepsType DEF Link

LEMMA PersistOK ==
    ASSUME NEW k \in Cursor, NEW old \in Cursor, NEW p \in CursorTerminal \cup {"work"}
    PROVE  Persist(old, [k EXCEPT !.seq = @ + 1, !.phase = p]) \in Cursor
  <1>1. k.seq + 1 \in Nat
    BY DEF Cursor
  <1>2. [k EXCEPT !.seq = @ + 1, !.phase = p] \in Cursor
    BY <1>1 DEF Cursor
  <1> QED  BY <1>2 DEF Persist

LEMMA SaveCursorType ==
    ASSUME TypeInv, NEW t \in Threads, SaveCursor(t)
    PROVE  TypeInv'
  <1> USE DEF At
  <1>1. tick[t] \in Tick /\ TickOK(tick[t]) /\ DataOK
    BY TypeParts DEF TypeInv, TypeOK
  <1>2. DataOK'
    BY <1>1 DEF Tick, Cursor, DataOK, SaveCursor, Persist, rows, ghosts, bounds
  <1> QED  BY <1>2, EndTickBecomes, BecomesKeepsType DEF SaveCursor

\* The cursor passes effect e.
LEMMA PassedOK ==
    ASSUME NEW k \in Cursor, NEW e \in Effects
    PROVE  [k EXCEPT !.next = e + 1, !.pending = NoEffect] \in Cursor
  <1>1. e + 1 \in 1 .. Last + 1
    BY EffectsAssumption DEF Effects
  <1> QED  BY <1>1 DEF Cursor

LEMMA ConsumeType ==
    ASSUME TypeInv, NEW t \in Threads, NEW e \in Effects, NEW j, DataOK',
           ConsumeCompleted(t, e, j)
    PROVE  TypeInv'
  <1>1. tick[t] \in Tick /\ TickOK(tick[t]) /\ tick[t].cur \in Cursor
    BY DEF TypeInv, TypeOK, Tick
  <1>2. CASE SaveNext(t, [tick[t].cur EXCEPT !.next = e + 1, !.pending = NoEffect])
    BY <1>1, <1>2, PassedOK, SaveNextBecomes, BecomesKeepsType
  <1>3. CASE Goto(t, "error")
    <2>1. "error" \in TickPc /\ TickOK([tick[t] EXCEPT !.pc = "error"])
      BY <1>1 DEF TickPc, TickOK, EffPc, SettlePc, AbortPc, PlanPc, ExecPc, Tick
    <2> QED  BY <1>3, <2>1, GotoBecomes, BecomesKeepsType
  <1> QED  BY <1>2, <1>3 DEF ConsumeCompleted, Err

LEMMA PendingJobType ==
    ASSUME TypeInv, NEW t \in Threads, PendingJob(t)
    PROVE  TypeInv'
  <1> USE DEF At
  <1>1. tick[t] \in Tick /\ TickOK(tick[t]) /\ DataOK
    BY TypeParts DEF TypeInv, TypeOK
  <1>2. DataOK'
    BY <1>1 DEF PendingJob, DataOK, rows, ghosts, bounds
  <1>3. tick[t].cur.pending \in Effects /\ job[tick[t].cur.pending] \in Job
    BY <1>1 DEF PendingJob, TickOK, DataOK
  <1>4. CASE tick' = [tick EXCEPT ![t].pc = "claim", ![t].eff = tick[t].cur.pending]
    <2> DEFINE r == [tick[t] EXCEPT !.pc = "claim", !.eff = tick[t].cur.pending]
    <2>1. tick' = [tick EXCEPT ![t] = r]
      BY <1>4 DEF TypeInv, TypeOK
    <2>2. r \in Tick
      <3>1. "claim" \in TickPc
        BY DEF TickPc, ExecPc
      <3> QED  BY <1>1, <1>3, <3>1 DEF Tick
    <2>3. TickOK(r)
      BY <1>1, <1>3 DEF PendingJob, TickOK, EffPc, SettlePc, AbortPc, PlanPc, ExecPc, Tick
    <2> QED  BY <1>2, <2>1, <2>2, <2>3, BecomesKeepsType DEF Becomes
  <1>5. CASE EndTick(t)
    BY <1>2, <1>5, EndTickBecomes, BecomesKeepsType
  <1>6. CASE ConsumeCompleted(t, tick[t].cur.pending, job[tick[t].cur.pending])
    BY <1>2, <1>3, <1>6, ConsumeType
  <1>7. CASE tick' = [tick EXCEPT ![t].pc = "failed_job", ![t].eff = tick[t].cur.pending,
                                    ![t].row = job[tick[t].cur.pending]]
    <2> DEFINE r == [tick[t] EXCEPT !.pc = "failed_job", !.eff = tick[t].cur.pending,
                                    !.row = job[tick[t].cur.pending]]
    <2>1. tick' = [tick EXCEPT ![t] = r]
      BY <1>7 DEF TypeInv, TypeOK
    <2>2. r \in Tick
      <3>1. "failed_job" \in TickPc
        BY DEF TickPc, ExecPc
      <3> QED  BY <1>1, <1>3, <3>1 DEF Tick
    <2>3. TickOK(r)
      BY <1>1, <1>3 DEF PendingJob, TickOK, EffPc, SettlePc, AbortPc, PlanPc, ExecPc, Tick
    <2> QED  BY <1>2, <2>1, <2>2, <2>3, BecomesKeepsType DEF Becomes
  <1> QED  BY <1>4, <1>5, <1>6, <1>7 DEF PendingJob

LEMMA ClaimType ==
    ASSUME TypeInv, NEW t \in Threads, Claim(t)
    PROVE  TypeInv'
  <1> USE DEF At
  <1>1. tick[t] \in Tick /\ TickOK(tick[t]) /\ DataOK
    BY TypeParts DEF TypeInv, TypeOK
  <1>2. tick[t].eff \in Effects /\ RecoveredJobs \in [Effects -> Job]
    BY <1>1, RecoveredFacts DEF Claim, TickOK, EffPc
  <1>3. CASE Claimable(RecoveredJobs[tick[t].eff])
    <2> DEFINE j == RecoveredJobs[tick[t].eff]
               r == [tick[t] EXCEPT !.pc = "run", !.lease = minted + 1]
    <2>1. minted + 1 \in Nat /\ "failed" \in JobStatus /\ "none" \in ErrorClass \cup {"none"}
      BY <1>1 DEF DataOK, JobStatus
    <2>2. Claimed(j, minted + 1) \in Job
      BY <1>2, <2>1, JobFacts
    <2>3. DataOK'
      BY <1>1, <1>2, <1>3, <2>1, <2>2 DEF Claim, DataOK, ghosts, bounds
    <2>4. tick' = [tick EXCEPT ![t] = r]
      BY <1>3 DEF Claim, TypeInv, TypeOK
    <2>5. r \in Tick
      <3>1. "run" \in TickPc
        BY DEF TickPc, ExecPc
      <3> QED  BY <1>1, <2>1, <3>1 DEF Tick
    <2>6. TickOK(r)
      BY <1>1 DEF Claim, TickOK, EffPc, SettlePc, AbortPc, PlanPc, ExecPc, Tick
    <2> QED  BY <2>3, <2>4, <2>5, <2>6, BecomesKeepsType DEF Becomes
  <1>4. CASE ~Claimable(RecoveredJobs[tick[t].eff])
    <2>1. DataOK'
      BY <1>1, <1>2, <1>4 DEF Claim, DataOK, ghosts, bounds
    <2>2. Goto(t, "reread") /\ "reread" \in TickPc
      BY <1>4 DEF Claim, TickPc, PlanPc, ExecPc, SettlePc
    <2>3. TickOK([tick[t] EXCEPT !.pc = "reread"])
      BY <1>1 DEF Claim, TickOK, EffPc, SettlePc, AbortPc, PlanPc, ExecPc, Tick
    <2> QED  BY <2>1, <2>2, <2>3, GotoBecomes, BecomesKeepsType
  <1> QED  BY <1>3, <1>4

LEMMA MarkRunningType ==
    ASSUME TypeInv, NEW t \in Threads, MarkRunning(t)
    PROVE  TypeInv'
  <1> USE DEF At
  <1>1. tick[t] \in Tick /\ TickOK(tick[t]) /\ DataOK
    BY TypeParts DEF TypeInv, TypeOK
  <1>2. tick[t].eff \in Effects /\ job[tick[t].eff] \in Job
    BY <1>1 DEF MarkRunning, TickOK, EffPc, DataOK
  <1>3. Running(job[tick[t].eff]) \in Job
    BY <1>2 DEF Running, Job, JobStatus
  <1>4. DataOK'
    BY <1>1, <1>2, <1>3 DEF MarkRunning, DataOK, ghosts, bounds
  <1>5. CASE Holds(job[tick[t].eff], tick[t].lease)
    <2> DEFINE r == [tick[t] EXCEPT !.pc = "mark", !.row = Running(job[tick[t].eff])]
    <2>1. tick' = [tick EXCEPT ![t] = r]
      BY <1>5 DEF MarkRunning, TypeInv, TypeOK
    <2>2. r \in Tick
      <3>1. "mark" \in TickPc
        BY DEF TickPc, ExecPc
      <3> QED  BY <1>1, <1>3, <3>1 DEF Tick
    <2>3. TickOK(r)
      BY <1>1 DEF MarkRunning, TickOK, EffPc, SettlePc, AbortPc, PlanPc, ExecPc, Tick
    <2> QED  BY <1>4, <2>1, <2>2, <2>3, BecomesKeepsType DEF Becomes
  <1>6. CASE ~Holds(job[tick[t].eff], tick[t].lease)
    <2>1. Goto(t, "reread") /\ "reread" \in TickPc
      BY <1>6 DEF MarkRunning, TickPc, PlanPc, ExecPc, SettlePc
    <2>2. TickOK([tick[t] EXCEPT !.pc = "reread"])
      BY <1>1 DEF MarkRunning, TickOK, EffPc, SettlePc, AbortPc, PlanPc, ExecPc, Tick
    <2> QED  BY <1>4, <2>1, <2>2, GotoBecomes, BecomesKeepsType
  <1> QED  BY <1>5, <1>6

\* A dispatch is counted.
LEMMA CountedOK ==
    ASSUME DataOK, NEW e \in Effects
    PROVE  [dispatched EXCEPT ![e] = @ + 1] \in [Effects -> Nat]
  BY DEF DataOK

LEMMA DispatchOkType ==
    ASSUME TypeInv, NEW t \in Threads, DispatchOk(t)
    PROVE  TypeInv'
  <1> USE DEF At
  <1>1. tick[t] \in Tick /\ TickOK(tick[t]) /\ DataOK
    BY TypeParts DEF TypeInv, TypeOK
  <1>2. DataOK'
    BY <1>1, CountedOK DEF DispatchOk, TickOK, EffPc, DataOK, rows, bounds
  <1>3. PICK c \in Reported :
          tick' = [tick EXCEPT ![t].pc = "outcome_read", ![t].status = "completed", ![t].cost = c]
    BY DEF DispatchOk
  <1> DEFINE r == [tick[t] EXCEPT !.pc = "outcome_read", !.status = "completed", !.cost = c]
  <1>4. tick' = [tick EXCEPT ![t] = r]
    BY <1>3 DEF TypeInv, TypeOK
  <1>5. r \in Tick
    <2>1. c \in Cost /\ "completed" \in EffectTerminal /\ "outcome_read" \in TickPc
      BY EffectsAssumption DEF EffectTerminal, TickPc, ExecPc
    <2> QED  BY <1>1, <2>1 DEF Tick
  <1>6. TickOK(r)
    BY <1>1 DEF DispatchOk, TickOK, EffPc, SettlePc, AbortPc, PlanPc, ExecPc, Tick
  <1> QED  BY <1>2, <1>4, <1>5, <1>6, BecomesKeepsType DEF Becomes

LEMMA DispatchErrType ==
    ASSUME TypeInv, NEW t \in Threads, DispatchErr(t)
    PROVE  TypeInv'
  <1> USE DEF At
  <1>1. tick[t] \in Tick /\ TickOK(tick[t]) /\ DataOK
    BY TypeParts DEF TypeInv, TypeOK
  <1>2. tick[t].eff \in Effects /\ tick[t].then = "executor"
    BY <1>1 DEF DispatchErr, TickOK, EffPc, ExecPc
  <1>3. DataOK'
    BY <1>1, <1>2, CountedOK DEF DispatchErr, DataOK, rows, bounds
  <1>4. PICK x \in Errors :
          \/ tick' = [tick EXCEPT ![t].pc = "retry", ![t].error = x]
          \/ BeginSettle(t, tick[t].eff, "failed", Unknown, x)
    BY DEF DispatchErr
  <1>5. x \in ErrorClass /\ Unknown \in Cost
    BY EffectsAssumption DEF Cost
  <1>6. CASE tick' = [tick EXCEPT ![t].pc = "retry", ![t].error = x]
    <2> DEFINE r == [tick[t] EXCEPT !.pc = "retry", !.error = x]
    <2>1. tick' = [tick EXCEPT ![t] = r]
      BY <1>6 DEF TypeInv, TypeOK
    <2>2. r \in Tick
      <3>1. "retry" \in TickPc
        BY DEF TickPc, ExecPc
      <3> QED  BY <1>1, <1>5, <3>1 DEF Tick
    <2>3. TickOK(r)
      BY <1>1, <1>5 DEF DispatchErr, TickOK, EffPc, SettlePc, AbortPc, PlanPc, ExecPc, Tick
    <2> QED  BY <1>3, <2>1, <2>2, <2>3, BecomesKeepsType DEF Becomes
  <1>7. CASE BeginSettle(t, tick[t].eff, "failed", Unknown, x)
    BY <1>2, <1>3, <1>5, <1>7, BeginSettleBecomes, BecomesKeepsType
  <1> QED  BY <1>4, <1>6, <1>7

LEMMA ScheduleRetryType ==
    ASSUME TypeInv, NEW t \in Threads, ScheduleRetry(t)
    PROVE  TypeInv'
  <1> USE DEF At
  <1>1. tick[t] \in Tick /\ TickOK(tick[t]) /\ DataOK
    BY TypeParts DEF TypeInv, TypeOK
  <1>2. /\ tick[t].eff \in Effects /\ tick[t].then = "executor"
        /\ job[tick[t].eff] \in Job /\ tick[t].error \in ErrorClass
    BY <1>1 DEF ScheduleRetry, TickOK, EffPc, ExecPc, DataOK, Tick
  <1>3. Rescheduled(job[tick[t].eff], tick[t].error) \in Job
    BY <1>2 DEF Rescheduled, Job, JobStatus, NoLease
  <1>4. DataOK'
    BY <1>1, <1>2, <1>3 DEF ScheduleRetry, DataOK, ghosts, bounds
  <1>5. CASE Goto(t, "reread")
    <2>1. "reread" \in TickPc /\ TickOK([tick[t] EXCEPT !.pc = "reread"])
      BY <1>1 DEF ScheduleRetry, TickPc, TickOK, EffPc, SettlePc, AbortPc, PlanPc, ExecPc, Tick
    <2> QED  BY <1>4, <1>5, <2>1, GotoBecomes, BecomesKeepsType
  <1>6. CASE BeginSettle(t, tick[t].eff, "failed", Unknown, tick[t].error)
    <2>1. Unknown \in Cost
      BY DEF Cost
    <2> QED  BY ZenonT(40), <1>2, <1>4, <1>6, <2>1, BeginSettleBecomes, BecomesKeepsType
  <1> QED  BY <1>5, <1>6 DEF ScheduleRetry

LEMMA ReadForOutcomeType ==
    ASSUME TypeInv, NEW t \in Threads, ReadForOutcome(t)
    PROVE  TypeInv'
  <1> USE DEF At
  <1>1. tick[t] \in Tick /\ TickOK(tick[t]) /\ DataOK
    BY TypeParts DEF TypeInv, TypeOK
  <1>2. DataOK'
    BY <1>1 DEF ReadForOutcome, DataOK, rows, ghosts, bounds
  <1>3. tick[t].eff \in Effects /\ job[tick[t].eff] \in Job
    BY <1>1 DEF ReadForOutcome, TickOK, EffPc, DataOK
  <1>4. PICK p \in {"outcome_write", "again_write"} :
          /\ tick' = [tick EXCEPT ![t].pc = p, ![t].row = job[tick[t].eff]]
          /\ p = "outcome_write" => tick[t].pc = "outcome_read"
          /\ p = "again_write" => tick[t].pc = "again_read"
    BY DEF ReadForOutcome
  <1> DEFINE r == [tick[t] EXCEPT !.pc = p, !.row = job[tick[t].eff]]
  <1>5. tick' = [tick EXCEPT ![t] = r]
    BY <1>4 DEF TypeInv, TypeOK
  <1>6. r \in Tick
    BY ZenonT(40), <1>1, <1>3 DEF Tick, TickPc, ExecPc
  <1>7. TickOK(r)
    BY <1>1, <1>4 DEF TickOK, EffPc, SettlePc, AbortPc, PlanPc, ExecPc, Tick
  <1> QED  BY <1>2, <1>5, <1>6, <1>7, BecomesKeepsType DEF Becomes

LEMMA WriteOutcomeType ==
    ASSUME TypeInv, NEW t \in Threads, WriteOutcome(t)
    PROVE  TypeInv'
  <1> USE DEF At
  <1>1. tick[t] \in Tick /\ TickOK(tick[t]) /\ DataOK
    BY TypeParts DEF TypeInv, TypeOK
  <1>2. tick[t].eff \in Effects /\ WithOutcome(tick[t].row) \in Job /\ tick[t].cur \in Cursor
    BY <1>1 DEF WriteOutcome, TickOK, EffPc, WithOutcome, Tick, Job
  <1>3. DataOK'
    BY <1>1, <1>2 DEF WriteOutcome, DataOK, ghosts, bounds
  <1>4. CASE At(t, "outcome_write") /\ Goto(t, "settle_effect")
    <2>1. "settle_effect" \in TickPc /\ TickOK([tick[t] EXCEPT !.pc = "settle_effect"])
      BY <1>1, <1>4 DEF TickPc, TickOK, EffPc, SettlePc, AbortPc, PlanPc, ExecPc, Tick
    <2> QED  BY <1>3, <1>4, <2>1, GotoBecomes, BecomesKeepsType
  <1>5. CASE SaveNext(t, tick[t].cur)
    BY <1>2, <1>3, <1>5, SaveNextBecomes, BecomesKeepsType
  <1> QED  BY <1>4, <1>5 DEF WriteOutcome

LEMMA RereadType ==
    ASSUME TypeInv, NEW t \in Threads, Reread(t)
    PROVE  TypeInv'
  <1> USE DEF At
  <1>1. tick[t] \in Tick /\ TickOK(tick[t]) /\ DataOK
    BY TypeParts DEF TypeInv, TypeOK
  <1>2. DataOK'
    BY <1>1 DEF Reread, DataOK, rows, ghosts, bounds
  <1>3. tick[t].eff \in Effects /\ job[tick[t].eff] \in Job /\ tick[t].cur \in Cursor
    BY <1>1 DEF Reread, TickOK, EffPc, DataOK, Tick
  <1>4. CASE ConsumeCompleted(t, tick[t].eff, job[tick[t].eff])
    BY <1>2, <1>3, <1>4, ConsumeType
  <1>5. CASE SaveNext(t, tick[t].cur)
    BY <1>2, <1>3, <1>5, SaveNextBecomes, BecomesKeepsType
  <1>6. CASE tick' = [tick EXCEPT ![t].pc = "failed_job", ![t].row = job[tick[t].eff]]
    <2> DEFINE r == [tick[t] EXCEPT !.pc = "failed_job", !.row = job[tick[t].eff]]
    <2>1. tick' = [tick EXCEPT ![t] = r]
      BY <1>6 DEF TypeInv, TypeOK
    <2>2. r \in Tick
      <3>1. "failed_job" \in TickPc
        BY DEF TickPc, ExecPc
      <3> QED  BY <1>1, <1>3, <3>1 DEF Tick
    <2>3. TickOK(r)
      BY <1>1, <1>3 DEF Reread, TickOK, EffPc, SettlePc, AbortPc, PlanPc, ExecPc, Tick
    <2> QED  BY <1>2, <2>1, <2>2, <2>3, BecomesKeepsType DEF Becomes
  <1>7. CASE BeginAbort(t, "failed")
    BY <1>2, <1>7, BeginAbortBecomes, BecomesKeepsType DEF Ending
  <1> QED  BY <1>4, <1>5, <1>6, <1>7 DEF Reread

LEMMA FailedJobType ==
    ASSUME TypeInv, NEW t \in Threads, FailedJob(t)
    PROVE  TypeInv'
  <1> USE DEF At
  <1>1. tick[t] \in Tick /\ TickOK(tick[t]) /\ DataOK
    BY TypeParts DEF TypeInv, TypeOK
  <1>2. /\ tick[t].eff \in Effects /\ job[tick[t].eff] \in Job /\ tick[t].cur \in Cursor
        /\ tick[t].row.failure \in ErrorClass \cup {"none"}
    BY <1>1 DEF FailedJob, TickOK, EffPc, DataOK, Tick, Job
  <1>3. Rescheduled(job[tick[t].eff], tick[t].row.failure) \in Job
    BY <1>2 DEF Rescheduled, Job, JobStatus, NoLease
  <1>4. DataOK'
    BY <1>1, <1>2, <1>3 DEF FailedJob, DataOK, ghosts, bounds
  <1>5. CASE \E k \in Cursor : SaveNext(t, k)
    BY <1>4, <1>5, SaveNextBecomes, BecomesKeepsType
  <1>6. CASE ConsumeFailed(t, tick[t].row)
    <2> DEFINE o == IF tick[t].row.status = "cancelled" THEN "cancelled" ELSE "failed"
               k == [tick[t].cur EXCEPT !.pending = NoEffect]
               r == [tick[t] EXCEPT !.pc = "terminal", !.cur = k, !.out = o]
    <2>1. tick' = [tick EXCEPT ![t] = r]
      BY <1>6 DEF ConsumeFailed, TypeInv, TypeOK
    <2>2. k \in Cursor /\ o \in CursorTerminal /\ "terminal" \in TickPc
      BY <1>2 DEF Cursor, CursorTerminal, TickPc
    <2>3. r \in Tick
      BY <1>1, <2>2 DEF Tick
    <2>4. TickOK(r)
      BY <1>1, <2>2 DEF TickOK, EffPc, SettlePc, AbortPc, PlanPc, ExecPc, Tick
    <2> QED  BY <1>4, <2>1, <2>3, <2>4, BecomesKeepsType DEF Becomes
  <1> QED  BY <1>2, <1>5, <1>6, PassedOK DEF FailedJob

LEMMA AbortJobType ==
    ASSUME TypeInv, NEW t \in Threads, AbortJob(t)
    PROVE  TypeInv'
  <1> USE DEF At
  <1>1. tick[t] \in Tick /\ TickOK(tick[t]) /\ DataOK
    BY TypeParts DEF TypeInv, TypeOK
  <1>2. DataOK'
    BY <1>1 DEF AbortJob, DataOK, rows, ghosts, bounds
  <1>3. tick[t].out \in Ending /\ tick[t].cur.pending \in Effects \cup {NoEffect}
    BY <1>1 DEF AbortJob, TickOK, AbortPc, Tick, Cursor
  <1>4. CASE tick[t].cur.pending # NoEffect /\ AbortSettle(t, tick[t].cur.pending, "abort_list", {})
    <2>1. {} \in SUBSET (Effects \X BOOLEAN) /\ tick[t].cur.pending \in Effects
      BY <1>3, <1>4
    <2> QED  BY <1>2, <1>3, <1>4, <2>1, AbortSettleBecomes, BecomesKeepsType
  <1>5. CASE Goto(t, "abort_list")
    <2>1. "abort_list" \in TickPc /\ TickOK([tick[t] EXCEPT !.pc = "abort_list"])
      BY <1>1 DEF AbortJob, TickPc, TickOK, EffPc, SettlePc, AbortPc, PlanPc, ExecPc, Tick
    <2> QED  BY <1>2, <1>5, <2>1, GotoBecomes, BecomesKeepsType
  <1> QED  BY <1>4, <1>5 DEF AbortJob

LEMMA AbortNextType ==
    ASSUME TypeInv, NEW t \in Threads, AbortNext(t)
    PROVE  TypeInv'
  <1> USE DEF At
  <1>1. tick[t] \in Tick /\ TickOK(tick[t]) /\ DataOK
    BY TypeParts DEF TypeInv, TypeOK
  <1>2. tick[t].out \in Ending /\ tick[t].todo \in SUBSET (Effects \X BOOLEAN)
    BY <1>1 DEF AbortNext, TickOK, AbortPc, Tick
  <1>3. CASE Goto(t, "terminal") /\ effect' = effect
    <2>1. "terminal" \in TickPc /\ TickOK([tick[t] EXCEPT !.pc = "terminal"])
      BY <1>1, <1>2 DEF AbortNext, TickPc, TickOK, EffPc, SettlePc, AbortPc, PlanPc, ExecPc,
         Tick, Ending, CursorTerminal
    <2>2. DataOK'
      BY <1>1, <1>3 DEF AbortNext, DataOK, ghosts, bounds
    <2> QED  BY <1>3, <2>1, <2>2, GotoBecomes, BecomesKeepsType
  <1>4. CASE \E x \in tick[t].todo :
               AbortSettle(t, x[1], "abort_next", tick[t].todo \ {x}) /\ effect' = effect
    <2>1. PICK x \in tick[t].todo :
            AbortSettle(t, x[1], "abort_next", tick[t].todo \ {x}) /\ effect' = effect
      BY <1>4
    <2>2. x[1] \in Effects /\ tick[t].todo \ {x} \in SUBSET (Effects \X BOOLEAN)
      BY <1>2
    <2>3. DataOK'
      BY <1>1, <2>1 DEF AbortNext, DataOK, ghosts, bounds
    <2>4. PICK e \in Effects, left \in SUBSET (Effects \X BOOLEAN) :
            AbortSettle(t, e, "abort_next", left)
      BY <2>1, <2>2, Zenon
    <2>5. \E r : Becomes(t, r)
      BY <1>2, <2>4, AbortSettleBecomes
    <2> QED  BY <2>3, <2>5, BecomesKeepsType
  <1>5. CASE \E x \in tick[t].todo :
               /\ effect' = [effect EXCEPT ![x[1]] = [status |-> tick[t].out, linked |-> FALSE]]
               /\ tick' = [tick EXCEPT ![t].todo = tick[t].todo \ {x}]
    <2>1. PICK x \in tick[t].todo :
            /\ effect' = [effect EXCEPT ![x[1]] = [status |-> tick[t].out, linked |-> FALSE]]
            /\ tick' = [tick EXCEPT ![t].todo = tick[t].todo \ {x}]
      BY <1>5
    <2>2. x[1] \in Effects /\ tick[t].todo \ {x} \in SUBSET (Effects \X BOOLEAN)
      BY <1>2
    <2>3. [status |-> tick[t].out, linked |-> FALSE] \in EffectRow
      BY <1>2 DEF EffectRow, EffectStatus, EffectTerminal, Ending
    <2>4. DataOK'
      BY <1>1, <2>1, <2>2, <2>3 DEF AbortNext, DataOK, ghosts, bounds
    <2> DEFINE r == [tick[t] EXCEPT !.todo = tick[t].todo \ {x}]
    <2>5. tick' = [tick EXCEPT ![t] = r]
      BY <2>1 DEF TypeInv, TypeOK
    <2>6. r \in Tick
      BY <1>1, <2>2 DEF Tick
    <2>7. TickOK(r)
      BY <1>1 DEF AbortNext, TickOK, EffPc, SettlePc, AbortPc, PlanPc, ExecPc, Tick
    <2> QED  BY <2>4, <2>5, <2>6, <2>7, BecomesKeepsType DEF Becomes
  <1> QED  BY <1>3, <1>4, <1>5 DEF AbortNext

LEMMA TerminalizeType ==
    ASSUME TypeInv, NEW t \in Threads, Terminalize(t)
    PROVE  TypeInv'
  <1> USE DEF At
  <1>1. tick[t] \in Tick /\ TickOK(tick[t]) /\ DataOK
    BY TypeParts DEF TypeInv, TypeOK
  <1>2. tick[t].cur \in Cursor /\ tick[t].out \in CursorTerminal /\ cursor \in Cursor
    BY <1>1 DEF Terminalize, TickOK, Tick, DataOK
  <1>3. DataOK'
    BY <1>1, <1>2, PersistOK DEF Terminalize, DataOK, rows, ghosts, bounds
  <1>4. Goto(t, "finish") /\ "finish" \in TickPc
    BY DEF Terminalize, TickPc
  <1>5. TickOK([tick[t] EXCEPT !.pc = "finish"])
    BY <1>1 DEF Terminalize, TickOK, EffPc, SettlePc, AbortPc, PlanPc, ExecPc, Tick
  <1> QED  BY <1>3, <1>4, <1>5, GotoBecomes, BecomesKeepsType

LEMMA FinishType ==
    ASSUME TypeInv, NEW t \in Threads, Finish(t)
    PROVE  TypeInv'
  <1> USE DEF At
  <1>1. tick[t] \in Tick /\ TickOK(tick[t]) /\ DataOK
    BY TypeParts DEF TypeInv, TypeOK
  <1>2. DataOK'
    BY <1>1 DEF Finish, SettleRequest, TickOK, DataOK, rows, ghosts, bounds
  <1> QED  BY <1>2, EndTickBecomes, BecomesKeepsType DEF Finish

LEMMA FinishWithErrorType ==
    ASSUME TypeInv, NEW t \in Threads, FinishWithError(t)
    PROVE  TypeInv'
  <1> USE DEF At
  <1>1. tick[t] \in Tick /\ TickOK(tick[t]) /\ DataOK
    BY TypeParts DEF TypeInv, TypeOK
  <1>2. DataOK'
    BY <1>1 DEF FinishWithError, SettleRequest, CursorTerminal, DataOK, rows, ghosts, bounds
  <1> QED  BY <1>2, EndTickBecomes, BecomesKeepsType DEF FinishWithError

LEMMA TickStepType ==
    ASSUME TypeInv, NEW t \in Threads, TickStep(t)
    PROVE  TypeInv'
  BY LoadType, CheckCancelledType, PlanExistingType, PlanNewType, FinalizeType,
     RecordPlannedType, AdmitType, RejectType, ReserveType, EnqueueType, LinkType,
     SaveCursorType, PendingJobType, ClaimType, MarkRunningType, RecordRunningType,
     DispatchOkType, DispatchErrType, ScheduleRetryType, ReadForOutcomeType,
     WriteOutcomeType, EnsureLeaseType, RereadType, FailedJobType, SettleEffectType,
     SettleReservationType, SettleCommitType, SettleReadType, SettleJobType,
     SettleLedgerType, AbortJobType, AbortListType, AbortNextType, TerminalizeType,
     FinishType, FinishWithErrorType DEF TickStep

LEMMA InitType == Init => TypeInv
  <1> SUFFICES ASSUME Init PROVE TypeInv
    OBVIOUS
  <1>1. [status |-> "absent", linked |-> FALSE] \in EffectRow /\ NoCommit \in Commit
    BY DEF EffectRow, EffectStatus, NoCommit, Commit, Cost
  <1>2. DataOK
    BY <1>1, RestingOK, EffectsAssumption DEF Init, DataOK, ReservationStatus
  <1> QED  BY <1>2, RestingOK DEF Init, TypeInv, TypeOK, DataOK

\* The steps around the ticks.
Around ==
    \/ \E e \in Effects : Expire(e) \/ BecomeDue(e)
    \/ Recover \/ Cancel \/ Crash
    \/ \E w \in Workers : Steal(w)

LEMMA AroundType ==
    ASSUME TypeInv, Around \/ UNCHANGED vars
    PROVE  TypeInv'
  <1>1. DataOK /\ tick \in [Threads -> Tick] /\ \A t \in Threads : TickOK(tick[t])
    BY TypeParts DEF TypeInv
  <1>2. ASSUME tick' = tick, DataOK' PROVE TypeInv'
    BY <1>1, <1>2 DEF TypeInv, TypeOK, DataOK
  <1>3. ASSUME NEW e \in Effects, Expire(e) PROVE TypeInv'
    <2>1. job' \in [Effects -> Job]
      BY ZenonT(40), <1>1, <1>3 DEF Expire, DataOK, Job
    <2>2. expiries' \in 0 .. MaxExpiries
      BY <1>1, <1>3, EffectsAssumption DEF Expire, DataOK
    <2>3. DataOK'
      BY <1>1, <1>3, <2>1, <2>2 DEF Expire, DataOK, ghosts
    <2> QED  BY <1>2, <1>3, <2>3 DEF Expire
  <1>4. ASSUME NEW e \in Effects, BecomeDue(e) PROVE TypeInv'
    <2>1. job' \in [Effects -> Job]
      BY <1>1, <1>4 DEF BecomeDue, DataOK, Job
    <2>2. DataOK'
      BY <1>1, <1>4, <2>1 DEF BecomeDue, DataOK, ghosts, bounds
    <2> QED  BY <1>2, <1>4, <2>2 DEF BecomeDue
  <1>5. CASE Recover
    BY <1>1, <1>5, RecoveredFacts, <1>2 DEF Recover, DataOK, ghosts, bounds
  <1>6. CASE Cancel
    BY <1>1, <1>6, <1>2 DEF Cancel, DataOK, CursorTerminal, rows, ghosts, bounds
  <1>7. CASE Crash
    BY <1>1, <1>7, EffectsAssumption, RestingOK DEF Crash, DataOK, rows, ghosts, TypeInv, TypeOK
  <1>8. ASSUME NEW w \in Workers, Steal(w) PROVE TypeInv'
    BY <1>1, <1>8, EffectsAssumption, <1>2 DEF Steal, DataOK, rows, ghosts
  <1>9. CASE UNCHANGED vars
    BY <1>1, <1>9, <1>2 DEF vars, DataOK
  <1> QED  BY <1>3, <1>4, <1>5, <1>6, <1>7, <1>8, <1>9 DEF Around

\* The rows, the cursor and the ticks of the workers stay in their types, and
\* each tick has what its next statement needs: an effect, a status to settle
\* with, an outcome to record.
THEOREM TypeCorrect == Spec => []TypeOK
  <1>1. TypeInv /\ [Next]_vars => TypeInv'
    <2> SUFFICES ASSUME TypeInv, [Next]_vars PROVE TypeInv'
      OBVIOUS
    <2>1. (\E t \in Threads : TickStep(t)) \/ Around \/ UNCHANGED vars
      BY DEF Next, Around
    <2> QED  BY <2>1, TickStepType, AroundType
  <1>2. TypeInv => TypeOK
    BY DEF TypeInv
  <1> QED  BY <1>1, <1>2, InitType, PTL DEF Spec
-----------------------------------------------------------------------------
(* The books: what is paid and what is passed *)

\* Where the effect of a tick is the one the tick's cursor stands at,
HeldAt   == (PlanPc \cup ExecPc \cup {"failed_job"}) \ {"plan", "pending"}
\* where it has its reservation,
FundedAt == ({"enqueue", "link"} \cup ExecPc \cup SettlePc)
              \ {"pending", "settle_effect", "settle_reservation"}
\* and where the provider has been asked in this very tick.
AskedAt  == {"retry", "outcome_read", "outcome_write", "ensure", "again_read", "again_write"}

\* A cursor has passed only effects that were dispatched, n times each.
CursorBacked(k, n) ==
    /\ \A e \in Effects : e < k.next => n[e] > 0
    /\ k.pending \in {NoEffect, k.next}

\* A job row has a reservation; a result, or a failure that is not an abort's,
\* comes from a dispatch.
JobBacked(e, j, res, n) ==
    /\ j.status # "absent" => res[e] # "absent"
    /\ j.status = "completed" \/ j.failure \notin {"none", "fatal"} => n[e] > 0

TickBacked(r, res, n) ==
    /\ CursorBacked(r.cur, n)
    /\ r.pc \in HeldAt \/ (r.pc \in SettlePc /\ r.then = "executor") => r.eff = r.cur.next
    /\ r.pc \in FundedAt => res[r.eff] # "absent"
    /\ r.pc \in AskedAt => n[r.eff] > 0
    /\ r.pc \in SettlePc /\ (r.then = "executor" \/ r.status = "completed" \/ r.error # "fatal") =>
         n[r.eff] > 0
    /\ r.pc = "failed_job" /\ r.row.failure \notin {"none", "fatal"} => n[r.eff] > 0

JobsBacked       == \A e \in Effects : JobBacked(e, job[e], reservation, dispatched)
DispatchesBacked == \A e \in Effects : dispatched[e] > 0 => reservation[e] # "absent"
TicksBacked      == \A t \in Threads : TickBacked(tick[t], reservation, dispatched)

\* A reservation that is over has its commit, or a thread about to write it.
Booked(e) == \/ reservation[e] \in {"absent", "reserved"} \/ commit[e].there
             \/ \E t \in Threads : At(t, "settle_commit") /\ tick[t].eff = e

AllBooked == crashes = 0 => \A e \in Effects : Booked(e)

Backed  == CursorBacked(cursor, dispatched) /\ JobsBacked /\ DispatchesBacked /\ TicksBacked
BookInv == TypeInv /\ Backed /\ AllBooked

-----------------------------------------------------------------------------
(* What a step of one thread leaves as it was *)

OthersSame(t) == \A u \in Threads \ {t} : tick'[u] = tick[u]

\* Nothing is taken back: neither a dispatch nor a reservation.
Grows == \A e \in Effects : /\ dispatched[e] > 0 => dispatched'[e] > 0
                            /\ reservation[e] # "absent" => reservation'[e] # "absent"

LEMMA TickFacts ==
    ASSUME TypeInv, NEW t \in Threads
    PROVE  /\ tick[t] \in Tick /\ TickOK(tick[t]) /\ tick[t].cur \in Cursor
           /\ tick[t].pc \in HeldAt \cup FundedAt \cup AskedAt \cup SettlePc => tick[t].eff \in Effects
  <1>1. tick[t] \in Tick /\ TickOK(tick[t])
    BY DEF TypeInv, TypeOK
  <1>2. tick[t].cur \in Cursor
    BY <1>1 DEF Tick
  <1>3. HeldAt \cup FundedAt \cup AskedAt \cup SettlePc \subseteq EffPc
    BY DEF HeldAt, FundedAt, AskedAt, PlanPc, ExecPc, SettlePc, EffPc
  <1> QED  BY <1>1, <1>2, <1>3 DEF TickOK

LEMMA CursorGrows ==
    ASSUME Grows, NEW k \in Cursor, CursorBacked(k, dispatched)
    PROVE  CursorBacked(k, dispatched')
  BY DEF Grows, CursorBacked

LEMMA OtherTicksGrow ==
    ASSUME TypeInv, TicksBacked, Grows, NEW u \in Threads
    PROVE  TickBacked(tick[u], reservation', dispatched')
  BY TickFacts, CursorGrows DEF TicksBacked, TickBacked, HeldAt, Grows

LEMMA StepKeepsBacked ==
    ASSUME TypeInv, Backed, NEW t \in Threads, OthersSame(t), Grows,
           CursorBacked(cursor', dispatched'), JobsBacked', DispatchesBacked',
           TickBacked(tick'[t], reservation', dispatched')
    PROVE  Backed'
  BY OtherTicksGrow DEF Backed, TicksBacked, OthersSame

\* No row changes that the books are about.
QuietRows == /\ cursor' = cursor /\ job' = job
             /\ reservation' = reservation /\ dispatched' = dispatched

LEMMA QuietKeepsBacked ==
    ASSUME TypeInv, Backed, NEW t \in Threads, OthersSame(t), QuietRows,
           TickBacked(tick'[t], reservation, dispatched)
    PROVE  Backed'
  BY StepKeepsBacked DEF QuietRows, Grows, Backed, JobsBacked, DispatchesBacked

\* The thread goes on to place p with what it holds.
GoesTo(t, p) ==
    /\ tick'[t].pc = p /\ OthersSame(t)
    /\ tick'[t].cur = tick[t].cur /\ tick'[t].eff = tick[t].eff /\ tick'[t].row = tick[t].row
    /\ tick'[t].status = tick[t].status /\ tick'[t].error = tick[t].error
    /\ tick'[t].then = tick[t].then

LEMMA GotoGoes ==
    ASSUME TypeInv, NEW t \in Threads, NEW p, Goto(t, p)
    PROVE  GoesTo(t, p)
  BY DEF Goto, TypeInv, TypeOK, OthersSame, GoesTo, Tick

\* A thread that saves its cursor next, or rests, owes the books its cursor only.
FreeAt == TickPc \ (HeldAt \cup SettlePc)

LEMMA FreeBacked ==
    ASSUME NEW r, NEW res, NEW n, r.pc \in FreeAt, CursorBacked(r.cur, n)
    PROVE  TickBacked(r, res, n)
  BY DEF TickBacked, FreeAt, HeldAt, FundedAt, AskedAt, PlanPc, ExecPc, SettlePc

LEMMA FreeSteps ==
    ASSUME TypeInv, Backed, NEW t \in Threads, OthersSame(t), QuietRows,
           tick'[t].pc \in FreeAt, CursorBacked(tick'[t].cur, dispatched)
    PROVE  Backed'
  BY FreeBacked, QuietKeepsBacked

LEMMA FreePlaces ==
    {"idle", "check", "plan", "pending", "save", "abort_job", "abort_list", "abort_next",
     "terminal", "finish", "error"} \subseteq FreeAt
  BY DEF FreeAt, TickPc, HeldAt, PlanPc, ExecPc, SettlePc

LEMMA GoesFree ==
    ASSUME TypeInv, Backed, NEW t \in Threads, QuietRows, NEW p \in FreeAt, GoesTo(t, p)
    PROVE  Backed'
  BY FreeSteps DEF Backed, TicksBacked, TickBacked, GoesTo

LEMMA SaveNextFree ==
    ASSUME TypeInv, NEW t \in Threads, NEW k \in Cursor, SaveNext(t, k)
    PROVE  OthersSame(t) /\ tick'[t].pc \in FreeAt /\ tick'[t].cur = k
  <1> DEFINE r == [tick[t] EXCEPT !.pc = "save", !.cur = k]
  <1>1. tick' = [tick EXCEPT ![t] = r] /\ tick[t] \in Tick
    BY DEF SaveNext, TypeInv, TypeOK
  <1>2. r.pc = "save" /\ r.cur = k
    BY <1>1 DEF Tick
  <1> HIDE DEF r
  <1>3. OthersSame(t) /\ tick'[t] = r
    BY <1>1 DEF OthersSame, TypeInv, TypeOK
  <1> QED  BY <1>2, <1>3, FreePlaces

LEMMA NewBacked == ASSUME NEW n PROVE CursorBacked(NewCursor, n)
  BY EffectsAssumption DEF NewCursor, CursorBacked, Effects

LEMMA EndTickFree ==
    ASSUME TypeInv, NEW t \in Threads, EndTick(t)
    PROVE  OthersSame(t) /\ tick'[t].pc \in FreeAt /\ tick'[t].cur = NewCursor
  BY FreePlaces DEF EndTick, OthersSame, TypeInv, TypeOK, Resting

LEMMA BeginAbortFree ==
    ASSUME TypeInv, NEW t \in Threads, NEW s \in Ending, BeginAbort(t, s)
    PROVE  OthersSame(t) /\ tick'[t].pc \in FreeAt /\ tick'[t].cur = tick[t].cur
  <1> DEFINE r == [tick[t] EXCEPT !.pc = "abort_job", !.out = s]
  <1>1. tick' = [tick EXCEPT ![t] = r] /\ tick[t] \in Tick
    BY BeginAbortBecomes DEF Becomes, TypeInv, TypeOK
  <1>2. OthersSame(t) /\ tick'[t] = r
    BY <1>1 DEF OthersSame, TypeInv, TypeOK
  <1>3. r.pc = "abort_job" /\ r.cur = tick[t].cur
    BY <1>1 DEF Tick
  <1> QED  BY <1>2, <1>3, FreePlaces

\* An abort settles with an error no dispatch reported.
LEMMA AbortSettleBacked ==
    ASSUME TypeInv, Backed, NEW t \in Threads, QuietRows, NEW e \in Effects,
           NEW th \in {"abort_list", "abort_next"}, NEW left \in SUBSET (Effects \X BOOLEAN),
           tick[t].out \in Ending, AbortSettle(t, e, th, left)
    PROVE  Backed'
  <1> DEFINE r == [tick[t] EXCEPT !.pc = "settle_effect", !.eff = e, !.status = tick[t].out,
                                  !.cost = Unknown, !.error = "fatal", !.then = th, !.todo = left]
  <1>1. tick' = [tick EXCEPT ![t] = r] /\ tick[t] \in Tick
    <2>1. Becomes(t, r)
      BY AbortSettleBecomes
    <2> QED  BY <2>1 DEF Becomes, TypeInv, TypeOK
  <1>2. OthersSame(t) /\ tick'[t] = r
    BY <1>1 DEF OthersSame, TypeInv, TypeOK
  <1>3. /\ r.pc = "settle_effect" /\ r.eff = e /\ r.status = tick[t].out
        /\ r.error = "fatal" /\ r.then = th /\ r.cur = tick[t].cur
    BY <1>1 DEF Tick
  <1>4. CursorBacked(tick[t].cur, dispatched)
    BY DEF Backed, TicksBacked, TickBacked
  <1>5. TickBacked(tick'[t], reservation, dispatched)
    BY <1>2, <1>3, <1>4 DEF TickBacked, HeldAt, FundedAt, AskedAt, PlanPc, ExecPc, SettlePc, Ending
  <1> QED  BY <1>2, <1>5, QuietKeepsBacked

-----------------------------------------------------------------------------
(* The statements of a tick *)

LEMMA Backs ==
    ASSUME Backed, NEW t \in Threads
    PROVE  TickBacked(tick[t], reservation, dispatched) /\ CursorBacked(tick[t].cur, dispatched)
  BY DEF Backed, TicksBacked, TickBacked

LEMMA LoadBacked ==
    ASSUME TypeInv, Backed, NEW t \in Threads, Load(t)
    PROVE  Backed'
  <1> DEFINE p == IF cursor.phase = "work" THEN "check" ELSE "finish"
             o == IF cursor.phase = "work" THEN "none" ELSE cursor.phase
             r == [tick[t] EXCEPT !.cur = cursor, !.pc = p, !.out = o]
  <1>1. tick[t] \in Tick
    BY TickFacts
  <1>2. OthersSame(t) /\ tick'[t] = r
    BY DEF Load, OthersSame, TypeInv, TypeOK
  <1>3. r.cur = cursor /\ r.pc = p
    BY <1>1 DEF Tick
  <1>4. QuietRows
    BY DEF Load, QuietRows, rows, ghosts
  <1> QED  BY <1>2, <1>3, <1>4, FreeSteps, FreePlaces DEF Backed

LEMMA CheckCancelledBacked ==
    ASSUME TypeInv, Backed, NEW t \in Threads, CheckCancelled(t)
    PROVE  Backed'
  <1>1. QuietRows
    BY DEF CheckCancelled, QuietRows, rows, ghosts
  <1>2. CASE \E s \in Ending : BeginAbort(t, s)
    BY <1>1, <1>2, BeginAbortFree, FreeSteps, Backs
  <1>3. CASE Goto(t, IF tick[t].cur.pending = NoEffect THEN "plan" ELSE "pending")
    BY <1>1, <1>3, GotoGoes, GoesFree, FreePlaces
  <1> QED  BY <1>2, <1>3 DEF CheckCancelled, Ending

LEMMA PlanExistingBacked ==
    ASSUME TypeInv, Backed, NEW t \in Threads, PlanExisting(t)
    PROVE  Backed'
  <1> DEFINE c == tick[t].cur
             k == [c EXCEPT !.pending = c.next]
  <1>1. QuietRows
    BY DEF PlanExisting, QuietRows, rows, ghosts
  <1>2. c \in Cursor /\ c.next \in Effects
    BY TickFacts DEF PlanExisting
  <1>3. k \in Cursor /\ k.next = c.next /\ k.pending = c.next
    BY <1>2 DEF Cursor
  <1>4. CursorBacked(k, dispatched)
    BY <1>3, Backs DEF CursorBacked
  <1>5. SaveNext(t, k)
    BY DEF PlanExisting
  <1> QED  BY <1>1, <1>3, <1>4, <1>5, SaveNextFree, FreeSteps

LEMMA PlanNewBacked ==
    ASSUME TypeInv, Backed, NEW t \in Threads, PlanNew(t)
    PROVE  Backed'
  <1> DEFINE r == [tick[t] EXCEPT !.pc = "record", !.eff = tick[t].cur.next]
  <1>1. QuietRows
    BY DEF PlanNew, QuietRows, rows, ghosts
  <1>2. tick[t] \in Tick
    BY TickFacts
  <1>3. OthersSame(t) /\ tick'[t] = r
    BY DEF PlanNew, OthersSame, TypeInv, TypeOK
  <1>4. r.pc = "record" /\ r.eff = tick[t].cur.next /\ r.cur = tick[t].cur
    BY <1>2 DEF Tick
  <1>5. TickBacked(tick'[t], reservation, dispatched)
    BY <1>3, <1>4, Backs DEF TickBacked, FundedAt, AskedAt, ExecPc, SettlePc
  <1> QED  BY <1>1, <1>3, <1>5, QuietKeepsBacked

LEMMA FinalizeBacked ==
    ASSUME TypeInv, Backed, NEW t \in Threads, Finalize(t)
    PROVE  Backed'
  <1> DEFINE r == [tick[t] EXCEPT !.pc = "terminal", !.out = "completed"]
  <1>1. QuietRows
    BY DEF Finalize, QuietRows, rows, ghosts
  <1>2. tick[t] \in Tick
    BY TickFacts
  <1>3. OthersSame(t) /\ tick'[t] = r
    BY DEF Finalize, OthersSame, TypeInv, TypeOK
  <1>4. r.pc = "terminal" /\ r.cur = tick[t].cur
    BY <1>2 DEF Tick
  <1> QED  BY <1>1, <1>3, <1>4, Backs, FreeSteps, FreePlaces

LEMMA RecordPlannedBacked ==
    ASSUME TypeInv, Backed, NEW t \in Threads, RecordPlanned(t)
    PROVE  Backed'
  <1>1. QuietRows /\ GoesTo(t, "admit") /\ tick[t].pc = "record"
    BY GotoGoes DEF RecordPlanned, At, QuietRows, ghosts
  <1>2. TickBacked(tick'[t], reservation, dispatched)
    BY <1>1, Backs DEF GoesTo, TickBacked, HeldAt, FundedAt, AskedAt, PlanPc, ExecPc, SettlePc
  <1> QED  BY <1>1, <1>2, QuietKeepsBacked DEF GoesTo

LEMMA AdmitBacked ==
    ASSUME TypeInv, Backed, NEW t \in Threads, Admit(t)
    PROVE  Backed'
  <1>1. PICK p \in {"reject", "reserve"} : QuietRows /\ GoesTo(t, p) /\ tick[t].pc = "admit"
    BY GotoGoes DEF Admit, At, QuietRows, rows, ghosts
  <1>2. TickBacked(tick'[t], reservation, dispatched)
    BY <1>1, Backs DEF GoesTo, TickBacked, HeldAt, FundedAt, AskedAt, PlanPc, ExecPc, SettlePc
  <1> QED  BY <1>1, <1>2, QuietKeepsBacked DEF GoesTo

LEMMA RejectBacked ==
    ASSUME TypeInv, Backed, NEW t \in Threads, Reject(t)
    PROVE  Backed'
  BY GotoGoes, GoesFree, FreePlaces DEF Reject, Err, QuietRows, ghosts

\* The reservation comes before the job and before every dispatch.
LEMMA ReserveBacked ==
    ASSUME TypeInv, Backed, NEW t \in Threads, Reserve(t)
    PROVE  Backed'
  <1>1. GoesTo(t, "enqueue") /\ tick[t].pc = "reserve" /\ tick[t].eff \in Effects
    BY GotoGoes, TickFacts DEF Reserve, At, HeldAt, PlanPc
  <1>2. /\ reservation' = [reservation EXCEPT ![tick[t].eff] = "reserved"]
        /\ cursor' = cursor /\ job' = job /\ dispatched' = dispatched
    BY DEF Reserve, ghosts
  <1>3. Grows /\ reservation'[tick[t].eff] = "reserved"
    BY <1>1, <1>2 DEF Grows, TypeInv, TypeOK
  <1>4. CursorBacked(cursor', dispatched') /\ DispatchesBacked'
    BY <1>2, <1>3 DEF Backed, DispatchesBacked, Grows
  <1>5. JobsBacked'
    BY <1>2, <1>3 DEF Backed, JobsBacked, JobBacked, Grows
  <1>6. TickBacked(tick'[t], reservation', dispatched')
    BY <1>1, <1>2, <1>3, Backs
       DEF GoesTo, TickBacked, HeldAt, FundedAt, AskedAt, PlanPc, ExecPc, SettlePc
  <1> QED  BY <1>1, <1>3, <1>4, <1>5, <1>6, StepKeepsBacked DEF GoesTo

\* One job row changes.
LEMMA JobStepBacked ==
    ASSUME TypeInv, Backed, NEW t \in Threads, OthersSame(t), NEW e \in Effects, NEW j,
           job' = [job EXCEPT ![e] = j], JobBacked(e, j, reservation, dispatched),
           cursor' = cursor, reservation' = reservation, dispatched' = dispatched,
           TickBacked(tick'[t], reservation, dispatched)
    PROVE  Backed'
  BY StepKeepsBacked DEF Grows, Backed, JobsBacked, TypeInv, TypeOK, DispatchesBacked

LEMMA EnqueueBacked ==
    ASSUME TypeInv, Backed, NEW t \in Threads, Enqueue(t)
    PROVE  Backed'
  <1>1. GoesTo(t, "link") /\ tick[t].pc = "enqueue" /\ tick[t].eff \in Effects
    BY GotoGoes, TickFacts DEF Enqueue, At, HeldAt, PlanPc
  <1>2. reservation[tick[t].eff] # "absent"
    BY <1>1, Backs DEF TickBacked, FundedAt
  <1>3. Enqueued.status = "pending" /\ Enqueued.failure = "none"
    BY DEF Enqueued, AbsentJob
  <1>4. JobBacked(tick[t].eff, Enqueued, reservation, dispatched)
    BY <1>2, <1>3 DEF JobBacked
  <1>5. TickBacked(tick'[t], reservation, dispatched)
    BY <1>1, <1>2, Backs DEF GoesTo, TickBacked, HeldAt, FundedAt, AskedAt, PlanPc, ExecPc, SettlePc
  <1> QED  BY <1>1, <1>4, <1>5, JobStepBacked DEF Enqueue, GoesTo, ghosts

LEMMA LinkBacked ==
    ASSUME TypeInv, Backed, NEW t \in Threads, Link(t)
    PROVE  Backed'
  <1> DEFINE c == tick[t].cur
             k == [c EXCEPT !.pending = tick[t].eff]
  <1>1. QuietRows
    BY DEF Link, QuietRows, ghosts
  <1>2. c \in Cursor /\ tick[t].pc = "link" /\ tick[t].eff = c.next /\ tick[t].eff \in Effects
    BY TickFacts, Backs DEF Link, At, TickBacked, HeldAt, PlanPc
  <1>3. k \in Cursor /\ k.next = c.next /\ k.pending = c.next
    BY <1>2 DEF Cursor
  <1>4. CursorBacked(k, dispatched)
    BY <1>3, Backs DEF CursorBacked
  <1>5. SaveNext(t, k)
    BY DEF Link
  <1> QED  BY <1>1, <1>3, <1>4, <1>5, SaveNextFree, FreeSteps

\* Saving a cursor, whatever its sequence number and phase.
LEMMA PersistBacked ==
    ASSUME NEW k \in Cursor, NEW old \in Cursor, NEW n, NEW q \in CursorTerminal \cup {"work"},
           CursorBacked(k, n), CursorBacked(old, n)
    PROVE  CursorBacked(Persist(old, [k EXCEPT !.seq = @ + 1, !.phase = q]), n)
  <1> DEFINE l == [k EXCEPT !.seq = @ + 1, !.phase = q]
  <1>1. l.next = k.next /\ l.pending = k.pending
    BY DEF Cursor
  <1>2. CursorBacked(l, n)
    BY <1>1 DEF CursorBacked
  <1> QED  BY <1>2 DEF Persist

LEMMA CursorStepBacked ==
    ASSUME TypeInv, Backed, NEW t \in Threads, OthersSame(t),
           job' = job, reservation' = reservation, dispatched' = dispatched,
           CursorBacked(cursor', dispatched), tick'[t].pc \in FreeAt,
           CursorBacked(tick'[t].cur, dispatched)
    PROVE  Backed'
  BY FreeBacked, StepKeepsBacked DEF Grows, Backed, JobsBacked, DispatchesBacked

LEMMA SaveCursorBacked ==
    ASSUME TypeInv, Backed, NEW t \in Threads, SaveCursor(t)
    PROVE  Backed'
  <1> DEFINE k == tick[t].cur
             l == [k EXCEPT !.seq = @ + 1]
  <1>1. k \in Cursor /\ cursor \in Cursor
    BY TickFacts DEF TypeInv, TypeOK
  <1>2. l.next = k.next /\ l.pending = k.pending
    BY <1>1 DEF Cursor
  <1>3. CursorBacked(l, dispatched)
    BY <1>2, Backs DEF CursorBacked
  <1>4. CursorBacked(cursor', dispatched)
    BY <1>3 DEF SaveCursor, Persist, Backed
  <1>5. OthersSame(t) /\ tick'[t].pc \in FreeAt /\ CursorBacked(tick'[t].cur, dispatched)
    BY EndTickFree, NewBacked DEF SaveCursor
  <1> QED  BY <1>4, <1>5, CursorStepBacked DEF SaveCursor, rows, ghosts

LEMMA TerminalizeBacked ==
    ASSUME TypeInv, Backed, NEW t \in Threads, Terminalize(t)
    PROVE  Backed'
  <1>1. tick[t].cur \in Cursor /\ cursor \in Cursor /\ tick[t].out \in CursorTerminal
    BY TickFacts DEF TypeInv, TypeOK, TickOK, Terminalize, At
  <1>2. CursorBacked(cursor', dispatched)
    BY <1>1, Backs, PersistBacked DEF Terminalize, Backed
  <1>3. GoesTo(t, "finish") /\ "finish" \in FreeAt
    BY GotoGoes, FreePlaces DEF Terminalize
  <1> QED  BY <1>2, <1>3, Backs, CursorStepBacked DEF Terminalize, GoesTo, rows, ghosts

LEMMA FinishBacked ==
    ASSUME TypeInv, Backed, NEW t \in Threads, Finish(t) \/ FinishWithError(t)
    PROVE  Backed'
  BY EndTickFree, NewBacked, FreeSteps DEF Finish, FinishWithError, QuietRows, rows, ghosts

\* The cursor passes an effect only when the provider has been asked.
LEMMA PassBacked ==
    ASSUME TypeInv, Backed, NEW t \in Threads, NEW e \in Effects, QuietRows,
           e = tick[t].cur.next, dispatched[e] > 0,
           SaveNext(t, [tick[t].cur EXCEPT !.next = e + 1, !.pending = NoEffect])
    PROVE  Backed'
  <1> DEFINE k == tick[t].cur
             l == [k EXCEPT !.next = e + 1, !.pending = NoEffect]
  <1>1. k \in Cursor /\ l \in Cursor
    BY TickFacts, PassedOK
  <1>2. l.next = e + 1 /\ l.pending = NoEffect
    BY <1>1 DEF Cursor
  <1>3. CursorBacked(l, dispatched)
    <2>1. ASSUME NEW d \in Effects, d < e + 1 PROVE dispatched[d] > 0
      BY <2>1, Backs DEF Effects, CursorBacked
    <2> QED  BY <1>2, <2>1 DEF CursorBacked
  <1> QED  BY <1>1, <1>3, SaveNextFree, FreeSteps

LEMMA ConsumeBacked ==
    ASSUME TypeInv, Backed, NEW t \in Threads, NEW e \in Effects, QuietRows,
           e = tick[t].cur.next, job[e].status = "completed",
           ConsumeCompleted(t, e, job[e])
    PROVE  Backed'
  <1>1. dispatched[e] > 0
    BY DEF Backed, JobsBacked, JobBacked
  <1>2. CASE Goto(t, "error")
    BY <1>2, GotoGoes, GoesFree, FreePlaces
  <1> QED  BY <1>1, <1>2, PassBacked DEF ConsumeCompleted, Err

LEMMA PendingJobBacked ==
    ASSUME TypeInv, Backed, NEW t \in Threads, PendingJob(t)
    PROVE  Backed'
  <1> DEFINE e == tick[t].cur.pending
  <1>1. QuietRows /\ tick[t] \in Tick
    BY TickFacts DEF PendingJob, QuietRows, rows, ghosts
  <1>2. e \in Effects /\ e = tick[t].cur.next
    BY TickFacts, Backs DEF PendingJob, At, TickOK, CursorBacked, Effects, NoEffect
  <1>3. JobBacked(e, job[e], reservation, dispatched)
    BY <1>2 DEF Backed, JobsBacked
  <1>4. CASE Claimable(job[e]) /\ tick' = [tick EXCEPT ![t].pc = "claim", ![t].eff = e]
    <2> DEFINE r == [tick[t] EXCEPT !.pc = "claim", !.eff = e]
    <2>1. OthersSame(t) /\ tick'[t] = r
      BY <1>4 DEF OthersSame, TypeInv, TypeOK
    <2>2. r.pc = "claim" /\ r.eff = e /\ r.cur = tick[t].cur
      BY <1>1 DEF Tick
    <2>3. reservation[e] # "absent"
      BY <1>3, <1>4 DEF JobBacked, Claimable
    <2>4. TickBacked(tick'[t], reservation, dispatched)
      BY <1>2, <2>1, <2>2, <2>3, Backs DEF TickBacked, AskedAt, SettlePc
    <2> QED  BY <1>1, <2>1, <2>4, QuietKeepsBacked
  <1>5. CASE EndTick(t)
    BY <1>1, <1>5, EndTickFree, NewBacked, FreeSteps
  <1>6. CASE job[e].status = "completed" /\ ConsumeCompleted(t, e, job[e])
    BY <1>1, <1>2, <1>6, ConsumeBacked
  <1>7. CASE tick' = [tick EXCEPT ![t].pc = "failed_job", ![t].eff = e, ![t].row = job[e]]
    <2> DEFINE r == [tick[t] EXCEPT !.pc = "failed_job", !.eff = e, !.row = job[e]]
    <2>1. OthersSame(t) /\ tick'[t] = r
      BY <1>7 DEF OthersSame, TypeInv, TypeOK
    <2>2. r.pc = "failed_job" /\ r.eff = e /\ r.cur = tick[t].cur /\ r.row = job[e]
      BY <1>1 DEF Tick
    <2>3. TickBacked(tick'[t], reservation, dispatched)
      BY <1>2, <1>3, <2>1, <2>2, Backs
         DEF TickBacked, JobBacked, FundedAt, AskedAt, ExecPc, SettlePc
    <2> QED  BY <1>1, <2>1, <2>3, QuietKeepsBacked
  <1> QED  BY <1>4, <1>5, <1>6, <1>7 DEF PendingJob

\* recover_expired_optimizer_jobs neither completes a job nor writes its failure.
LEMMA RecoverBacks ==
    ASSUME NEW j \in Job, NEW max \in Nat
    PROVE  /\ RecoverExpired(j, max).failure = j.failure
           /\ RecoverExpired(j, max).status = "completed" => j.status = "completed"
           /\ RecoverExpired(j, max).status # "absent" => j.status # "absent"
  <1> DEFINE x == [j EXCEPT !.status = "expired", !.lease = NoLease, !.due = TRUE, !.late = FALSE]
  <1>1. x.failure = j.failure /\ x.status = "expired"
    BY DEF Job
  <1>2. Rescheduled(j, j.failure).failure = j.failure
        /\ Rescheduled(j, j.failure).status = "retry_scheduled"
    BY DEF Rescheduled, Job
  <1>3. InHand(j) => j.status \notin {"absent", "completed"}
    BY DEF InHand
  <1> QED  BY <1>1, <1>2, <1>3 DEF RecoverExpired

LEMMA RecoveredBacked ==
    ASSUME TypeInv, Backed
    PROVE  /\ RecoveredJobs \in [Effects -> Job]
           /\ \A e \in Effects : JobBacked(e, RecoveredJobs[e], reservation, dispatched)
  <1>1. RecoveredJobs \in [Effects -> Job]
    BY RecoveredFacts
  <1>2. ASSUME NEW e \in Effects
        PROVE  JobBacked(e, RecoveredJobs[e], reservation, dispatched)
    BY Policy, RecoverBacks DEF TypeInv, TypeOK, Backed, JobsBacked, RecoveredJobs, JobBacked
  <1> QED  BY <1>1, <1>2

LEMMA ClaimBacked ==
    ASSUME TypeInv, Backed, NEW t \in Threads, Claim(t)
    PROVE  Backed'
  <1> DEFINE e == tick[t].eff
             j == RecoveredJobs[e]
  <1>1. /\ tick[t] \in Tick /\ tick[t].pc = "claim" /\ e \in Effects /\ e = tick[t].cur.next
        /\ reservation[e] # "absent" /\ j \in Job
    BY TickFacts, Backs, RecoveredBacked DEF Claim, At, TickBacked, HeldAt, FundedAt, PlanPc, ExecPc
  <1>2. /\ cursor' = cursor /\ reservation' = reservation /\ dispatched' = dispatched /\ Grows
        /\ CursorBacked(cursor', dispatched') /\ DispatchesBacked'
    BY DEF Claim, ghosts, Grows, Backed, DispatchesBacked
  <1>3. CASE Claimable(j)
    <2> DEFINE r == [tick[t] EXCEPT !.pc = "run", !.lease = minted + 1]
    <2>1. OthersSame(t) /\ tick'[t] = r
      BY <1>3 DEF Claim, OthersSame, TypeInv, TypeOK
    <2>2. r.pc = "run" /\ r.eff = e /\ r.cur = tick[t].cur
      BY <1>1 DEF Tick
    <2>3. TickBacked(tick'[t], reservation, dispatched)
      BY <1>1, <2>1, <2>2, Backs DEF TickBacked, AskedAt, SettlePc
    <2>4. job' = [RecoveredJobs EXCEPT ![e] = Claimed(j, minted + 1)]
      BY <1>3 DEF Claim
    <2>5. Claimed(j, minted + 1).status = "leased" /\ Claimed(j, minted + 1).failure = j.failure
      BY <1>1 DEF Claimed, Job
    <2>6. JobBacked(e, j, reservation, dispatched)
      BY <1>1, RecoveredBacked
    <2>7. JobBacked(e, Claimed(j, minted + 1), reservation, dispatched)
      BY <1>1, <2>5, <2>6 DEF JobBacked
    <2>8. JobsBacked'
      BY <1>2, <2>4, <2>7, RecoveredBacked DEF JobsBacked
    <2> QED  BY <1>2, <2>1, <2>3, <2>8, StepKeepsBacked
  <1>4. CASE ~Claimable(j)
    BY <1>4, GotoGoes, <1>1, Backs, <1>2, RecoveredBacked, StepKeepsBacked DEF Claim, GoesTo,
       TickBacked, AskedAt, SettlePc, JobsBacked
  <1> QED  BY <1>3, <1>4

\* What a tick has while it executes a job.
LEMMA ExecFacts ==
    ASSUME TypeInv, Backed, NEW t \in Threads, tick[t].pc \in ExecPc \ {"pending"}
    PROVE  /\ tick[t] \in Tick /\ TickOK(tick[t]) /\ tick[t].then = "executor"
           /\ tick[t].eff \in Effects /\ tick[t].eff = tick[t].cur.next
           /\ reservation[tick[t].eff] # "absent"
           /\ job[tick[t].eff] \in Job /\ JobBacked(tick[t].eff, job[tick[t].eff], reservation, dispatched)
           /\ tick[t].pc \in AskedAt => dispatched[tick[t].eff] > 0
  BY TickFacts, Backs DEF ExecPc, HeldAt, FundedAt, PlanPc, TickOK, TickBacked, Backed, JobsBacked,
     TypeInv, TypeOK

LEMMA MarkRunningBacked ==
    ASSUME TypeInv, Backed, NEW t \in Threads, MarkRunning(t)
    PROVE  Backed'
  <1> DEFINE e == tick[t].eff
             j == Running(job[e])
  <1>1. tick[t].pc = "run" /\ "run" \in ExecPc \ {"pending"}
    BY DEF MarkRunning, At, ExecPc
  <1>2. j.status = "running" /\ j.failure = job[e].failure
    BY <1>1, ExecFacts DEF Running, Job
  <1>3. JobBacked(e, j, reservation, dispatched)
    BY <1>1, <1>2, ExecFacts DEF JobBacked
  <1>4. CASE Holds(job[e], tick[t].lease)
    <2> DEFINE r == [tick[t] EXCEPT !.pc = "mark", !.row = j]
    <2>1. OthersSame(t) /\ tick'[t] = r
      BY <1>4 DEF MarkRunning, OthersSame, TypeInv, TypeOK
    <2>2. r.pc = "mark" /\ r.eff = e /\ r.cur = tick[t].cur
      BY <1>1, ExecFacts DEF Tick
    <2>3. TickBacked(tick'[t], reservation, dispatched)
      BY <1>1, <2>1, <2>2, ExecFacts, Backs DEF TickBacked, AskedAt, SettlePc
    <2>4. job' = [job EXCEPT ![e] = j]
      BY <1>4 DEF MarkRunning
    <2> QED  BY <1>1, <1>3, <2>1, <2>3, <2>4, ExecFacts, JobStepBacked DEF MarkRunning, ghosts
  <1>5. CASE ~Holds(job[e], tick[t].lease)
    BY <1>5, GotoGoes, <1>1, ExecFacts, Backs, QuietKeepsBacked DEF MarkRunning, QuietRows, ghosts,
       GoesTo, TickBacked, AskedAt, SettlePc
  <1> QED  BY <1>4, <1>5

LEMMA RecordRunningBacked ==
    ASSUME TypeInv, Backed, NEW t \in Threads, RecordRunning(t)
    PROVE  Backed'
  BY GotoGoes, ExecFacts, Backs, QuietKeepsBacked DEF RecordRunning, At, QuietRows, ghosts, GoesTo,
     TickBacked, AskedAt, ExecPc, SettlePc

\* A call to the provider.
LEMMA DispatchStepBacked ==
    ASSUME TypeInv, Backed, NEW t \in Threads, OthersSame(t), tick[t].pc = "dispatch",
           dispatched' = [dispatched EXCEPT ![tick[t].eff] = @ + 1],
           cursor' = cursor, job' = job, reservation' = reservation,
           tick'[t].pc \in {"outcome_read", "retry", "settle_effect"},
           tick'[t].eff = tick[t].eff, tick'[t].cur = tick[t].cur
    PROVE  Backed'
  <1> DEFINE e == tick[t].eff
  <1>1. /\ e \in Effects /\ e = tick[t].cur.next /\ reservation[e] # "absent"
        /\ dispatched \in [Effects -> Nat] /\ tick[t].cur \in Cursor /\ cursor \in Cursor
    BY ExecFacts, TickFacts DEF ExecPc, TypeInv, TypeOK
  <1>2. dispatched'[e] > 0
    BY <1>1
  <1>3. Grows
    BY <1>1 DEF Grows
  <1>4. CursorBacked(cursor', dispatched') /\ CursorBacked(tick[t].cur, dispatched')
    BY <1>1, <1>3, Backs, CursorGrows DEF Backed
  <1>5. DispatchesBacked'
    BY <1>1 DEF Backed, DispatchesBacked
  <1>6. JobsBacked'
    BY <1>3 DEF Backed, JobsBacked, JobBacked, Grows
  <1>7. TickBacked(tick'[t], reservation', dispatched')
    BY <1>1, <1>2, <1>4 DEF TickBacked, HeldAt, FundedAt, SettlePc
  <1> QED  BY <1>3, <1>4, <1>5, <1>6, <1>7, StepKeepsBacked

LEMMA DispatchOkBacked ==
    ASSUME TypeInv, Backed, NEW t \in Threads, DispatchOk(t)
    PROVE  Backed'
  <1>1. PICK c \in Reported :
          tick' = [tick EXCEPT ![t].pc = "outcome_read", ![t].status = "completed", ![t].cost = c]
    BY DEF DispatchOk
  <1> DEFINE r == [tick[t] EXCEPT !.pc = "outcome_read", !.status = "completed", !.cost = c]
  <1>2. OthersSame(t) /\ tick'[t] = r /\ tick[t] \in Tick
    BY <1>1, TickFacts DEF OthersSame, TypeInv, TypeOK
  <1>3. r.pc = "outcome_read" /\ r.eff = tick[t].eff /\ r.cur = tick[t].cur
    BY <1>2 DEF Tick
  <1> QED  BY <1>2, <1>3, DispatchStepBacked DEF DispatchOk, At, rows

\* A settlement the executor begins with an error.
LEMMA BeginSettleFields ==
    ASSUME TypeInv, NEW t \in Threads, NEW x \in ErrorClass, tick[t].eff \in Effects,
           tick[t].then = "executor", BeginSettle(t, tick[t].eff, "failed", Unknown, x)
    PROVE  /\ OthersSame(t) /\ tick'[t].pc = "settle_effect" /\ tick'[t].eff = tick[t].eff
           /\ tick'[t].cur = tick[t].cur
  <1> DEFINE r == [tick[t] EXCEPT !.pc = "settle_effect", !.eff = tick[t].eff, !.status = "failed",
                                  !.cost = Unknown, !.error = x]
  <1>1. Becomes(t, r)
    BY BeginSettleBecomes DEF Cost
  <1>2. OthersSame(t) /\ tick'[t] = r /\ tick[t] \in Tick
    BY <1>1, TickFacts DEF Becomes, OthersSame, TypeInv, TypeOK
  <1>3. r.pc = "settle_effect" /\ r.eff = tick[t].eff /\ r.cur = tick[t].cur
    BY <1>2 DEF Tick
  <1> QED  BY <1>2, <1>3

LEMMA DispatchErrBacked ==
    ASSUME TypeInv, Backed, NEW t \in Threads, DispatchErr(t)
    PROVE  Backed'
  <1>1. tick[t].pc = "dispatch" /\ tick[t].eff \in Effects /\ tick[t].then = "executor" /\ tick[t] \in Tick
    BY ExecFacts DEF DispatchErr, At, ExecPc
  <1>2. PICK x \in Errors :
          \/ tick' = [tick EXCEPT ![t].pc = "retry", ![t].error = x]
          \/ BeginSettle(t, tick[t].eff, "failed", Unknown, x)
    BY DEF DispatchErr
  <1>3. x \in ErrorClass
    BY EffectsAssumption
  <1>4. /\ OthersSame(t) /\ tick'[t].pc \in {"retry", "settle_effect"}
        /\ tick'[t].eff = tick[t].eff /\ tick'[t].cur = tick[t].cur
    <2>1. CASE tick' = [tick EXCEPT ![t].pc = "retry", ![t].error = x]
      <3> DEFINE r == [tick[t] EXCEPT !.pc = "retry", !.error = x]
      <3>1. OthersSame(t) /\ tick'[t] = r
        BY <2>1 DEF OthersSame, TypeInv, TypeOK
      <3>2. r.pc = "retry" /\ r.eff = tick[t].eff /\ r.cur = tick[t].cur
        BY <1>1 DEF Tick
      <3> QED  BY <3>1, <3>2
    <2> QED  BY <1>1, <1>2, <1>3, <2>1, BeginSettleFields
  <1> QED  BY <1>1, <1>4, DispatchStepBacked DEF DispatchErr, rows

LEMMA ScheduleRetryBacked ==
    ASSUME TypeInv, Backed, NEW t \in Threads, ScheduleRetry(t)
    PROVE  Backed'
  <1> DEFINE e == tick[t].eff
             j == Rescheduled(job[e], tick[t].error)
  <1>1. tick[t].pc = "retry" /\ "retry" \in ExecPc \ {"pending"} /\ "retry" \in AskedAt
    BY DEF ScheduleRetry, At, ExecPc, AskedAt
  <1>2. tick[t].error \in ErrorClass
    BY <1>1, ExecFacts DEF TickOK
  <1>3. CASE Holds(job[e], tick[t].lease)
    <2>1. GoesTo(t, "reread") /\ job' = [job EXCEPT ![e] = j]
      BY <1>3, GotoGoes DEF ScheduleRetry
    <2>2. j.status = "retry_scheduled"
      BY <1>1, ExecFacts DEF Rescheduled, Job
    <2>3. JobBacked(e, j, reservation, dispatched)
      BY <1>1, <2>2, ExecFacts DEF JobBacked
    <2>4. TickBacked(tick'[t], reservation, dispatched)
      BY <1>1, <2>1, ExecFacts, Backs DEF GoesTo, TickBacked, AskedAt, SettlePc
    <2> QED  BY <1>1, <2>1, <2>3, <2>4, ExecFacts, JobStepBacked DEF ScheduleRetry, ghosts, GoesTo
  <1>4. CASE ~Holds(job[e], tick[t].lease)
    BY <1>4, <1>1, <1>2, ExecFacts, BeginSettleFields, Backs, QuietKeepsBacked DEF ScheduleRetry,
       QuietRows, ghosts, TickBacked, HeldAt, FundedAt, AskedAt
  <1> QED  BY <1>3, <1>4

LEMMA ReadForOutcomeBacked ==
    ASSUME TypeInv, Backed, NEW t \in Threads, ReadForOutcome(t)
    PROVE  Backed'
  <1>1. PICK p \in {"outcome_write", "again_write"} :
          tick' = [tick EXCEPT ![t].pc = p, ![t].row = job[tick[t].eff]]
    BY DEF ReadForOutcome
  <1>2. /\ tick[t].pc \in ExecPc \ {"pending"} /\ tick[t].pc \in AskedAt /\ QuietRows
        /\ p \in AskedAt /\ p \notin SettlePc /\ p # "failed_job"
    BY DEF ReadForOutcome, At, ExecPc, AskedAt, SettlePc, QuietRows, rows, ghosts
  <1> DEFINE r == [tick[t] EXCEPT !.pc = p, !.row = job[tick[t].eff]]
  <1>3. OthersSame(t) /\ tick'[t] = r
    BY <1>1 DEF OthersSame, TypeInv, TypeOK
  <1>4. r.pc = p /\ r.eff = tick[t].eff /\ r.cur = tick[t].cur
    BY <1>2, ExecFacts DEF Tick
  <1>5. TickBacked(tick'[t], reservation, dispatched)
    BY <1>2, <1>3, <1>4, ExecFacts, Backs DEF TickBacked
  <1> QED  BY <1>2, <1>3, <1>5, QuietKeepsBacked

LEMMA WriteOutcomeBacked ==
    ASSUME TypeInv, Backed, NEW t \in Threads, WriteOutcome(t)
    PROVE  Backed'
  <1> DEFINE e == tick[t].eff
             j == WithOutcome(tick[t].row)
  <1>1. tick[t].pc \in ExecPc \ {"pending"} /\ tick[t].pc \in AskedAt
    BY DEF WriteOutcome, At, ExecPc, AskedAt
  <1>2. JobBacked(e, j, reservation, dispatched) /\ e \in Effects
    BY <1>1, ExecFacts DEF JobBacked
  <1>3. CASE Goto(t, "settle_effect")
    <2>1. GoesTo(t, "settle_effect")
      BY <1>3, GotoGoes
    <2>2. TickBacked(tick'[t], reservation, dispatched)
      BY <1>1, <2>1, ExecFacts, Backs DEF GoesTo, TickBacked, HeldAt, FundedAt, AskedAt
    <2> QED  BY <1>2, <2>1, <2>2, JobStepBacked DEF WriteOutcome, ghosts, GoesTo
  <1>4. CASE SaveNext(t, tick[t].cur)
    BY <1>4, SaveNextFree, TickFacts, Backs, FreeBacked, <1>2, JobStepBacked DEF WriteOutcome,
       ghosts
  <1> QED  BY <1>3, <1>4 DEF WriteOutcome

LEMMA EnsureLeaseBacked ==
    ASSUME TypeInv, Backed, NEW t \in Threads, EnsureLease(t)
    PROVE  Backed'
  <1>1. PICK p \in {"again_read", "reread"} : Goto(t, p)
    BY DEF EnsureLease
  <1>2. /\ tick[t].pc \in ExecPc \ {"pending"} /\ tick[t].pc \in AskedAt /\ QuietRows
        /\ p \notin SettlePc /\ p # "failed_job"
    BY DEF EnsureLease, At, ExecPc, AskedAt, SettlePc, QuietRows, rows, ghosts
  <1>3. GoesTo(t, p)
    BY <1>1, GotoGoes
  <1>4. TickBacked(tick'[t], reservation, dispatched)
    BY <1>2, <1>3, ExecFacts, Backs DEF GoesTo, TickBacked
  <1> QED  BY <1>2, <1>3, <1>4, QuietKeepsBacked DEF GoesTo

LEMMA RereadBacked ==
    ASSUME TypeInv, Backed, NEW t \in Threads, Reread(t)
    PROVE  Backed'
  <1> DEFINE e == tick[t].eff
             j == job[e]
  <1>1. tick[t].pc \in ExecPc \ {"pending"} /\ QuietRows
    BY DEF Reread, At, ExecPc, QuietRows, rows, ghosts
  <1>2. CASE j.status = "completed" /\ ConsumeCompleted(t, e, j)
    BY <1>1, <1>2, ExecFacts, ConsumeBacked
  <1>3. CASE SaveNext(t, tick[t].cur)
    BY <1>1, <1>3, SaveNextFree, TickFacts, Backs, FreeSteps
  <1>4. CASE tick' = [tick EXCEPT ![t].pc = "failed_job", ![t].row = j]
    <2> DEFINE r == [tick[t] EXCEPT !.pc = "failed_job", !.row = j]
    <2>1. OthersSame(t) /\ tick'[t] = r
      BY <1>4 DEF OthersSame, TypeInv, TypeOK
    <2>2. r.pc = "failed_job" /\ r.eff = e /\ r.cur = tick[t].cur /\ r.row = j
      BY <1>1, ExecFacts DEF Tick
    <2>3. TickBacked(tick'[t], reservation, dispatched)
      BY <1>1, <2>1, <2>2, ExecFacts, Backs
         DEF TickBacked, JobBacked, FundedAt, AskedAt, ExecPc, SettlePc
    <2> QED  BY <1>1, <2>1, <2>3, QuietKeepsBacked
  <1>5. CASE BeginAbort(t, "failed")
    BY <1>1, <1>5, BeginAbortFree, Backs, FreeSteps DEF Ending
  <1> QED  BY <1>2, <1>3, <1>4, <1>5 DEF Reread

\* A failure that may be retried or degraded is one a dispatch ended with.
LEMMA FailedJobBacked ==
    ASSUME TypeInv, Backed, NEW t \in Threads, FailedJob(t)
    PROVE  Backed'
  <1> DEFINE e == tick[t].eff
             j == tick[t].row
             k == tick[t].cur
  <1>1. /\ tick[t].pc = "failed_job" /\ "failed_job" \in HeldAt
        /\ tick[t] \in Tick /\ k \in Cursor /\ j \in Job
        /\ e \in Effects /\ e = k.next /\ CursorBacked(k, dispatched)
    BY TickFacts, Backs DEF FailedJob, At, HeldAt, TickBacked, Tick
  <1>2. j.failure \in PayloadRetryable => dispatched[e] > 0
    BY <1>1, Backs DEF TickBacked, PayloadRetryable
  <1>3. CASE RetryAllowed(e, j) /\ job' = [job EXCEPT ![e] = Rescheduled(@, j.failure)] /\ SaveNext(t, k)
    <2>1. /\ OthersSame(t) /\ tick'[t].pc \in FreeAt /\ tick'[t].cur = k
      BY <1>1, <1>3, SaveNextFree
    <2>2. TickBacked(tick'[t], reservation, dispatched)
      BY <1>1, <2>1, FreeBacked
    <2>3. job[e].status # "absent" /\ dispatched[e] > 0
      BY <1>2, <1>3 DEF RetryAllowed
    <2>4. JobBacked(e, Rescheduled(job[e], j.failure), reservation, dispatched)
      BY <1>1, <2>3 DEF Backed, JobsBacked, JobBacked
    <2>5. job' = [job EXCEPT ![e] = Rescheduled(job[e], j.failure)]
      BY <1>3
    <2> QED  BY <1>1, <2>1, <2>2, <2>4, <2>5, JobStepBacked DEF FailedJob, ghosts
  <1>4. CASE /\ Degradable(e, j) /\ job' = job
             /\ SaveNext(t, [k EXCEPT !.next = e + 1, !.pending = NoEffect])
    BY <1>2, <1>4, <1>1, PassBacked DEF Degradable, FailedJob, QuietRows, ghosts
  <1>5. CASE job' = job /\ ConsumeFailed(t, j)
    <2> DEFINE o == IF j.status = "cancelled" THEN "cancelled" ELSE "failed"
               l == [k EXCEPT !.pending = NoEffect]
               r == [tick[t] EXCEPT !.pc = "terminal", !.cur = l, !.out = o]
    <2>1. l \in Cursor /\ l.next = k.next /\ l.pending = NoEffect
      BY <1>1 DEF Cursor
    <2>2. OthersSame(t) /\ tick'[t] = r
      BY <1>1, <1>5 DEF ConsumeFailed, OthersSame, TypeInv, TypeOK
    <2>3. tick'[t].pc = "terminal" /\ tick'[t].cur = l
      BY <1>1, <2>1, <2>2 DEF Tick
    <2>4. CursorBacked(l, dispatched) /\ QuietRows
      BY <1>1, <1>5, <2>1 DEF CursorBacked, FailedJob, QuietRows, ghosts
    <2> QED  BY <2>2, <2>3, <2>4, FreeSteps, FreePlaces
  <1> QED  BY <1>3, <1>4, <1>5 DEF FailedJob

\* What a tick has while it settles an effect.
LEMMA SettleFacts ==
    ASSUME TypeInv, Backed, NEW t \in Threads, tick[t].pc \in SettlePc
    PROVE  /\ tick[t] \in Tick /\ tick[t].eff \in Effects
           /\ tick[t].status \in {"completed", "failed", "cancelled"}
           /\ \/ tick[t].then = "executor" \/ tick[t].status = "completed" \/ tick[t].error # "fatal"
              => dispatched[tick[t].eff] > 0
           /\ tick[t].then = "executor" => tick[t].eff = tick[t].cur.next
  BY TickFacts, Backs DEF TickOK, TickBacked

\* Within a settlement, past the reservation's end.
LEMMA SettleGoes ==
    ASSUME TypeInv, Backed, NEW t \in Threads, tick[t].pc \in SettlePc, NEW p \in SettlePc,
           GoesTo(t, p), p \notin FundedAt \/ reservation[tick[t].eff] # "absent"
    PROVE  TickBacked(tick'[t], reservation, dispatched)
  BY SettleFacts, Backs DEF SettlePc, HeldAt, AskedAt, PlanPc, ExecPc, GoesTo, TickBacked

LEMMA SettleEffectBacked ==
    ASSUME TypeInv, Backed, NEW t \in Threads, SettleEffect(t)
    PROVE  Backed'
  BY GotoGoes, SettleGoes, QuietKeepsBacked DEF SettleEffect, At, SettlePc, FundedAt, QuietRows,
     ghosts, GoesTo

LEMMA SettleReservationBacked ==
    ASSUME TypeInv, Backed, NEW t \in Threads, SettleReservation(t)
    PROVE  Backed'
  <1> DEFINE e == tick[t].eff
             v == IF tick[t].status = "completed" THEN "committed" ELSE tick[t].status
  <1>1. GoesTo(t, "settle_commit") /\ tick[t].pc = "settle_reservation" /\ tick[t].pc \in SettlePc
    BY GotoGoes DEF SettleReservation, At, SettlePc
  <1>2. e \in Effects /\ v # "absent"
    BY <1>1, SettleFacts
  <1>3. /\ reservation' = [reservation EXCEPT ![e] = v]
        /\ cursor' = cursor /\ job' = job /\ dispatched' = dispatched
    BY DEF SettleReservation, ghosts
  <1>4. Grows /\ reservation'[e] # "absent"
    BY <1>2, <1>3 DEF Grows, TypeInv, TypeOK
  <1>5. CursorBacked(cursor', dispatched') /\ DispatchesBacked'
    BY <1>3, <1>4 DEF Backed, DispatchesBacked, Grows
  <1>6. JobsBacked'
    BY <1>3, <1>4 DEF Backed, JobsBacked, JobBacked, Grows
  <1>7. TickBacked(tick'[t], reservation', dispatched')
    BY <1>1, <1>3, <1>4, SettleFacts, Backs
       DEF GoesTo, TickBacked, HeldAt, AskedAt, PlanPc, ExecPc, SettlePc
  <1> QED  BY <1>1, <1>4, <1>5, <1>6, <1>7, StepKeepsBacked DEF GoesTo

LEMMA SettleCommitBacked ==
    ASSUME TypeInv, Backed, NEW t \in Threads, SettleCommit(t)
    PROVE  Backed'
  BY GotoGoes, Backs, SettleGoes, QuietKeepsBacked DEF SettleCommit, At, SettlePc, FundedAt,
     QuietRows, TickBacked, GoesTo

LEMMA SettleReadBacked ==
    ASSUME TypeInv, Backed, NEW t \in Threads, SettleRead(t)
    PROVE  Backed'
  <1> DEFINE r == [tick[t] EXCEPT !.pc = "settle_job", !.row = job[tick[t].eff]]
  <1>1. /\ QuietRows /\ tick[t].pc \in SettlePc /\ tick[t].pc \in FundedAt
        /\ "settle_job" \in SettlePc /\ "settle_job" \notin HeldAt \cup AskedAt
    BY DEF SettleRead, At, SettlePc, FundedAt, HeldAt, AskedAt, PlanPc, ExecPc, QuietRows, rows, ghosts
  <1>2. OthersSame(t) /\ tick'[t] = r
    BY DEF SettleRead, OthersSame, TypeInv, TypeOK
  <1>3. /\ r.pc = "settle_job" /\ r.eff = tick[t].eff /\ r.cur = tick[t].cur
        /\ r.status = tick[t].status /\ r.error = tick[t].error /\ r.then = tick[t].then
    BY <1>1, SettleFacts DEF Tick
  <1>4. TickBacked(tick'[t], reservation, dispatched)
    BY <1>1, <1>2, <1>3, SettleFacts, Backs DEF TickBacked
  <1> QED  BY <1>1, <1>2, <1>4, QuietKeepsBacked

LEMMA SettleJobBacked ==
    ASSUME TypeInv, Backed, NEW t \in Threads, SettleJob(t)
    PROVE  Backed'
  <1> DEFINE e == tick[t].eff
             f == IF tick[t].status = "completed" THEN "none" ELSE tick[t].error
             j == Settled(tick[t].row, tick[t].status, f)
  <1>1. /\ GoesTo(t, "settle_ledger") /\ tick[t].pc \in SettlePc /\ tick[t].pc \in FundedAt
        /\ "settle_ledger" \in SettlePc
    BY GotoGoes DEF SettleJob, At, SettlePc, FundedAt
  <1>2. e \in Effects /\ reservation[e] # "absent"
    BY <1>1, SettleFacts, Backs DEF TickBacked
  <1>3. tick[t].row \in Job
    BY TickFacts DEF Tick
  <1>4. j.status = tick[t].status /\ j.failure = f
    BY <1>3 DEF Settled, Job
  <1>5. JobBacked(e, j, reservation, dispatched)
    BY <1>1, <1>2, <1>4, SettleFacts DEF JobBacked
  <1>6. TickBacked(tick'[t], reservation, dispatched)
    BY <1>1, <1>2, SettleGoes
  <1> QED  BY <1>1, <1>2, <1>5, <1>6, JobStepBacked DEF SettleJob, ghosts, GoesTo

LEMMA SettleLedgerBacked ==
    ASSUME TypeInv, Backed, NEW t \in Threads, SettleLedger(t)
    PROVE  Backed'
  <1>1. QuietRows /\ tick[t].pc = "settle_ledger" /\ tick[t].pc \in SettlePc /\ tick[t].pc \in FundedAt
    BY DEF SettleLedger, At, SettlePc, FundedAt, QuietRows, rows, ghosts
  <1>2. CASE tick[t].then = "executor"
    <2>1. PICK p \in {"reread", "ensure"} : Goto(t, p)
      BY <1>2 DEF SettleLedger
    <2>2. GoesTo(t, p)
      BY <2>1, GotoGoes
    <2>3. dispatched[tick[t].eff] > 0
      BY <1>1, <1>2, SettleFacts
    <2>4. TickBacked(tick'[t], reservation, dispatched)
      BY <1>1, <1>2, <2>2, <2>3, SettleFacts, Backs DEF GoesTo, TickBacked, AskedAt, SettlePc
    <2> QED  BY <1>1, <2>2, <2>4, QuietKeepsBacked DEF GoesTo
  <1>3. CASE tick[t].then # "executor"
    <2>1. tick[t].then \in {"abort_list", "abort_next"}
      BY <1>1, <1>3, SettleFacts DEF Tick
    <2>2. PICK p \in {"error", "abort_list", "abort_next"} : Goto(t, p)
      BY <1>3, <2>1 DEF SettleLedger
    <2> QED  BY <1>1, <2>2, GotoGoes, GoesFree, FreePlaces
  <1> QED  BY <1>2, <1>3

LEMMA AbortJobBacked ==
    ASSUME TypeInv, Backed, NEW t \in Threads, AbortJob(t)
    PROVE  Backed'
  <1> DEFINE e == tick[t].cur.pending
  <1>1. QuietRows /\ tick[t].out \in Ending
    BY TickFacts DEF AbortJob, At, TickOK, AbortPc, QuietRows, rows, ghosts
  <1>2. CASE e # NoEffect /\ AbortSettle(t, e, "abort_list", {})
    BY <1>2, TickFacts, <1>1, AbortSettleBacked DEF Cursor
  <1>3. CASE Goto(t, "abort_list")
    BY <1>1, <1>3, GotoGoes, GoesFree, FreePlaces
  <1> QED  BY <1>2, <1>3 DEF AbortJob

LEMMA AbortListBacked ==
    ASSUME TypeInv, Backed, NEW t \in Threads, AbortList(t)
    PROVE  Backed'
  <1>1. PICK s : tick' = [tick EXCEPT ![t].pc = "abort_next", ![t].todo = s]
    BY DEF AbortList
  <1> DEFINE r == [tick[t] EXCEPT !.pc = "abort_next", !.todo = s]
  <1>2. OthersSame(t) /\ tick'[t] = r
    BY <1>1 DEF OthersSame, TypeInv, TypeOK
  <1>3. tick'[t].pc = "abort_next" /\ tick'[t].cur = tick[t].cur
    BY <1>2, TickFacts DEF Tick
  <1>4. QuietRows
    BY DEF AbortList, QuietRows, rows, ghosts
  <1> QED  BY <1>2, <1>3, <1>4, Backs, FreeSteps, FreePlaces

LEMMA AbortNextBacked ==
    ASSUME TypeInv, Backed, NEW t \in Threads, AbortNext(t)
    PROVE  Backed'
  <1> DEFINE list == tick[t].todo
  <1>1. /\ QuietRows /\ tick[t].out \in Ending /\ tick[t] \in Tick
        /\ tick[t].pc = "abort_next" /\ list \in SUBSET (Effects \X BOOLEAN)
    BY TickFacts DEF AbortNext, At, TickOK, AbortPc, Tick, QuietRows, ghosts
  <1>2. CASE Goto(t, "terminal")
    BY <1>1, <1>2, GotoGoes, GoesFree, FreePlaces
  <1>3. ASSUME NEW x \in list, AbortSettle(t, x[1], "abort_next", list \ {x}) PROVE Backed'
    BY <1>1, <1>3, AbortSettleBacked
  <1>4. ASSUME NEW s, tick' = [tick EXCEPT ![t].todo = s] PROVE Backed'
    <2> DEFINE r == [tick[t] EXCEPT !.todo = s]
    <2>1. OthersSame(t) /\ tick'[t] = r
      BY <1>4 DEF OthersSame, TypeInv, TypeOK
    <2>2. tick'[t].pc = "abort_next" /\ tick'[t].cur = tick[t].cur
      BY <1>1, <2>1 DEF Tick
    <2> QED  BY <1>1, <2>1, <2>2, Backs, FreeSteps, FreePlaces
  <1> QED  BY <1>2, <1>3, <1>4 DEF AbortNext

LEMMA TickStepBacked ==
    ASSUME TypeInv, Backed, NEW t \in Threads, TickStep(t)
    PROVE  Backed'
  BY LoadBacked, CheckCancelledBacked, PlanExistingBacked, PlanNewBacked, FinalizeBacked,
     RecordPlannedBacked, AdmitBacked, RejectBacked, ReserveBacked, EnqueueBacked, LinkBacked,
     SaveCursorBacked, PendingJobBacked, ClaimBacked, MarkRunningBacked, RecordRunningBacked,
     DispatchOkBacked, DispatchErrBacked, ScheduleRetryBacked, ReadForOutcomeBacked,
     WriteOutcomeBacked, EnsureLeaseBacked, RereadBacked, FailedJobBacked, SettleEffectBacked,
     SettleReservationBacked, SettleCommitBacked, SettleReadBacked, SettleJobBacked,
     SettleLedgerBacked, AbortJobBacked, AbortListBacked, AbortNextBacked, TerminalizeBacked,
     FinishBacked DEF TickStep

LEMMA InitBacked == Init => Backed /\ AllBooked
  <1> SUFFICES ASSUME Init PROVE Backed /\ AllBooked
    OBVIOUS
  <1>1. Resting.pc = "idle" /\ Resting.cur = NewCursor
    BY DEF Resting
  <1>2. TicksBacked
    BY <1>1, NewBacked, FreePlaces, FreeBacked DEF Init, TicksBacked
  <1>3. JobsBacked
    BY DEF Init, JobsBacked, JobBacked, AbsentJob
  <1>4. CursorBacked(cursor, dispatched) /\ DispatchesBacked
    BY NewBacked DEF Init, DispatchesBacked
  <1>5. AllBooked
    BY DEF Init, AllBooked, Booked
  <1> QED  BY <1>2, <1>3, <1>4, <1>5 DEF Backed

\* Ticks and dispatches stay, and each job its failure and whether it is completed.
LEMMA WaitingBacked ==
    ASSUME TypeInv, Backed, tick' = tick, cursor' = cursor, reservation' = reservation,
           dispatched' = dispatched,
           \A e \in Effects : JobBacked(e, job'[e], reservation, dispatched)
    PROVE  Backed'
  BY DEF Backed, JobsBacked, DispatchesBacked, TicksBacked

LEMMA AroundBacked ==
    ASSUME TypeInv, Backed, Around \/ UNCHANGED vars
    PROVE  Backed'
  <1>1. \A e \in Effects : JobBacked(e, job[e], reservation, dispatched) /\ job[e] \in Job
    BY DEF Backed, JobsBacked, TypeInv, TypeOK
  <1>2. ASSUME NEW e \in Effects, Expire(e) \/ BecomeDue(e) PROVE Backed'
    <2>1. PICK j : /\ job' = [job EXCEPT ![e] = j]
                   /\ j.status = job[e].status /\ j.failure = job[e].failure
      <3>1. CASE Expire(e)
        <4> DEFINE j == [job[e] EXCEPT !.late = TRUE]
        <4>1. job' = [job EXCEPT ![e] = j]
          BY <3>1 DEF Expire, TypeInv, TypeOK
        <4>2. j.status = job[e].status /\ j.failure = job[e].failure
          BY <1>1 DEF Job
        <4> HIDE DEF j
        <4> QED  BY <4>1, <4>2
      <3>2. CASE BecomeDue(e)
        <4> DEFINE j == [job[e] EXCEPT !.due = TRUE]
        <4>1. job' = [job EXCEPT ![e] = j]
          BY <3>2 DEF BecomeDue, TypeInv, TypeOK
        <4>2. j.status = job[e].status /\ j.failure = job[e].failure
          BY <1>1 DEF Job
        <4> HIDE DEF j
        <4> QED  BY <4>1, <4>2
      <3> QED  BY <1>2, <3>1, <3>2
    <2>2. JobBacked(e, j, reservation, dispatched)
      BY <1>1, <2>1 DEF JobBacked
    <2>3. \A d \in Effects : JobBacked(d, job'[d], reservation, dispatched)
      BY <1>1, <2>1, <2>2 DEF TypeInv, TypeOK
    <2> QED  BY <1>2, <2>3, WaitingBacked DEF Expire, BecomeDue, ghosts
  <1>3. CASE Recover
    BY <1>3, RecoveredBacked, WaitingBacked DEF Recover, ghosts
  <1>4. CASE Cancel \/ (\E w \in Workers : Steal(w)) \/ UNCHANGED vars
    BY <1>1, <1>4, WaitingBacked DEF Cancel, Steal, vars, rows, ghosts
  <1>5. CASE Crash
    BY <1>5, NewBacked, FreePlaces, FreeBacked DEF Crash, QuietRows, rows, ghosts, Resting,
       TicksBacked, Backed, JobsBacked, DispatchesBacked
  <1> QED  BY <1>2, <1>3, <1>4, <1>5 DEF Around

-----------------------------------------------------------------------------
(* Reservations and commits *)

LEMMA BookedKept ==
    ASSUME AllBooked, NEW t \in Threads, OthersSame(t), tick[t].pc # "settle_commit",
           reservation' = reservation, commit' = commit, crashes' = crashes
    PROVE  AllBooked'
  BY DEF AllBooked, Booked, OthersSame, At

\* A tick step leaves both tables alone, or is one of the three that write them.
LEMMA BookSteps ==
    ASSUME TypeInv, NEW t \in Threads, TickStep(t)
    PROVE  /\ OthersSame(t) /\ crashes' = crashes
           /\ \/ Reserve(t) \/ SettleReservation(t) \/ SettleCommit(t)
              \/ tick[t].pc # "settle_commit" /\ reservation' = reservation /\ commit' = commit
  <1> USE DEF At, Goto, Err, EndTick, SaveNext, BeginAbort, BeginSettle, AbortSettle, OthersSame,
              TypeInv, TypeOK, rows, bounds
  <1>1. CASE Load(t) \/ CheckCancelled(t)
    BY <1>1 DEF Load, CheckCancelled
  <1>2. CASE PlanExisting(t) \/ PlanNew(t) \/ Finalize(t) \/ RecordPlanned(t) \/ Admit(t)
    BY <1>2 DEF PlanExisting, PlanNew, Finalize, RecordPlanned, Admit
  <1>3. CASE Reject(t) \/ Reserve(t) \/ Enqueue(t) \/ Link(t) \/ SaveCursor(t)
    BY <1>3 DEF Reject, Reserve, Enqueue, Link, SaveCursor
  <1>4. CASE PendingJob(t)
    BY <1>4 DEF PendingJob, ConsumeCompleted
  <1>5. CASE Claim(t) \/ MarkRunning(t) \/ RecordRunning(t)
    BY <1>5 DEF Claim, MarkRunning, RecordRunning
  <1>6. CASE DispatchOk(t) \/ DispatchErr(t) \/ ScheduleRetry(t)
    BY <1>6 DEF DispatchOk, DispatchErr, ScheduleRetry
  <1>7. CASE ReadForOutcome(t) \/ WriteOutcome(t) \/ EnsureLease(t)
    BY <1>7 DEF ReadForOutcome, WriteOutcome, EnsureLease
  <1>8. CASE Reread(t) \/ FailedJob(t)
    BY <1>8 DEF Reread, ConsumeCompleted, FailedJob, ConsumeFailed
  <1>9. CASE SettleEffect(t) \/ SettleReservation(t) \/ SettleCommit(t)
    BY <1>9 DEF SettleEffect, SettleReservation, SettleCommit
  <1>10. CASE SettleRead(t) \/ SettleJob(t) \/ SettleLedger(t)
    BY <1>10 DEF SettleRead, SettleJob, SettleLedger
  <1>11. CASE AbortJob(t) \/ AbortList(t) \/ AbortNext(t)
    BY <1>11 DEF AbortJob, AbortList, AbortNext
  <1>12. CASE Terminalize(t) \/ Finish(t) \/ FinishWithError(t)
    BY <1>12 DEF Terminalize, Finish, FinishWithError
  <1> QED  BY <1>1, <1>2, <1>3, <1>4, <1>5, <1>6, <1>7, <1>8, <1>9, <1>10, <1>11, <1>12 DEF TickStep

LEMMA TickStepBooked ==
    ASSUME TypeInv, AllBooked, NEW t \in Threads, TickStep(t)
    PROVE  AllBooked'
  <1>1. OthersSame(t) /\ crashes' = crashes
    BY BookSteps
  <1>2. CASE tick[t].pc # "settle_commit" /\ reservation' = reservation /\ commit' = commit
    BY <1>1, <1>2, BookedKept
  <1>3. CASE Reserve(t)
    BY <1>3, <1>1 DEF Reserve, At, AllBooked, Booked, OthersSame, TypeInv, TypeOK
  <1>4. CASE SettleReservation(t)
    BY <1>4, GotoGoes, <1>1 DEF SettleReservation, TypeInv, TypeOK, At, AllBooked, Booked,
       OthersSame, GoesTo
  <1>5. CASE SettleCommit(t)
    BY <1>5, TickFacts, <1>1 DEF SettleCommit, At, SettlePc, CommitOf, TypeInv, TypeOK, AllBooked,
       Booked, OthersSame
  <1> QED  BY <1>2, <1>3, <1>4, <1>5, BookSteps

LEMMA AroundBooked ==
    ASSUME TypeInv, AllBooked, Around \/ UNCHANGED vars
    PROVE  AllBooked'
  <1>1. CASE tick' = tick /\ reservation' = reservation /\ commit' = commit /\ crashes' = crashes
    BY <1>1 DEF AllBooked, Booked, At
  <1>2. CASE Crash
    BY <1>2, EffectsAssumption DEF Crash, TypeInv, TypeOK, AllBooked
  <1>3. \/ Crash
        \/ tick' = tick /\ reservation' = reservation /\ commit' = commit /\ crashes' = crashes
    BY DEF Around, Expire, BecomeDue, Recover, Cancel, Steal, vars, rows, bounds
  <1> QED  BY <1>1, <1>2, <1>3

LEMMA BooksKept == Spec => []BookInv
  <1>1. Init => BookInv
    BY InitType, InitBacked DEF BookInv
  <1>2. BookInv /\ [Next]_vars => BookInv'
    <2> SUFFICES ASSUME BookInv, [Next]_vars PROVE BookInv'
      OBVIOUS
    <2>1. (\E t \in Threads : TickStep(t)) \/ Around \/ UNCHANGED vars
      BY DEF Next, Around
    <2>2. CASE \E t \in Threads : TickStep(t)
      BY <2>2, TickStepType, TickStepBacked, TickStepBooked DEF BookInv
    <2>3. CASE Around \/ UNCHANGED vars
      BY <2>3, AroundType, AroundBacked, AroundBooked DEF BookInv
    <2> QED  BY <2>1, <2>2, <2>3
  <1> QED  BY <1>1, <1>2, PTL DEF Spec

\* The cursor passes no effect the provider was never asked for, whoever moves
\* it, through crashes, lapsed leases, a lost request and a cancellation.
THEOREM NothingPassedUnasked == Spec => []ConsumedWasDispatched
  <1>1. BookInv => ConsumedWasDispatched
    BY DEF BookInv, Backed, CursorBacked, ConsumedWasDispatched
  <1> QED  BY <1>1, BooksKept, PTL

\* As long as the process does not end between the two writes of a settlement,
\* money that went to a provider is on the books: an abort of the canceller and
\* a settlement of the worker may race in any order.
THEOREM PaidStaysOnTheBooks ==
    ASSUME MaxCrashes = 0
    PROVE  Spec => []PaidOnTheBooks
  <1>1. BookInv => PaidOnTheBooks
    <2> SUFFICES ASSUME BookInv PROVE PaidOnTheBooks
      OBVIOUS
    <2>1. crashes = 0
      BY DEF BookInv, TypeInv, TypeOK
    <2>2. PaidIsAccounted
      BY <2>1 DEF BookInv, AllBooked, Booked, Backed, DispatchesBacked, PaidIsAccounted
    <2>3. ConsumedWasDispatched
      BY DEF BookInv, Backed, CursorBacked, ConsumedWasDispatched
    <2> QED  BY <2>2, <2>3 DEF PaidOnTheBooks
  <1> QED  BY <1>1, BooksKept, PTL

-----------------------------------------------------------------------------
(***************************************************************************)
(* The retry policy bounds the dispatches of an effect, for any number of   *)
(* effects and workers and any number of crashes and lapsed job leases, and *)
(* with a cancellation at any moment, as long as the run request keeps its  *)
(* lease (MaxSteals = 0).                                                   *)
(*                                                                          *)
(* The column `attempt` is what carries the bound: it is raised by a claim, *)
(* before the dispatch, and copied by every statement that writes a row     *)
(* back.  That copy is stale when another thread works on the same job,     *)
(* which a cancellation allows; by then the worker has one dispatch left at *)
(* most, in the tick it is in, and that one has been counted.               *)
(***************************************************************************)
-----------------------------------------------------------------------------
(* Who may be in the middle of a tick *)

CancelPc == {"idle", "check", "terminal", "finish", "error"} \cup AbortPc \cup SettlePc

\* Only the holder of the run's lease is, and besides it the canceller of a
\* cancelled run, which executes nothing.
Alone ==
    /\ \A t \in Workers : t # owner => tick[t].pc = "idle"
    /\ tick[Canceller].pc \in CancelPc
    /\ tick[Canceller].pc \in SettlePc => tick[Canceller].then # "executor"
    /\ tick[Canceller].pc # "idle" => request = "cancelled"

-----------------------------------------------------------------------------
(* Attempts and dispatches *)

\* A row j of effect e counts its n dispatches, and is in the queue only
\* while the policy allows another attempt.
Counts(e, j, n) ==
    /\ n <= j.attempt /\ j.attempt <= MaxAttempts(e)
    /\ j.status \in {"absent", "pending"} => j.attempt = 0
    /\ j.status = "retry_scheduled" => j.attempt < MaxAttempts(e)

PlanningPc == {"record", "admit", "reject", "reserve", "enqueue"}
ClaimedPc  == {"run", "mark", "dispatch"}
RowPc      == {"mark", "dispatch", "retry", "outcome_write", "again_write", "settle_job",
               "failed_job"}

\* What a worker with the tick r relies on while nobody else works on the run:
\* the rows jobs are exact, and so is its copy of one.
ExactFor(r, jobs, n) ==
    /\ \A e \in Effects : Counts(e, jobs[e], n[e])
    /\ r.pc \in PlanningPc => jobs[r.eff].status = "absent"
    /\ r.pc \in ClaimedPc => n[r.eff] < jobs[r.eff].attempt
    /\ r.pc \in RowPc => r.row.attempt = jobs[r.eff].attempt /\ Counts(r.eff, r.row, n[r.eff])
    /\ r.pc = "retry" => r.row.attempt < MaxAttempts(r.eff)

\* What is left of that once the run is cancelled: at the beginning of its
\* tick the worker finds rows that are exact or over, and from the claim on it
\* has a dispatch to spare.
LeftFor(r, jobs, n) ==
    /\ r.pc \in {"check", "pending"} =>
         \A e \in Effects : jobs[e].status \in JobTerminal \/ Counts(e, jobs[e], n[e])
    /\ r.pc \in ClaimedPc \cup {"claim"} => n[r.eff] < MaxAttempts(r.eff)

Exact == request = "active" => ExactFor(tick[owner], job, dispatched)
Left  == LeftFor(tick[owner], job, dispatched)

AttemptInv == TypeInv /\ Alone /\ Exact /\ Left /\ DispatchBound

-----------------------------------------------------------------------------
(* Steps that leave the counts alone *)

Same == owner' = owner /\ dispatched' = dispatched

\* Where a worker relies on no row.
QuietPc == TickPc \ (PlanningPc \cup ClaimedPc \cup RowPc \cup {"claim", "check", "pending"})

Bound == Exact /\ Left /\ DispatchBound

LEMMA QuietKeepsBound ==
    ASSUME AttemptInv, Same, job' = job, tick'[owner].pc \in QuietPc,
           request' = "active" => request = "active"
    PROVE  Bound'
  <1>1. DispatchBound'
    BY DEF AttemptInv, Same, DispatchBound
  <1>2. Left'
    BY DEF Same, Left, LeftFor, QuietPc, ClaimedPc
  <1>3. Exact'
    BY DEF AttemptInv, Same, Exact, ExactFor, QuietPc, PlanningPc, ClaimedPc, RowPc
  <1> QED  BY <1>1, <1>2, <1>3 DEF Bound

\* A job is left as it was, or taken from a holder whose lease has lapsed.
SameCounts ==
    \A e \in Effects :
      /\ job'[e].attempt = job[e].attempt
      /\ \/ job'[e].status = job[e].status
         \/ /\ InHand(job[e])
            /\ \/ job'[e].status = "expired"
               \/ job'[e].status = "retry_scheduled" /\ job[e].attempt < MaxAttempts(e)

LEMMA SameCountsKeeps ==
    ASSUME NEW e \in Effects, SameCounts, NEW n, Counts(e, job[e], n)
    PROVE  Counts(e, job'[e], n)
  BY DEF SameCounts, Counts, InHand

LEMMA WaitingKeepsBound ==
    ASSUME AttemptInv, Same, SameCounts, tick' = tick,
           request' = "active" => request = "active"
    PROVE  Bound'
  <1> DEFINE r == tick[owner]
  <1>1. tick'[owner'] = r /\ dispatched' = dispatched
    BY DEF Same
  <1>2. DispatchBound'
    BY DEF AttemptInv, Same, DispatchBound
  <1>3. r.pc \in EffPc => r.eff \in Effects
    BY EffectsAssumption DEF AttemptInv, TypeInv, TypeOK, Threads, TickOK
  <1>4. LeftFor(r, job', dispatched)
    <2>1. ASSUME r.pc \in {"check", "pending"}, NEW e \in Effects
          PROVE  job'[e].status \in JobTerminal \/ Counts(e, job'[e], dispatched[e])
      <3>1. job[e].status \in JobTerminal \/ Counts(e, job[e], dispatched[e])
        BY <2>1 DEF AttemptInv, Left, LeftFor
      <3>2. CASE job[e].status \in JobTerminal
        BY <3>2 DEF SameCounts, InHand, JobTerminal
      <3> QED  BY <3>1, <3>2, SameCountsKeeps
    <2> QED  BY <2>1 DEF AttemptInv, Left, LeftFor
  <1>5. ASSUME request = "active" PROVE ExactFor(r, job', dispatched)
    BY <1>5, SameCountsKeeps, <1>3 DEF AttemptInv, Exact, ExactFor, SameCounts, InHand, PlanningPc,
       EffPc, ClaimedPc, RowPc, SettlePc
  <1> QED  BY <1>1, <1>2, <1>4, <1>5 DEF Bound, Exact, Left

-----------------------------------------------------------------------------
(* The steps of the worker that holds the run *)

LEMMA OwnerFacts ==
    ASSUME AttemptInv
    PROVE  /\ owner \in Threads /\ owner # Canceller
           /\ tick \in [Threads -> Tick] /\ tick[owner] \in Tick /\ TickOK(tick[owner])
           /\ job \in [Effects -> Job] /\ dispatched \in [Effects -> Nat]
  BY EffectsAssumption DEF AttemptInv, TypeInv, TypeOK, Threads

LEMMA AbortSettlePc ==
    ASSUME AttemptInv, NEW e, NEW th, NEW left, AbortSettle(owner, e, th, left)
    PROVE  tick'[owner].pc = "settle_effect"
  BY OwnerFacts DEF AbortSettle, Tick

LEMMA PlanExistingQuiet ==
    ASSUME AttemptInv, PlanExisting(owner)
    PROVE  Bound'
  <1>1. tick'[owner].pc \in QuietPc
    BY OwnerFacts DEF PlanExisting, At, SaveNext, QuietPc, TickPc, PlanPc, ExecPc, SettlePc,
       PlanningPc, ClaimedPc, RowPc
  <1>2. Same /\ job' = job /\ (request' = "active" => request = "active")
    BY DEF PlanExisting, Same, rows, ghosts
  <1> QED  BY <1>1, <1>2, QuietKeepsBound

LEMMA FinalizeQuiet ==
    ASSUME AttemptInv, Finalize(owner)
    PROVE  Bound'
  <1>1. tick'[owner].pc \in QuietPc
    BY OwnerFacts DEF Finalize, At, Goto, QuietPc, TickPc, PlanPc, ExecPc, SettlePc,
       PlanningPc, ClaimedPc, RowPc
  <1>2. Same /\ job' = job /\ (request' = "active" => request = "active")
    BY DEF Finalize, Same, rows, ghosts
  <1> QED  BY <1>1, <1>2, QuietKeepsBound

LEMMA RejectQuiet ==
    ASSUME AttemptInv, Reject(owner)
    PROVE  Bound'
  <1>1. tick'[owner].pc \in QuietPc
    BY OwnerFacts DEF Reject, At, Err, Goto, QuietPc, TickPc, PlanPc, ExecPc, SettlePc,
       PlanningPc, ClaimedPc, RowPc
  <1>2. Same /\ job' = job /\ (request' = "active" => request = "active")
    BY DEF Reject, Same, rows, ghosts
  <1> QED  BY <1>1, <1>2, QuietKeepsBound

LEMMA LinkQuiet ==
    ASSUME AttemptInv, Link(owner)
    PROVE  Bound'
  <1>1. tick'[owner].pc \in QuietPc
    BY OwnerFacts DEF Link, At, SaveNext, QuietPc, TickPc, PlanPc, ExecPc, SettlePc,
       PlanningPc, ClaimedPc, RowPc
  <1>2. Same /\ job' = job /\ (request' = "active" => request = "active")
    BY DEF Link, Same, rows, ghosts
  <1> QED  BY <1>1, <1>2, QuietKeepsBound

LEMMA SaveCursorQuiet ==
    ASSUME AttemptInv, SaveCursor(owner)
    PROVE  Bound'
  <1>1. tick'[owner].pc \in QuietPc
    BY OwnerFacts DEF SaveCursor, At, EndTick, Resting, QuietPc, TickPc, PlanPc, ExecPc,
       SettlePc, PlanningPc, ClaimedPc, RowPc
  <1>2. Same /\ job' = job /\ (request' = "active" => request = "active")
    BY DEF SaveCursor, Same, rows, ghosts
  <1> QED  BY <1>1, <1>2, QuietKeepsBound

LEMMA EnsureLeaseQuiet ==
    ASSUME AttemptInv, EnsureLease(owner)
    PROVE  Bound'
  <1>1. tick'[owner].pc \in QuietPc
    BY OwnerFacts DEF EnsureLease, At, Goto, QuietPc, TickPc, PlanPc, ExecPc, SettlePc,
       PlanningPc, ClaimedPc, RowPc
  <1>2. Same /\ job' = job /\ (request' = "active" => request = "active")
    BY DEF EnsureLease, Same, rows, ghosts
  <1> QED  BY <1>1, <1>2, QuietKeepsBound

LEMMA SettleEffectQuiet ==
    ASSUME AttemptInv, SettleEffect(owner)
    PROVE  Bound'
  <1>1. tick'[owner].pc \in QuietPc
    BY OwnerFacts DEF SettleEffect, At, Goto, QuietPc, TickPc, PlanPc, ExecPc, SettlePc,
       PlanningPc, ClaimedPc, RowPc
  <1>2. Same /\ job' = job /\ (request' = "active" => request = "active")
    BY DEF SettleEffect, Same, rows, ghosts
  <1> QED  BY <1>1, <1>2, QuietKeepsBound

LEMMA SettleReservationQuiet ==
    ASSUME AttemptInv, SettleReservation(owner)
    PROVE  Bound'
  <1>1. tick'[owner].pc \in QuietPc
    BY OwnerFacts DEF SettleReservation, At, Goto, QuietPc, TickPc, PlanPc, ExecPc, SettlePc,
       PlanningPc, ClaimedPc, RowPc
  <1>2. Same /\ job' = job /\ (request' = "active" => request = "active")
    BY DEF SettleReservation, Same, rows, ghosts
  <1> QED  BY <1>1, <1>2, QuietKeepsBound

LEMMA SettleCommitQuiet ==
    ASSUME AttemptInv, SettleCommit(owner)
    PROVE  Bound'
  <1>1. tick'[owner].pc \in QuietPc
    BY OwnerFacts DEF SettleCommit, At, Goto, QuietPc, TickPc, PlanPc, ExecPc, SettlePc,
       PlanningPc, ClaimedPc, RowPc
  <1>2. Same /\ job' = job /\ (request' = "active" => request = "active")
    BY DEF SettleCommit, Same, rows, ghosts
  <1> QED  BY <1>1, <1>2, QuietKeepsBound

LEMMA SettleLedgerQuiet ==
    ASSUME AttemptInv, SettleLedger(owner)
    PROVE  Bound'
  <1>1. tick'[owner].pc \in QuietPc
    BY OwnerFacts DEF SettleLedger, At, Goto, Tick, QuietPc, TickPc, PlanPc, ExecPc, SettlePc,
       PlanningPc, ClaimedPc, RowPc
  <1>2. Same /\ job' = job /\ (request' = "active" => request = "active")
    BY DEF SettleLedger, Same, rows, ghosts
  <1> QED  BY <1>1, <1>2, QuietKeepsBound

LEMMA AbortJobQuiet ==
    ASSUME AttemptInv, AbortJob(owner)
    PROVE  Bound'
  <1>1. tick'[owner].pc \in QuietPc
    <2>1. CASE \E e, th, left : AbortSettle(owner, e, th, left)
      BY <2>1, AbortSettlePc DEF QuietPc, TickPc, PlanPc, ExecPc, SettlePc, PlanningPc,
         ClaimedPc, RowPc
    <2>2. CASE Goto(owner, "abort_list")
      BY <2>2, OwnerFacts DEF Goto, QuietPc, TickPc, PlanPc, ExecPc, SettlePc, PlanningPc,
         ClaimedPc, RowPc
    <2> QED  BY <2>1, <2>2 DEF AbortJob
  <1>2. Same /\ job' = job /\ (request' = "active" => request = "active")
    BY DEF AbortJob, Same, rows, ghosts
  <1> QED  BY <1>1, <1>2, QuietKeepsBound

LEMMA AbortListQuiet ==
    ASSUME AttemptInv, AbortList(owner)
    PROVE  Bound'
  <1>1. tick'[owner].pc \in QuietPc
    BY OwnerFacts DEF AbortList, At, Goto, QuietPc, TickPc, PlanPc, ExecPc, SettlePc,
       PlanningPc, ClaimedPc, RowPc
  <1>2. Same /\ job' = job /\ (request' = "active" => request = "active")
    BY DEF AbortList, Same, rows, ghosts
  <1> QED  BY <1>1, <1>2, QuietKeepsBound

LEMMA AbortNextQuiet ==
    ASSUME AttemptInv, AbortNext(owner)
    PROVE  Bound'
  <1>1. tick'[owner].pc \in QuietPc
    <2>1. CASE \E e, th, left : AbortSettle(owner, e, th, left)
      BY <2>1, AbortSettlePc DEF QuietPc, TickPc, PlanPc, ExecPc, SettlePc, PlanningPc,
         ClaimedPc, RowPc
    <2>2. CASE Goto(owner, "terminal")
      BY <2>2, OwnerFacts DEF Goto, QuietPc, TickPc, PlanPc, ExecPc, SettlePc, PlanningPc,
         ClaimedPc, RowPc
    <2>3. CASE \E x : tick' = [tick EXCEPT ![owner].todo = tick[owner].todo \ {x}]
      BY <2>3, OwnerFacts DEF AbortNext, At, Tick, QuietPc, TickPc, PlanPc, ExecPc,
         SettlePc, PlanningPc, ClaimedPc, RowPc
    <2> QED  BY <2>1, <2>2, <2>3 DEF AbortNext
  <1>2. Same /\ job' = job /\ (request' = "active" => request = "active")
    BY DEF AbortNext, Same, rows, ghosts
  <1> QED  BY <1>1, <1>2, QuietKeepsBound

LEMMA TerminalizeQuiet ==
    ASSUME AttemptInv, Terminalize(owner)
    PROVE  Bound'
  <1>1. tick'[owner].pc \in QuietPc
    BY OwnerFacts DEF Terminalize, At, Goto, QuietPc, TickPc, PlanPc, ExecPc, SettlePc,
       PlanningPc, ClaimedPc, RowPc
  <1>2. Same /\ job' = job /\ (request' = "active" => request = "active")
    BY DEF Terminalize, Same, rows, ghosts
  <1> QED  BY <1>1, <1>2, QuietKeepsBound

LEMMA FinishQuiet ==
    ASSUME AttemptInv, Finish(owner)
    PROVE  Bound'
  <1>1. tick'[owner].pc \in QuietPc
    BY OwnerFacts DEF Finish, At, EndTick, Resting, QuietPc, TickPc, PlanPc, ExecPc, SettlePc,
       PlanningPc, ClaimedPc, RowPc
  <1>2. Same /\ job' = job /\ (request' = "active" => request = "active")
    BY DEF Finish, Same, rows, ghosts, SettleRequest
  <1> QED  BY <1>1, <1>2, QuietKeepsBound

LEMMA FinishWithErrorQuiet ==
    ASSUME AttemptInv, FinishWithError(owner)
    PROVE  Bound'
  <1>1. tick'[owner].pc \in QuietPc
    BY OwnerFacts DEF FinishWithError, At, EndTick, Resting, QuietPc, TickPc, PlanPc, ExecPc,
       SettlePc, PlanningPc, ClaimedPc, RowPc
  <1>2. Same /\ job' = job /\ (request' = "active" => request = "active")
    BY DEF FinishWithError, Same, rows, ghosts, SettleRequest
  <1> QED  BY <1>1, <1>2, QuietKeepsBound

LEMMA LoadBound ==
    ASSUME AttemptInv, Load(owner)
    PROVE  Bound'
  <1>1. Same /\ job' = job /\ request' = request
    BY DEF Load, Same, rows, ghosts
  <1>2. CASE tick'[owner].pc \in QuietPc
    BY <1>1, <1>2, QuietKeepsBound
  <1>3. CASE tick'[owner].pc = "check"
    <2>1. request = "active"
      BY OwnerFacts DEF Load
    <2>2. \A e \in Effects : Counts(e, job[e], dispatched[e])
      BY <2>1 DEF AttemptInv, Exact, ExactFor
    <2>3. Exact' /\ Left'
      BY <1>1, <1>3, <2>2 DEF Exact, ExactFor, Left, LeftFor, Same, PlanningPc, ClaimedPc, RowPc
    <2> QED  BY <1>1, <2>3 DEF Bound, AttemptInv, Same, DispatchBound
  <1> QED  BY <1>2, <1>3, OwnerFacts DEF Load, Tick, QuietPc, TickPc, PlanPc, ExecPc, SettlePc,
     PlanningPc, ClaimedPc, RowPc

LEMMA CheckCancelledBound ==
    ASSUME AttemptInv, CheckCancelled(owner)
    PROVE  Bound'
  <1>1. Same /\ job' = job /\ request' = request
    BY DEF CheckCancelled, Same, rows, ghosts
  <1>2. CASE tick'[owner].pc \in QuietPc
    BY <1>1, <1>2, QuietKeepsBound
  <1>3. CASE tick'[owner].pc = "pending"
    <2>1. Exact' /\ Left'
      BY <1>1, <1>3 DEF CheckCancelled, At, AttemptInv, Exact, ExactFor, Left, LeftFor, Same,
                        PlanningPc, ClaimedPc, RowPc
    <2> QED  BY <1>1, <2>1 DEF Bound, AttemptInv, Same, DispatchBound
  <1>4. tick'[owner].pc \in {"abort_job", "plan", "pending"}
    BY OwnerFacts DEF CheckCancelled, BeginAbort, Goto, Tick
  <1> QED  BY <1>2, <1>3, <1>4 DEF QuietPc, TickPc, PlanPc, ExecPc, SettlePc, PlanningPc,
     ClaimedPc, RowPc

LEMMA PlanNewBound ==
    ASSUME AttemptInv, PlanNew(owner)
    PROVE  Bound'
  <1>1. Same /\ job' = job /\ request' = request
    BY DEF PlanNew, Same, rows, ghosts
  <1>2. /\ tick'[owner].pc = "record" /\ tick'[owner].eff = tick[owner].cur.next
        /\ job[tick[owner].cur.next].status = "absent"
    BY OwnerFacts DEF PlanNew, Tick
  <1>3. Exact' /\ Left'
    BY <1>1, <1>2 DEF AttemptInv, Exact, ExactFor, Left, LeftFor, Same, PlanningPc, ClaimedPc, RowPc
  <1> QED  BY <1>1, <1>3 DEF Bound, AttemptInv, Same, DispatchBound

LEMMA RecordPlannedBound ==
    ASSUME AttemptInv, RecordPlanned(owner)
    PROVE  Bound'
  <1>1. Same /\ job' = job /\ request' = request
    BY DEF RecordPlanned, Same, rows, ghosts
  <1>2. /\ tick[owner].pc \in PlanningPc /\ tick'[owner].pc \in PlanningPc
        /\ tick'[owner].eff = tick[owner].eff
    BY OwnerFacts DEF RecordPlanned, At, Goto, Tick, PlanningPc
  <1>3. Exact' /\ Left'
    BY <1>1, <1>2 DEF AttemptInv, Exact, ExactFor, Left, LeftFor, Same, PlanningPc, ClaimedPc, RowPc
  <1> QED  BY <1>1, <1>3 DEF Bound, AttemptInv, Same, DispatchBound

LEMMA AdmitBound ==
    ASSUME AttemptInv, Admit(owner)
    PROVE  Bound'
  <1>1. Same /\ job' = job /\ request' = request
    BY DEF Admit, Same, rows, ghosts
  <1>2. /\ tick[owner].pc \in PlanningPc /\ tick'[owner].pc \in PlanningPc
        /\ tick'[owner].eff = tick[owner].eff
    BY OwnerFacts DEF Admit, At, Goto, Tick, PlanningPc
  <1>3. Exact' /\ Left'
    BY <1>1, <1>2 DEF AttemptInv, Exact, ExactFor, Left, LeftFor, Same, PlanningPc, ClaimedPc, RowPc
  <1> QED  BY <1>1, <1>3 DEF Bound, AttemptInv, Same, DispatchBound

LEMMA ReserveBound ==
    ASSUME AttemptInv, Reserve(owner)
    PROVE  Bound'
  <1>1. Same /\ job' = job /\ request' = request
    BY DEF Reserve, Same, rows, ghosts
  <1>2. /\ tick[owner].pc \in PlanningPc /\ tick'[owner].pc \in PlanningPc
        /\ tick'[owner].eff = tick[owner].eff
    BY OwnerFacts DEF Reserve, At, Goto, Tick, PlanningPc
  <1>3. Exact' /\ Left'
    BY <1>1, <1>2 DEF AttemptInv, Exact, ExactFor, Left, LeftFor, Same, PlanningPc, ClaimedPc, RowPc
  <1> QED  BY <1>1, <1>3 DEF Bound, AttemptInv, Same, DispatchBound

\* A statement on the job of one effect, after which the worker relies on no row.
LEMMA WriteKeepsBound ==
    ASSUME AttemptInv, Same, request' = request, tick'[owner].pc \in QuietPc,
           NEW e \in Effects, NEW j \in Job, job' = [job EXCEPT ![e] = j],
           request = "active" => Counts(e, j, dispatched[e])
    PROVE  Bound'
  <1>1. DispatchBound'
    BY DEF AttemptInv, Same, DispatchBound
  <1>2. Left'
    BY DEF Same, Left, LeftFor, QuietPc, ClaimedPc
  <1>3. ASSUME request = "active", NEW x \in Effects PROVE Counts(x, job'[x], dispatched[x])
    BY <1>3, OwnerFacts DEF AttemptInv, Exact, ExactFor
  <1>4. Exact'
    BY <1>3 DEF Same, Exact, ExactFor, QuietPc, PlanningPc, ClaimedPc, RowPc
  <1> QED  BY <1>1, <1>2, <1>4 DEF Bound

LEMMA EnqueueBound ==
    ASSUME AttemptInv, Enqueue(owner)
    PROVE  Bound'
  <1>1. Same /\ request' = request
    BY DEF Enqueue, Same, ghosts
  <1>2. tick'[owner].pc \in QuietPc
    BY OwnerFacts DEF Enqueue, Goto, Tick, QuietPc, TickPc, PlanPc, ExecPc, SettlePc,
       PlanningPc, ClaimedPc, RowPc
  <1>3. tick[owner].eff \in Effects /\ tick[owner].pc = "enqueue"
    BY OwnerFacts DEF Enqueue, At, TickOK, EffPc
  <1>4. ASSUME request = "active" PROVE Counts(tick[owner].eff, Enqueued, dispatched[tick[owner].eff])
    BY <1>4, <1>3, Policy DEF AttemptInv, Exact, ExactFor, Counts, PlanningPc, Enqueued, AbsentJob
  <1>5. job' = [job EXCEPT ![tick[owner].eff] = Enqueued]
    BY DEF Enqueue
  <1> QED  BY <1>1, <1>2, <1>3, <1>4, <1>5, EnqueuedOK, WriteKeepsBound

LEMMA PendingJobBound ==
    ASSUME AttemptInv, PendingJob(owner)
    PROVE  Bound'
  <1>1. Same /\ job' = job /\ request' = request
    BY DEF PendingJob, Same, rows, ghosts
  <1> DEFINE e == tick[owner].cur.pending
  <1>2. e \in Effects /\ tick[owner].pc = "pending"
    BY OwnerFacts DEF PendingJob, At, TickOK
  <1>3. CASE tick'[owner].pc \in QuietPc
    BY <1>1, <1>3, QuietKeepsBound
  <1>4. CASE tick'[owner].pc = "claim" /\ tick'[owner].eff = e /\ Claimable(job[e])
    <2>1. Counts(e, job[e], dispatched[e])
      BY <1>2, <1>4 DEF AttemptInv, Left, LeftFor, Claimable, JobTerminal
    <2>2. dispatched[e] < MaxAttempts(e)
      BY <1>2, OwnerFacts, Policy, <1>4, <2>1 DEF Job, Claimable, Counts
    <2>3. Exact' /\ Left'
      BY <1>1, <1>4, <2>2 DEF AttemptInv, Exact, ExactFor, Left, LeftFor, Same, PlanningPc,
         ClaimedPc, RowPc
    <2> QED  BY <1>1, <2>3 DEF Bound, AttemptInv, Same, DispatchBound
  <1>5. CASE tick'[owner].pc = "failed_job" /\ tick'[owner].eff = e /\ tick'[owner].row = job[e]
    <2>1. Exact' /\ Left'
      BY <1>1, <1>2, <1>5 DEF AttemptInv, Exact, ExactFor, Left, LeftFor, Same, PlanningPc,
         ClaimedPc, RowPc
    <2> QED  BY <1>1, <2>1 DEF Bound, AttemptInv, Same, DispatchBound
  <1>6. CASE Claimable(job[e]) /\ tick' = [tick EXCEPT ![owner].pc = "claim", ![owner].eff = e]
    BY <1>6, OwnerFacts, <1>4 DEF Tick
  <1>7. CASE EndTick(owner)
    BY <1>7, OwnerFacts, <1>3 DEF EndTick, Resting, QuietPc, TickPc, PlanPc, ExecPc, SettlePc,
       PlanningPc, ClaimedPc, RowPc
  <1>8. CASE ConsumeCompleted(owner, e, job[e])
    <2>1. tick'[owner].pc \in QuietPc
      BY <1>8, OwnerFacts DEF ConsumeCompleted, SaveNext, Err, Goto, Tick, QuietPc, TickPc,
         PlanPc, ExecPc, SettlePc, PlanningPc, ClaimedPc, RowPc
    <2> QED  BY <1>3, <2>1
  <1>9. CASE tick' = [tick EXCEPT ![owner].pc = "failed_job", ![owner].eff = e, ![owner].row = job[e]]
    BY <1>9, OwnerFacts, <1>5 DEF Tick
  <1> QED  BY <1>6, <1>7, <1>8, <1>9 DEF PendingJob

LEMMA ClaimBound ==
    ASSUME AttemptInv, Claim(owner)
    PROVE  Bound'
  <1>1. Same /\ request' = request
    BY DEF Claim, Same, ghosts
  <1>2. tick[owner].eff \in Effects /\ tick[owner].pc = "claim"
    BY OwnerFacts DEF Claim, At, TickOK, EffPc, SettlePc
  <1> DEFINE e == tick[owner].eff
  <1>3. /\ RecoveredJobs \in [Effects -> Job]
        /\ request = "active" => \A x \in Effects : Counts(x, RecoveredJobs[x], dispatched[x])
    <2>1. RecoveredJobs \in [Effects -> Job]
      BY RecoveredFacts DEF AttemptInv
    <2>2. ASSUME request = "active", NEW x \in Effects PROVE Counts(x, RecoveredJobs[x], dispatched[x])
      BY <2>2, RecoveredFacts DEF AttemptInv, Exact, ExactFor, Counts, InHand
    <2> QED  BY <2>1, <2>2
  <1>4. DispatchBound'
    BY <1>1 DEF AttemptInv, Same, DispatchBound
  <1>5. CASE Claimable(RecoveredJobs[e])
    <2> DEFINE j == Claimed(RecoveredJobs[e], minted + 1)
    <2>1. job' = [RecoveredJobs EXCEPT ![e] = j]
      BY <1>5 DEF Claim
    <2>2. tick'[owner].pc = "run" /\ tick'[owner].eff = e
      BY <1>5, OwnerFacts DEF Claim, Tick
    <2>3. j.attempt = RecoveredJobs[e].attempt + 1 /\ j.status = "leased"
      BY <1>2, <1>3 DEF Claimed, Job
    <2>4. Left'
      BY <1>1, <1>2, <2>2 DEF AttemptInv, Left, LeftFor, Same, ClaimedPc
    <2>5. ASSUME request = "active" PROVE ExactFor(tick'[owner], job', dispatched)
      <3>1. /\ dispatched[e] \in Nat /\ RecoveredJobs[e].attempt \in Nat
            /\ MaxAttempts(e) \in Nat /\ MaxAttempts(e) >= 1
        BY <1>2, <1>3, OwnerFacts, Policy DEF Job
      <3>2. Counts(e, RecoveredJobs[e], dispatched[e])
        BY <1>2, <1>3, <2>5
      <3>3. Counts(e, j, dispatched[e]) /\ dispatched[e] < j.attempt
        BY <1>5, <2>3, <3>1, <3>2 DEF Counts, Claimable
      <3>4. \A x \in Effects : job'[x] = IF x = e THEN j ELSE RecoveredJobs[x]
        BY <1>3, <2>1
      <3>5. \A x \in Effects : Counts(x, job'[x], dispatched[x])
        BY <1>3, <2>5, <3>3, <3>4
      <3> HIDE DEF e, j
      <3> QED  BY <1>2, <2>2, <3>3, <3>4, <3>5 DEF ExactFor, PlanningPc, RowPc, ClaimedPc, e
    <2> QED  BY <1>1, <1>4, <2>4, <2>5 DEF Bound, Exact, Same
  <1>6. CASE ~Claimable(RecoveredJobs[e])
    <2>1. job' = RecoveredJobs /\ tick'[owner].pc = "reread"
      BY <1>6, OwnerFacts DEF Claim, Goto, Tick
    <2>2. Exact' /\ Left'
      BY <1>1, <1>3, <2>1 DEF Exact, ExactFor, Left, LeftFor, Same, PlanningPc, ClaimedPc, RowPc
    <2> QED  BY <1>4, <2>2 DEF Bound
  <1> QED  BY <1>5, <1>6

LEMMA MarkRunningBound ==
    ASSUME AttemptInv, MarkRunning(owner)
    PROVE  Bound'
  <1>1. Same /\ request' = request
    BY DEF MarkRunning, Same, ghosts
  <1>2. tick[owner].eff \in Effects /\ tick[owner].pc = "run"
    BY OwnerFacts DEF MarkRunning, At, TickOK, EffPc, SettlePc
  <1> DEFINE e == tick[owner].eff
             j == Running(job[e])
  <1>3. DispatchBound'
    BY <1>1 DEF AttemptInv, Same, DispatchBound
  <1>4. j \in Job /\ j.attempt = job[e].attempt /\ j.status = "running"
    <2>1. job[e] \in Job
      BY <1>2, OwnerFacts
    <2> QED  BY <2>1 DEF Running, Job, JobStatus
  <1>5. CASE Holds(job[e], tick[owner].lease)
    <2>1. tick'[owner].pc = "mark" /\ tick'[owner].eff = e /\ tick'[owner].row = j
      BY <1>5, OwnerFacts DEF MarkRunning, Tick
    <2>2. job' = [job EXCEPT ![e] = j]
      BY <1>5 DEF MarkRunning
    <2>3. \A x \in Effects : job'[x] = IF x = e THEN j ELSE job[x]
      BY <2>2, OwnerFacts
    <2>4. Left'
      BY <1>1, <1>2, <2>1 DEF AttemptInv, Left, LeftFor, Same, ClaimedPc
    <2>5. ASSUME request = "active" PROVE ExactFor(tick'[owner], job', dispatched)
      <3>1. ExactFor(tick[owner], job, dispatched)
        BY <2>5 DEF AttemptInv, Exact
      <3>2. Counts(e, j, dispatched[e]) /\ dispatched[e] < j.attempt
        BY <1>2, <1>4, <3>1 DEF ExactFor, Counts, ClaimedPc
      <3>3. \A x \in Effects : Counts(x, job'[x], dispatched[x])
        BY <2>3, <3>1, <3>2 DEF ExactFor
      <3> HIDE DEF e, j
      <3> QED  BY <1>2, <2>1, <2>3, <3>2, <3>3 DEF ExactFor, PlanningPc, RowPc, ClaimedPc, e
    <2> QED  BY <1>1, <1>3, <2>4, <2>5 DEF Bound, Exact, Same
  <1>6. CASE ~Holds(job[e], tick[owner].lease)
    <2>1. job' = job /\ tick'[owner].pc \in QuietPc
      BY <1>6, OwnerFacts DEF MarkRunning, Goto, Tick, QuietPc, TickPc, PlanPc, ExecPc,
         SettlePc, PlanningPc, ClaimedPc, RowPc
    <2> QED  BY <1>1, <2>1, QuietKeepsBound
  <1> QED  BY <1>5, <1>6

LEMMA RecordRunningBound ==
    ASSUME AttemptInv, RecordRunning(owner)
    PROVE  Bound'
  <1>1. Same /\ job' = job /\ request' = request
    BY DEF RecordRunning, Same, rows, ghosts
  <1>2. tick[owner].eff \in Effects /\ tick[owner].pc = "mark"
    BY OwnerFacts DEF RecordRunning, At, TickOK, EffPc, SettlePc
  <1>3. /\ tick'[owner].pc = "dispatch" /\ tick'[owner].eff = tick[owner].eff
        /\ tick'[owner].row = tick[owner].row
    BY OwnerFacts DEF RecordRunning, Goto, Tick
  <1>4. Exact' /\ Left'
    BY <1>1, <1>2, <1>3 DEF AttemptInv, Exact, ExactFor, Left, LeftFor, Same, PlanningPc,
       ClaimedPc, RowPc
  <1> QED  BY <1>1, <1>4 DEF Bound, AttemptInv, Same, DispatchBound

\* A dispatch takes the attempt that the claim has counted.
LEMMA DispatchKeepsBound ==
    ASSUME AttemptInv, tick[owner].pc = "dispatch", owner' = owner, job' = job,
           request' = request, dispatched' = [dispatched EXCEPT ![tick[owner].eff] = @ + 1],
           \/ tick'[owner].pc \in QuietPc
           \/ /\ tick'[owner].pc = "retry" /\ tick'[owner].eff = tick[owner].eff
              /\ tick'[owner].row = tick[owner].row
              /\ tick[owner].row.attempt < MaxAttempts(tick[owner].eff)
    PROVE  Bound'
  <1> DEFINE e == tick[owner].eff
             n == dispatched[e]
  <1>1. e \in Effects
    BY OwnerFacts DEF TickOK, EffPc
  <1>2. \A x \in Effects : dispatched'[x] = IF x = e THEN n + 1 ELSE dispatched[x]
    BY OwnerFacts
  <1>3. n \in Nat /\ job[e].attempt \in Nat /\ MaxAttempts(e) \in Nat /\ tick[owner].row.attempt \in Nat
    BY <1>1, OwnerFacts, Policy DEF Job, Tick
  <1>4. n < MaxAttempts(e)
    BY DEF AttemptInv, Left, LeftFor, ClaimedPc
  <1>5. DispatchBound'
    BY <1>2, <1>3, <1>4 DEF AttemptInv, DispatchBound
  <1>6. Left'
    BY DEF Left, LeftFor, QuietPc, ClaimedPc
  <1>7. ASSUME request = "active" PROVE ExactFor(tick'[owner], job, dispatched')
    <2>1. ExactFor(tick[owner], job, dispatched)
      BY <1>7 DEF AttemptInv, Exact
    <2>2. Counts(e, job[e], n + 1)
      BY <1>1, <1>3, <2>1 DEF ExactFor, Counts, ClaimedPc
    <2>3. \A x \in Effects : Counts(x, job[x], dispatched'[x])
      BY <1>2, <2>1, <2>2 DEF ExactFor
    <2>4. CASE tick'[owner].pc \in QuietPc
      BY <2>3, <2>4 DEF ExactFor, QuietPc, PlanningPc, RowPc, ClaimedPc
    <2>5. CASE tick'[owner].pc = "retry"
      <3>1. tick[owner].row.attempt = job[e].attempt /\ Counts(e, tick[owner].row, n)
        BY <2>1 DEF ExactFor, RowPc
      <3>2. Counts(e, tick[owner].row, n + 1)
        BY <1>3, <2>2, <3>1 DEF Counts
      <3>3. dispatched'[e] = n + 1
        BY <1>1, <1>2
      <3>4. /\ tick'[owner].eff = e /\ tick'[owner].row = tick[owner].row
            /\ tick[owner].row.attempt < MaxAttempts(e)
        BY <2>5 DEF QuietPc, RowPc
      <3> HIDE DEF e, n
      <3> QED  BY <2>3, <2>5, <3>1, <3>2, <3>3, <3>4 DEF ExactFor, PlanningPc, RowPc, ClaimedPc
    <2> QED  BY <2>4, <2>5
  <1> QED  BY <1>5, <1>6, <1>7 DEF Bound, Exact

LEMMA DispatchOkBound ==
    ASSUME AttemptInv, DispatchOk(owner)
    PROVE  Bound'
  <1>1. /\ owner' = owner /\ job' = job /\ request' = request /\ tick[owner].pc = "dispatch"
        /\ dispatched' = [dispatched EXCEPT ![tick[owner].eff] = @ + 1]
    BY DEF DispatchOk, At, rows
  <1>2. tick'[owner].pc \in QuietPc
    BY OwnerFacts DEF DispatchOk, Tick, QuietPc, TickPc, PlanPc, ExecPc, SettlePc, PlanningPc,
       ClaimedPc, RowPc
  <1> QED  BY <1>1, <1>2, DispatchKeepsBound

LEMMA DispatchErrBound ==
    ASSUME AttemptInv, DispatchErr(owner)
    PROVE  Bound'
  <1>1. /\ owner' = owner /\ job' = job /\ request' = request /\ tick[owner].pc = "dispatch"
        /\ dispatched' = [dispatched EXCEPT ![tick[owner].eff] = @ + 1]
    BY DEF DispatchErr, At, rows
  <1>2. PICK x \in Errors :
          \/ /\ tick[owner].row.attempt < MaxAttempts(tick[owner].eff)
             /\ tick' = [tick EXCEPT ![owner].pc = "retry", ![owner].error = x]
          \/ BeginSettle(owner, tick[owner].eff, "failed", Unknown, x)
    BY DEF DispatchErr
  <1>3. CASE BeginSettle(owner, tick[owner].eff, "failed", Unknown, x)
    BY <1>3, OwnerFacts, <1>1, DispatchKeepsBound DEF BeginSettle, Tick, QuietPc, TickPc, PlanPc,
       ExecPc, SettlePc, PlanningPc, ClaimedPc, RowPc
  <1>4. CASE /\ tick[owner].row.attempt < MaxAttempts(tick[owner].eff)
             /\ tick' = [tick EXCEPT ![owner].pc = "retry", ![owner].error = x]
    BY <1>4, OwnerFacts, <1>1, DispatchKeepsBound DEF Tick
  <1> QED  BY <1>2, <1>3, <1>4

LEMMA ScheduleRetryBound ==
    ASSUME AttemptInv, ScheduleRetry(owner)
    PROVE  Bound'
  <1>1. Same /\ request' = request
    BY DEF ScheduleRetry, Same, ghosts
  <1>2. tick[owner].eff \in Effects /\ tick[owner].pc = "retry"
    BY OwnerFacts DEF ScheduleRetry, At, TickOK, EffPc, SettlePc
  <1> DEFINE e == tick[owner].eff
             j == Rescheduled(job[e], tick[owner].error)
  <1>3. tick'[owner].pc \in QuietPc
    BY OwnerFacts DEF ScheduleRetry, Goto, BeginSettle, Tick, QuietPc, TickPc, PlanPc, ExecPc,
       SettlePc, PlanningPc, ClaimedPc, RowPc
  <1>4. CASE job' = job
    BY <1>1, <1>3, <1>4, QuietKeepsBound
  <1>5. CASE job' = [job EXCEPT ![e] = j]
    <2>1. job[e] \in Job /\ tick[owner].error \in ErrorClass
      BY <1>2, OwnerFacts DEF TickOK
    <2>2. j \in Job /\ j.attempt = job[e].attempt /\ j.status = "retry_scheduled"
      BY <2>1 DEF Rescheduled, Job, JobStatus, NoLease
    <2>3. ASSUME request = "active" PROVE Counts(e, j, dispatched[e])
      BY <2>3, <1>2, <2>2 DEF AttemptInv, Exact, ExactFor, RowPc, Counts
    <2> HIDE DEF j, e
    <2>4. e \in Effects
      BY <1>2 DEF e
    <2> QED  BY <1>1, <1>3, <1>5, <2>2, <2>3, <2>4, WriteKeepsBound
  <1> QED  BY <1>4, <1>5 DEF ScheduleRetry

\* The worker takes a fresh copy of the row it works on.
LEMMA ReadKeepsBound ==
    ASSUME AttemptInv, Same, job' = job, request' = request, NEW e \in Effects,
           tick'[owner].eff = e, tick'[owner].row = job[e],
           tick'[owner].pc \in {"outcome_write", "again_write", "settle_job", "failed_job"}
    PROVE  Bound'
  <1>1. DispatchBound'
    BY DEF AttemptInv, Same, DispatchBound
  <1>2. Left'
    BY DEF Same, Left, LeftFor, ClaimedPc
  <1>3. Exact'
    BY DEF AttemptInv, Same, Exact, ExactFor, PlanningPc, ClaimedPc, RowPc
  <1> QED  BY <1>1, <1>2, <1>3 DEF Bound

LEMMA ReadForOutcomeBound ==
    ASSUME AttemptInv, ReadForOutcome(owner)
    PROVE  Bound'
  BY OwnerFacts, ReadKeepsBound DEF ReadForOutcome, Same, rows, ghosts, At, TickOK, EffPc,
     SettlePc, Tick

LEMMA SettleReadBound ==
    ASSUME AttemptInv, SettleRead(owner)
    PROVE  Bound'
  BY OwnerFacts, ReadKeepsBound DEF SettleRead, Same, rows, ghosts, At, TickOK, EffPc, SettlePc,
     Tick

LEMMA RereadBound ==
    ASSUME AttemptInv, Reread(owner)
    PROVE  Bound'
  <1>1. Same /\ job' = job /\ request' = request
    BY DEF Reread, Same, rows, ghosts
  <1>2. tick[owner].eff \in Effects /\ tick[owner].pc = "reread"
    BY OwnerFacts DEF Reread, At, TickOK, EffPc, SettlePc
  <1> DEFINE e == tick[owner].eff
  <1>3. CASE ConsumeCompleted(owner, e, job[e]) \/ SaveNext(owner, tick[owner].cur) \/ BeginAbort(owner, "failed")
    <2>1. tick'[owner].pc \in QuietPc
      BY <1>3, OwnerFacts DEF ConsumeCompleted, SaveNext, BeginAbort, Err, Goto, Tick,
         QuietPc, TickPc, PlanPc, ExecPc, SettlePc, PlanningPc, ClaimedPc, RowPc
    <2> QED  BY <1>1, <2>1, QuietKeepsBound
  <1>4. CASE tick' = [tick EXCEPT ![owner].pc = "failed_job", ![owner].row = job[e]]
    BY <1>4, OwnerFacts, <1>1, <1>2, ReadKeepsBound DEF Tick
  <1> QED  BY <1>3, <1>4 DEF Reread

LEMMA WriteOutcomeBound ==
    ASSUME AttemptInv, WriteOutcome(owner)
    PROVE  Bound'
  <1>1. Same /\ request' = request
    BY DEF WriteOutcome, Same, ghosts
  <1> DEFINE e == tick[owner].eff
             j == WithOutcome(tick[owner].row)
  <1>2. e \in Effects /\ tick[owner].pc \in RowPc /\ tick[owner].row \in Job
    BY OwnerFacts DEF WriteOutcome, At, TickOK, EffPc, RowPc, Tick
  <1>3. tick'[owner].pc \in QuietPc
    BY OwnerFacts DEF WriteOutcome, Goto, SaveNext, Tick, QuietPc, TickPc, PlanPc, ExecPc,
       SettlePc, PlanningPc, ClaimedPc, RowPc
  <1>4. j \in Job /\ j.attempt = tick[owner].row.attempt /\ j.status = tick[owner].row.status
    BY <1>2 DEF WithOutcome, Job
  <1>5. request = "active" => Counts(e, j, dispatched[e])
    BY <1>2, <1>4 DEF AttemptInv, Exact, ExactFor, Counts
  <1>6. job' = [job EXCEPT ![e] = j]
    BY DEF WriteOutcome
  <1> HIDE DEF j
  <1> QED  BY <1>1, <1>2, <1>3, <1>4, <1>5, <1>6, WriteKeepsBound

LEMMA SettleJobBound ==
    ASSUME AttemptInv, SettleJob(owner)
    PROVE  Bound'
  <1>1. Same /\ request' = request
    BY DEF SettleJob, Same, ghosts
  <1> DEFINE e == tick[owner].eff
             x == IF tick[owner].status = "completed" THEN "none" ELSE tick[owner].error
             j == Settled(tick[owner].row, tick[owner].status, x)
  <1>2. e \in Effects /\ tick[owner].pc \in RowPc /\ tick[owner].row \in Job
    BY OwnerFacts DEF SettleJob, At, TickOK, EffPc, SettlePc, RowPc, Tick
  <1>3. tick'[owner].pc \in QuietPc
    BY OwnerFacts DEF SettleJob, Goto, Tick, QuietPc, TickPc, PlanPc, ExecPc, SettlePc,
       PlanningPc, ClaimedPc, RowPc
  <1>4. /\ tick[owner].status \in {"completed", "failed", "cancelled"}
        /\ x \in ErrorClass \cup {"none"}
    BY OwnerFacts DEF SettleJob, At, TickOK, SettlePc, Tick
  <1>5. j \in Job /\ j.attempt = tick[owner].row.attempt /\ j.status = tick[owner].status
    BY <1>2, <1>4 DEF Settled, Job, JobStatus
  <1>6. request = "active" => Counts(e, j, dispatched[e])
    BY <1>2, <1>4, <1>5 DEF AttemptInv, Exact, ExactFor, Counts
  <1>7. job' = [job EXCEPT ![e] = j]
    BY DEF SettleJob
  <1> HIDE DEF j
  <1> QED  BY <1>1, <1>2, <1>3, <1>5, <1>6, <1>7, WriteKeepsBound

LEMMA FailedJobBound ==
    ASSUME AttemptInv, FailedJob(owner)
    PROVE  Bound'
  <1>1. Same /\ request' = request
    BY DEF FailedJob, Same, ghosts
  <1>2. tick[owner].eff \in Effects /\ tick[owner].pc = "failed_job"
    BY OwnerFacts DEF FailedJob, At, TickOK, EffPc, SettlePc
  <1> DEFINE e == tick[owner].eff
             j == Rescheduled(job[e], tick[owner].row.failure)
  <1>3. tick'[owner].pc \in QuietPc
    BY OwnerFacts DEF FailedJob, SaveNext, ConsumeFailed, Tick, QuietPc, TickPc, PlanPc,
       ExecPc, SettlePc, PlanningPc, ClaimedPc, RowPc
  <1>4. CASE job' = job
    BY <1>1, <1>3, <1>4, QuietKeepsBound
  <1>5. CASE RetryAllowed(e, tick[owner].row) /\ job' = [job EXCEPT ![e] = j]
    <2>1. job[e] \in Job /\ tick[owner].row.failure \in ErrorClass \cup {"none"}
      BY <1>2, OwnerFacts DEF Tick, Job
    <2>2. j \in Job /\ j.attempt = job[e].attempt /\ j.status = "retry_scheduled"
      BY <2>1 DEF Rescheduled, Job, JobStatus, NoLease
    <2>3. request = "active" => Counts(e, j, dispatched[e])
      BY <1>2, <1>5, <2>2 DEF AttemptInv, Exact, ExactFor, RowPc, Counts, RetryAllowed
    <2> HIDE DEF j, e
    <2>4. e \in Effects
      BY <1>2 DEF e
    <2> QED  BY <1>1, <1>3, <1>5, <2>2, <2>3, <2>4, WriteKeepsBound
  <1> QED  BY <1>4, <1>5 DEF FailedJob

LEMMA OwnerStep ==
    ASSUME AttemptInv, TickStep(owner)
    PROVE  Bound'
  BY LoadBound, CheckCancelledBound, PlanExistingQuiet, PlanNewBound, FinalizeQuiet,
     RecordPlannedBound, AdmitBound, RejectQuiet, ReserveBound, EnqueueBound, LinkQuiet,
     SaveCursorQuiet, PendingJobBound, ClaimBound, MarkRunningBound, RecordRunningBound,
     DispatchOkBound, DispatchErrBound, ScheduleRetryBound, ReadForOutcomeBound,
     WriteOutcomeBound, EnsureLeaseQuiet, RereadBound, FailedJobBound, SettleEffectQuiet,
     SettleReservationQuiet, SettleCommitQuiet, SettleReadBound, SettleJobBound,
     SettleLedgerQuiet, AbortJobQuiet, AbortListQuiet, AbortNextQuiet, TerminalizeQuiet,
     FinishQuiet, FinishWithErrorQuiet DEF TickStep

-----------------------------------------------------------------------------
(* Who takes a step, and what it leaves to the others *)

\* A step of thread t ends the request at most, and leaves the other ticks alone.
Frame(t) ==
    /\ owner' = owner
    /\ request' = request \/ request = "active"
    /\ \A u \in Threads : u # t => tick'[u] = tick[u]

LEMMA AbortSettleFrame ==
    ASSUME TypeInv, NEW t \in Threads, NEW e, NEW th, NEW left, AbortSettle(t, e, th, left)
    PROVE  /\ \A u \in Threads : u # t => tick'[u] = tick[u]
           /\ tick'[t].pc = "settle_effect" /\ tick'[t].then = th
  <1> DEFINE r == [tick[t] EXCEPT !.pc = "settle_effect", !.eff = e,
                                  !.status = tick[t].out, !.cost = Unknown,
                                  !.error = "fatal", !.then = th, !.todo = left]
  <1>1. tick' = [tick EXCEPT ![t] = r] /\ tick \in [Threads -> Tick]
    BY DEF AbortSettle, TypeInv, TypeOK
  <1>2. r.pc = "settle_effect" /\ r.then = th
    BY <1>1 DEF Tick
  <1> HIDE DEF r
  <1> QED  BY <1>1, <1>2

LEMMA TickStepFrame ==
    ASSUME TypeInv, NEW t \in Threads, TickStep(t)
    PROVE  Frame(t)
  <1> tick \in [Threads -> Tick]
    BY DEF TypeInv, TypeOK
  <1>1. CASE \/ Load(t) \/ CheckCancelled(t) \/ PlanExisting(t) \/ PlanNew(t) \/ Finalize(t)
             \/ RecordPlanned(t) \/ Admit(t) \/ Reject(t) \/ Reserve(t)
    BY <1>1 DEF Frame, Load, CheckCancelled, PlanExisting, PlanNew, Finalize, RecordPlanned,
       Admit, Reject, Reserve, BeginAbort, Goto, SaveNext, Err
  <1>2. CASE Enqueue(t) \/ Link(t) \/ SaveCursor(t) \/ MarkRunning(t) \/ RecordRunning(t) \/ Claim(t)
    BY <1>2 DEF Frame, Enqueue, Link, SaveCursor, MarkRunning, RecordRunning, Claim, Goto,
       SaveNext, EndTick
  <1>3. CASE PendingJob(t) \/ Reread(t)
    BY <1>3 DEF Frame, PendingJob, Reread, ConsumeCompleted, Err, BeginAbort, Goto, SaveNext,
       EndTick
  <1>4. CASE DispatchOk(t) \/ DispatchErr(t) \/ ScheduleRetry(t) \/ ReadForOutcome(t) \/ WriteOutcome(t)
    BY <1>4 DEF Frame, DispatchOk, DispatchErr, ScheduleRetry, ReadForOutcome, WriteOutcome,
       BeginSettle, Goto, SaveNext
  <1>5. CASE \/ EnsureLease(t) \/ FailedJob(t) \/ SettleEffect(t) \/ SettleReservation(t)
             \/ SettleCommit(t) \/ SettleRead(t) \/ SettleJob(t) \/ SettleLedger(t)
    BY <1>5 DEF Frame, EnsureLease, FailedJob, SettleEffect, SettleReservation, SettleCommit,
       SettleRead, SettleJob, SettleLedger, ConsumeFailed, Goto, SaveNext
  <1>6. CASE AbortJob(t) \/ AbortList(t) \/ AbortNext(t)
    <2>1. owner' = owner /\ request' = request
      BY <1>6 DEF AbortJob, AbortList, AbortNext
    <2>2. CASE AbortList(t)
      BY <2>1, <2>2 DEF AbortList, Frame
    <2>3. CASE \E p : Goto(t, p)
      BY <2>1, <2>3 DEF Goto, Frame
    <2>4. CASE \E x : tick' = [tick EXCEPT ![t].todo = tick[t].todo \ {x}]
      BY <2>1, <2>4 DEF Frame
    <2>5. CASE \E e, th, left : AbortSettle(t, e, th, left)
      BY <2>1, <2>5, AbortSettleFrame DEF Frame
    <2>6. CASE AbortJob(t)
      BY <2>3, <2>5, <2>6 DEF AbortJob
    <2>7. CASE AbortNext(t)
      BY <2>3, <2>4, <2>5, <2>7 DEF AbortNext
    <2> QED  BY <1>6, <2>2, <2>6, <2>7
  <1>7. CASE Terminalize(t) \/ Finish(t) \/ FinishWithError(t)
    BY <1>7 DEF Frame, Terminalize, Finish, FinishWithError, SettleRequest, Goto, EndTick
  <1> QED  BY <1>1, <1>2, <1>3, <1>4, <1>5, <1>6, <1>7 DEF TickStep

\* A worker without the run's lease cannot even begin a tick.
LEMMA WhoSteps ==
    ASSUME AttemptInv, NEW t \in Threads, TickStep(t)
    PROVE  t = owner \/ t = Canceller
  <1> SUFFICES ASSUME t # owner, t \in Workers PROVE FALSE
    BY DEF Threads
  <1>1. tick[t].pc = "idle" /\ t # Canceller
    BY EffectsAssumption DEF AttemptInv, Alone
  <1>2. ~Load(t)
    BY <1>1 DEF Load
  <1> QED
    BY <1>1, <1>2 DEF TickStep, At, CheckCancelled, PlanExisting, PlanNew, Finalize,
       RecordPlanned, Admit, Reject, Reserve, Enqueue, Link, SaveCursor, PendingJob, Claim,
       MarkRunning, RecordRunning, DispatchOk, DispatchErr, ScheduleRetry, ReadForOutcome,
       WriteOutcome, EnsureLease, Reread, FailedJob, SettleEffect, SettleReservation,
       SettleCommit, SettleRead, SettleJob, SettleLedger, AbortJob, AbortList, AbortNext,
       Terminalize, Finish, FinishWithError

-----------------------------------------------------------------------------
(* The steps of the canceller *)

\* It dispatches nothing, and what it writes of a job is that the job is over.
CancellerWrite ==
    /\ request' = request /\ owner' = owner /\ dispatched' = dispatched
    /\ job' \in [Effects -> Job]
    /\ \A e \in Effects : job'[e] = job[e] \/ job'[e].status \in JobTerminal

\* Where it may be afterwards.
CancellerAt ==
    /\ tick'[Canceller].pc \in CancelPc
    /\ tick'[Canceller].pc \in SettlePc => tick'[Canceller].then # "executor"

LEMMA CancellerSettles ==
    ASSUME AttemptInv, SettleJob(Canceller)
    PROVE  \A e \in Effects : job'[e] = job[e] \/ job'[e].status \in JobTerminal
  <1> DEFINE r == tick[Canceller]
             x == IF r.status = "completed" THEN "none" ELSE r.error
  <1>1. r \in Tick /\ TickOK(r) /\ job \in [Effects -> Job] /\ r.pc = "settle_job"
    BY DEF AttemptInv, TypeInv, TypeOK, Threads, SettleJob, At
  <1>2. r.row \in Job /\ r.status \in JobTerminal
    BY <1>1 DEF TickOK, SettlePc, JobTerminal, Tick
  <1>3. Settled(r.row, r.status, x).status = r.status
    BY <1>2 DEF Settled, Job
  <1>4. job' = [job EXCEPT ![r.eff] = Settled(r.row, r.status, x)]
    BY DEF SettleJob
  <1> HIDE DEF r, x
  <1> QED  BY <1>1, <1>2, <1>3, <1>4

LEMMA CancellerStep ==
    ASSUME AttemptInv, TickStep(Canceller)
    PROVE  CancellerWrite /\ CancellerAt /\ request = "cancelled"
  <1> DEFINE r == tick[Canceller]
  <1> Canceller \in Threads /\ owner # Canceller
    BY EffectsAssumption DEF AttemptInv, TypeInv, TypeOK, Threads
  <1>1. tick \in [Threads -> Tick] /\ r \in Tick /\ TickOK(r)
    BY DEF AttemptInv, TypeInv, TypeOK
  <1>2. r.pc \in CancelPc /\ (r.pc \in SettlePc => r.then # "executor")
    BY DEF AttemptInv, Alone
  <1>3. request = "cancelled"
    <2>1. CASE r.pc = "idle"
      <3>1. Load(Canceller)
        BY <2>1 DEF TickStep, At, CheckCancelled, PlanExisting, PlanNew, Finalize,
           RecordPlanned, Admit, Reject, Reserve, Enqueue, Link, SaveCursor, PendingJob,
           Claim, MarkRunning, RecordRunning, DispatchOk, DispatchErr, ScheduleRetry,
           ReadForOutcome, WriteOutcome, EnsureLease, Reread, FailedJob, SettleEffect,
           SettleReservation, SettleCommit, SettleRead, SettleJob, SettleLedger, AbortJob,
           AbortList, AbortNext, Terminalize, Finish, FinishWithError
      <3> QED  BY <3>1 DEF Load
    <2>2. CASE r.pc # "idle"
      BY <2>2 DEF AttemptInv, Alone
    <2> QED  BY <2>1, <2>2
  <1>4. \/ Load(Canceller) \/ CheckCancelled(Canceller) \/ SettleEffect(Canceller)
        \/ SettleReservation(Canceller) \/ SettleCommit(Canceller) \/ SettleRead(Canceller)
        \/ SettleJob(Canceller) \/ SettleLedger(Canceller) \/ AbortJob(Canceller)
        \/ AbortList(Canceller) \/ AbortNext(Canceller) \/ Terminalize(Canceller)
        \/ Finish(Canceller) \/ FinishWithError(Canceller)
    <2>1. r.pc \notin PlanPc \cup ExecPc \cup {"save", "failed_job"}
      BY <1>2 DEF CancelPc, AbortPc, SettlePc, PlanPc, ExecPc
    <2>2. ~(\/ PlanExisting(Canceller) \/ PlanNew(Canceller) \/ Finalize(Canceller)
            \/ RecordPlanned(Canceller) \/ Admit(Canceller) \/ Reject(Canceller)
            \/ Reserve(Canceller) \/ Enqueue(Canceller) \/ Link(Canceller)
            \/ SaveCursor(Canceller))
      BY <2>1 DEF At, PlanPc, ExecPc, PlanExisting, PlanNew, Finalize, RecordPlanned, Admit,
         Reject, Reserve, Enqueue, Link, SaveCursor
    <2>3. ~(\/ PendingJob(Canceller) \/ Claim(Canceller) \/ MarkRunning(Canceller)
            \/ RecordRunning(Canceller) \/ DispatchOk(Canceller) \/ DispatchErr(Canceller))
      BY <2>1 DEF At, PlanPc, ExecPc, PendingJob, Claim, MarkRunning, RecordRunning,
         DispatchOk, DispatchErr
    <2>4. ~(\/ ScheduleRetry(Canceller) \/ ReadForOutcome(Canceller) \/ WriteOutcome(Canceller)
            \/ EnsureLease(Canceller) \/ Reread(Canceller) \/ FailedJob(Canceller))
      BY <2>1 DEF At, PlanPc, ExecPc, ScheduleRetry, ReadForOutcome, WriteOutcome,
         EnsureLease, Reread, FailedJob
    <2> QED  BY <2>2, <2>3, <2>4 DEF TickStep
  <1>5. CancellerWrite
    <2>0. job' \in [Effects -> Job]
      BY TickStepType DEF AttemptInv, TypeInv, TypeOK
    <2>1. request' = request /\ owner' = owner
      BY <1>3, TickStepFrame DEF AttemptInv, Frame
    <2>2. dispatched' = dispatched
      BY <1>4 DEF Load, CheckCancelled, SettleEffect, SettleReservation, SettleCommit,
         SettleRead, SettleJob, SettleLedger, AbortJob, AbortList, AbortNext, Terminalize,
         Finish, FinishWithError, ghosts
    <2>3. SettleJob(Canceller) \/ job' = job
      BY <1>4 DEF Load, CheckCancelled, SettleEffect, SettleReservation, SettleCommit,
         SettleRead, SettleLedger, AbortJob, AbortList, AbortNext, Terminalize,
         Finish, FinishWithError, rows
    <2> QED  BY <2>0, <2>1, <2>2, <2>3, CancellerSettles DEF CancellerWrite
  <1>6. CancellerAt
    <2>1. CASE Load(Canceller)
      BY <1>1, <2>1 DEF Load, Tick, CancellerAt, CancelPc, SettlePc
    <2>2. CASE CheckCancelled(Canceller)
      BY <1>1, <1>3, <2>2 DEF CheckCancelled, BeginAbort, Tick, CancellerAt, CancelPc,
         AbortPc, SettlePc
    <2>3. CASE \/ SettleEffect(Canceller) \/ SettleReservation(Canceller)
               \/ SettleCommit(Canceller) \/ SettleJob(Canceller) \/ SettleRead(Canceller)
      <3>1. tick'[Canceller].pc \in SettlePc /\ tick'[Canceller].then = r.then /\ r.pc \in SettlePc
        BY <1>1, <2>3 DEF SettleEffect, SettleReservation, SettleCommit, SettleRead, SettleJob,
           Goto, At, Tick, SettlePc
      <3> QED  BY <1>2, <3>1 DEF CancellerAt, CancelPc
    <2>4. CASE SettleLedger(Canceller)
      BY <1>1, <1>2, <2>4 DEF SettleLedger, At, SettlePc, Tick, Goto, CancellerAt, CancelPc,
         AbortPc
    <2>5. CASE AbortJob(Canceller)
      <3>1. CASE Goto(Canceller, "abort_list")
        BY <1>1, <3>1 DEF Goto, Tick, CancellerAt, CancelPc, AbortPc, SettlePc
      <3>2. CASE AbortSettle(Canceller, r.cur.pending, "abort_list", {})
        BY <3>2, AbortSettleFrame DEF AttemptInv, CancellerAt, CancelPc, SettlePc
      <3> QED  BY <2>5, <3>1, <3>2 DEF AbortJob
    <2>6. CASE AbortList(Canceller)
      BY <1>1, <2>6 DEF AbortList, Tick, CancellerAt, CancelPc, AbortPc, SettlePc
    <2>7. CASE AbortNext(Canceller)
      <3>1. CASE Goto(Canceller, "terminal")
        BY <1>1, <3>1 DEF Goto, Tick, CancellerAt, CancelPc, AbortPc, SettlePc
      <3>2. CASE \E e, left : AbortSettle(Canceller, e, "abort_next", left)
        <4>1. PICK e, left : AbortSettle(Canceller, e, "abort_next", left)
          BY <3>2
        <4>2. tick'[Canceller].pc = "settle_effect" /\ tick'[Canceller].then = "abort_next"
          BY <4>1, AbortSettleFrame DEF AttemptInv
        <4> QED  BY <4>2 DEF CancellerAt, CancelPc, SettlePc
      <3>3. CASE \E x : tick' = [tick EXCEPT ![Canceller].todo = r.todo \ {x}]
        BY <1>1, <2>7, <3>3 DEF AbortNext, At, Tick, CancellerAt, CancelPc, AbortPc, SettlePc
      <3> QED  BY <2>7, <3>1, <3>2, <3>3 DEF AbortNext
    <2>8. CASE Terminalize(Canceller) \/ Finish(Canceller) \/ FinishWithError(Canceller)
      BY <1>1, <2>8 DEF Terminalize, Finish, FinishWithError, Goto, EndTick, Resting, Tick,
         CancellerAt, CancelPc, AbortPc, SettlePc
    <2> QED  BY <1>4, <2>1, <2>2, <2>3, <2>4, <2>5, <2>6, <2>7, <2>8
  <1> QED  BY <1>3, <1>5, <1>6

LEMMA CancellerBound ==
    ASSUME AttemptInv, TickStep(Canceller)
    PROVE  Bound'
  BY CancellerStep, TickStepFrame, OwnerFacts DEF CancellerWrite, AttemptInv, Frame, Threads,
     Exact, DispatchBound, Left, LeftFor, Bound

-----------------------------------------------------------------------------
(* The invariant and the theorem *)

LEMMA TickStepAlone ==
    ASSUME AttemptInv, NEW t \in Threads, TickStep(t)
    PROVE  Alone'
  <1>1. Frame(t)
    BY TickStepFrame DEF AttemptInv
  <1>2. CASE t = owner
    BY <1>1, <1>2, OwnerFacts DEF AttemptInv, Alone, Frame, Threads
  <1>3. CASE t = Canceller
    BY <1>3, CancellerStep, <1>1, EffectsAssumption DEF AttemptInv, Alone, Frame, Threads,
       CancellerAt, CancellerWrite
  <1> QED  BY <1>2, <1>3, WhoSteps

LEMMA TickStepInv ==
    ASSUME AttemptInv, NEW t \in Threads, TickStep(t)
    PROVE  AttemptInv'
  BY TickStepType, WhoSteps, OwnerStep, CancellerBound, TickStepAlone DEF AttemptInv, Bound

LEMMA AroundInv ==
    ASSUME MaxSteals = 0, AttemptInv, Around \/ UNCHANGED vars
    PROVE  AttemptInv'
  <1>1. TypeInv'
    BY AroundType DEF AttemptInv
  <1>2. ASSUME tick' = tick, Same, SameCounts, request' = request \/ request' = "cancelled"
        PROVE  AttemptInv'
    BY <1>2, WaitingKeepsBound, <1>1 DEF AttemptInv, Alone, Same, Bound
  <1>3. ASSUME NEW e \in Effects, Expire(e) \/ BecomeDue(e) PROVE AttemptInv'
    BY OwnerFacts, <1>3, <1>2 DEF Expire, BecomeDue, SameCounts, Job, Same, ghosts
  <1>4. CASE Recover
    BY <1>4, RecoveredFacts, <1>2 DEF Recover, SameCounts, AttemptInv, Same, ghosts
  <1>5. CASE Cancel \/ UNCHANGED vars
    BY <1>5, <1>2 DEF Cancel, vars, rows, SameCounts, Same, ghosts
  <1>6. CASE Crash
    <2>1. \A t \in Threads : tick'[t] = Resting
      BY <1>6 DEF Crash
    <2>2. Resting.pc = "idle"
      BY DEF Resting
    <2>3. Same /\ job' = job /\ request' = request
      BY <1>6 DEF Crash, Same, rows, ghosts
    <2>4. tick'[owner].pc \in QuietPc
      BY <2>1, <2>2, OwnerFacts DEF QuietPc, TickPc, PlanningPc, ClaimedPc, RowPc
    <2>5. Bound'
      BY <2>3, <2>4, QuietKeepsBound
    <2>6. Alone'
      BY <2>1, <2>2 DEF Alone, Threads, CancelPc, AbortPc, SettlePc
    <2> QED  BY <1>1, <2>5, <2>6 DEF AttemptInv, Bound
  <1>7. ASSUME NEW w \in Workers PROVE ~Steal(w)
    BY DEF Steal, AttemptInv, TypeInv, TypeOK
  <1> QED  BY <1>3, <1>4, <1>5, <1>6, <1>7 DEF Around

LEMMA InitAttempt == Init => AttemptInv
  <1> SUFFICES ASSUME Init PROVE AttemptInv
    OBVIOUS
  <1>1. TypeInv
    BY InitType
  <1>2. Resting.pc = "idle" /\ AbsentJob.status = "absent" /\ AbsentJob.attempt = 0
    BY DEF Resting, AbsentJob
  <1>3. \A t \in Threads : tick[t].pc = "idle"
    BY <1>2 DEF Init
  <1>4. owner \in Threads /\ Canceller \in Threads
    BY DEF Init, Threads
  <1>5. Alone
    BY <1>3, <1>4 DEF Alone, Threads, CancelPc, AbortPc, SettlePc
  <1>6. \A e \in Effects : Counts(e, job[e], dispatched[e])
    BY <1>2, Policy DEF Init, Counts
  <1>7. Exact /\ Left
    BY <1>3, <1>4, <1>6 DEF Exact, ExactFor, Left, LeftFor, PlanningPc, ClaimedPc, RowPc
  <1>8. DispatchBound
    BY Policy DEF Init, DispatchBound
  <1> QED  BY <1>1, <1>5, <1>7, <1>8 DEF AttemptInv

\* As long as the worker that runs a GEPA run keeps the lease of its run
\* request, execute_one_pending_optimizer_job asks the provider for an effect
\* at most as often as runtime_effect_retry_policy allows: through retries,
\* recovered job leases, any number of crashes and a cancellation.
THEOREM RetryPolicyHolds ==
    ASSUME MaxSteals = 0
    PROVE  Spec => []DispatchBound
  <1>1. AttemptInv /\ [Next]_vars => AttemptInv'
    <2> SUFFICES ASSUME AttemptInv, [Next]_vars PROVE AttemptInv'
      OBVIOUS
    <2>1. (\E t \in Threads : TickStep(t)) \/ Around \/ UNCHANGED vars
      BY DEF Next, Around
    <2> QED  BY <2>1, TickStepInv, AroundInv
  <1>2. AttemptInv => DispatchBound
    BY DEF AttemptInv
  <1> QED  BY <1>1, <1>2, InitAttempt, PTL DEF Spec

-----------------------------------------------------------------------------
(***************************************************************************)
(* The ledger is exact, and the run stays inside its limits, for any number *)
(* of effects and workers and any number of crashes and lapsed job leases,  *)
(* with a cancellation at any moment, as long as the run request keeps its  *)
(* lease (MaxSteals = 0).                                                   *)
(*                                                                          *)
(* LedgerInv, which is inductive, says three things at once.  What a tick   *)
(* works on is there: the rows its place in the handler has passed have     *)
(* been written (ThereInv).  What the ledger has charged, a commit or a     *)
(* hold for each effect, fits the limit but for what an effect cost above   *)
(* its estimate (LimitInv); the worker in front of a reservation has        *)
(* admitted it against rows only it raises, so the room it saw is still     *)
(* there.  What the cursor has passed is over, and a worker that settles    *)
(* an effect works on a job with an outcome (OverInv).                      *)
(*                                                                          *)
(* The second needs the first, and the third both; none of the three is     *)
(* inductive without the bound on attempts, which says who may be in the    *)
(* middle of a tick.                                                        *)
(***************************************************************************)

-----------------------------------------------------------------------------
(* Sums over finite sets *)

\* Induction over the subsets of a finite set, for a set of them.
LEMMA SubsetInduction ==
    ASSUME NEW S, IsFiniteSet(S), NEW G, {} \in G,
           \A s \in SUBSET S : s # {} /\ (\A x \in s : s \ {x} \in G) => s \in G
    PROVE  \A s \in SUBSET S : s \in G
  <1> SUFFICES ASSUME NEW s0 \in SUBSET S, s0 \notin G PROVE FALSE
    OBVIOUS
  <1> DEFINE Bad == {s \in SUBSET S : s \notin G}
             T   == {Cardinality(s) : s \in Bad}
  <1>1. \A s \in SUBSET S : IsFiniteSet(s) /\ Cardinality(s) \in Nat
    BY FS_Subset, FS_CardinalityType
  <1>2. T \subseteq Nat /\ T # {}
    BY <1>1
  <1>3. PICK n \in T : \A m \in T : ~(<<m, n>> \in OpToRel(<, Nat))
    <2> HIDE DEF T
    <2> QED  BY <1>2, NatLessThanWellFounded, WFMin
  <1>4. PICK s \in Bad : n = Cardinality(s)
    BY <1>3
  <1>5. ASSUME NEW x \in s PROVE s \ {x} \in G
    <2>1. Cardinality(s \ {x}) = Cardinality(s) - 1 /\ s \ {x} \in SUBSET S
      BY <1>1, FS_RemoveElement
    <2>2. Cardinality(s \ {x}) \in Nat /\ Cardinality(s) \in Nat
      BY <1>1, <2>1
    <2>3. s \ {x} \notin Bad
      <3> SUFFICES ASSUME s \ {x} \in Bad PROVE FALSE
        OBVIOUS
      <3>1. Cardinality(s \ {x}) \in T
        OBVIOUS
      <3>2. ~(Cardinality(s \ {x}) < Cardinality(s))
        BY <1>3, <1>4, <2>2, <3>1 DEF OpToRel
      <3> QED  BY <2>1, <2>2, <3>2
    <2> QED  BY <2>1, <2>3
  <1> QED  BY <1>4, <1>5

\* The sums of f over the subsets of S with at most n elements, in a table.
Upto(S, n) == {s \in SUBSET S : Cardinality(s) <= n}

SumTable(h, f, D) ==
    h = [s \in D |-> IF s = {} THEN 0
                     ELSE f[CHOOSE x \in s : TRUE] + h[s \ {CHOOSE x \in s : TRUE}]]

TableOf(h, f, S) == SumTable(h, f, SUBSET S)

LEMMA TableSteps ==
    ASSUME NEW S, IsFiniteSet(S), NEW f, NEW n \in Nat, NEW h, SumTable(h, f, Upto(S, n))
    PROVE  \E k : SumTable(k, f, Upto(S, n + 1))
  <1> DEFINE k == [s \in Upto(S, n + 1) |->
                     IF s = {} THEN 0
                     ELSE f[CHOOSE x \in s : TRUE] + h[s \ {CHOOSE x \in s : TRUE}]]
  <1>1. \A s \in SUBSET S : IsFiniteSet(s) /\ Cardinality(s) \in Nat
    BY FS_Subset, FS_CardinalityType
  <1>2. ASSUME NEW s \in Upto(S, n) PROVE h[s] = k[s]
    <2>1. s \in Upto(S, n + 1)
      BY <1>1 DEF Upto
    <2>2. h[s] = IF s = {} THEN 0
                 ELSE f[CHOOSE x \in s : TRUE] + h[s \ {CHOOSE x \in s : TRUE}]
      BY DEF SumTable
    <2> QED  BY <2>1, <2>2
  <1>3. ASSUME NEW s \in Upto(S, n + 1), s # {}
        PROVE  s \ {CHOOSE x \in s : TRUE} \in Upto(S, n)
    <2> DEFINE c == CHOOSE x \in s : TRUE
    <2>1. c \in s /\ s \in SUBSET S /\ IsFiniteSet(s)
      BY <1>1, <1>3 DEF Upto
    <2> HIDE DEF c
    <2>2. Cardinality(s \ {c}) = Cardinality(s) - 1
      BY <2>1, FS_RemoveElement
    <2>3. Cardinality(s) \in Nat /\ Cardinality(s) <= n + 1
      BY <1>1, <2>1 DEF Upto
    <2>4. Cardinality(s \ {c}) <= n
      BY <2>2, <2>3
    <2>5. s \ {c} \in Upto(S, n)
      BY <2>1, <2>4 DEF Upto
    <2> QED  BY <2>5 DEF c
  <1>4. \A s \in Upto(S, n + 1) :
          k[s] = IF s = {} THEN 0
                 ELSE f[CHOOSE x \in s : TRUE] + k[s \ {CHOOSE x \in s : TRUE}]
    BY <1>2, <1>3
  <1>5. k = [s \in Upto(S, n + 1) |-> k[s]]
    OBVIOUS
  <1> HIDE DEF k
  <1>6. SumTable(k, f, Upto(S, n + 1))
    BY <1>4, <1>5 DEF SumTable
  <1> QED  BY <1>6

LEMMA TableExists ==
    ASSUME NEW S, IsFiniteSet(S), NEW f
    PROVE  \E h : TableOf(h, f, S)
  <1> DEFINE Bad == {n \in Nat : ~\E h : SumTable(h, f, Upto(S, n))}
  <1>1. Bad = {}
    <2> SUFFICES ASSUME Bad # {} PROVE FALSE
      OBVIOUS
    <2>1. PICK n \in Bad : \A m \in Bad : ~(<<m, n>> \in OpToRel(<, Nat))
      <3>1. Bad \subseteq Nat
        OBVIOUS
      <3> HIDE DEF Bad
      <3> QED  BY <3>1, NatLessThanWellFounded, WFMin
    <2>2. n # 0
      <3> DEFINE h == [s \in {{}} |-> 0]
      <3>1. Upto(S, 0) = {{}}
        BY FS_Subset, FS_CardinalityType, FS_EmptySet DEF Upto
      <3>2. h = [s \in {{}} |-> IF s = {} THEN 0
                     ELSE f[CHOOSE x \in s : TRUE] + h[s \ {CHOOSE x \in s : TRUE}]]
        OBVIOUS
      <3> HIDE DEF h
      <3>3. SumTable(h, f, Upto(S, 0))
        BY <3>1, <3>2 DEF SumTable
      <3> QED  BY <2>1, <3>3
    <2>3. n - 1 \in Nat /\ n - 1 \notin Bad /\ n = (n - 1) + 1
      <3>1. n - 1 \in Nat /\ n = (n - 1) + 1 /\ n - 1 < n /\ n \in Nat
        BY <2>2
      <3>2. <<n - 1, n>> \in OpToRel(<, Nat)
        BY <3>1 DEF OpToRel
      <3> QED  BY <2>1, <3>1, <3>2
    <2>4. PICK h : SumTable(h, f, Upto(S, n - 1))
      BY <2>3
    <2>5. \E k : SumTable(k, f, Upto(S, (n - 1) + 1))
      BY <2>3, <2>4, TableSteps
    <2> QED  BY <2>1, <2>3, <2>5
  <1>2. \A s \in SUBSET S : Cardinality(s) <= Cardinality(S)
    BY FS_Subset
  <1>3. Cardinality(S) \in Nat /\ Upto(S, Cardinality(S)) = SUBSET S
    BY <1>2, FS_CardinalityType DEF Upto
  <1>4. \E h : SumTable(h, f, Upto(S, Cardinality(S)))
    BY <1>1, <1>3
  <1> QED  BY <1>3, <1>4 DEF TableOf

LEMMA TableIntegers ==
    ASSUME NEW S, IsFiniteSet(S), NEW f, \A x \in S : f[x] \in Int,
           NEW h, TableOf(h, f, S)
    PROVE  \A s \in SUBSET S : h[s] \in Int
  <1> DEFINE G == {s \in SUBSET S : h[s] \in Int}
  <1>1. \A s \in SUBSET S : h[s] = IF s = {} THEN 0
                 ELSE f[CHOOSE x \in s : TRUE] + h[s \ {CHOOSE x \in s : TRUE}]
    BY DEF TableOf, SumTable
  <1>2. {} \in G
    <2>1. {} \in SUBSET S /\ h[{}] = 0
      BY <1>1
    <2> QED  BY <2>1
  <1>3. ASSUME NEW s \in SUBSET S, s # {}, \A x \in s : s \ {x} \in G
        PROVE  s \in G
    <2> DEFINE c == CHOOSE x \in s : TRUE
    <2>1. c \in s /\ h[s] = f[c] + h[s \ {c}]
      BY <1>1, <1>3
    <2> HIDE DEF c
    <2>2. s \ {c} \in G /\ f[c] \in Int
      BY <1>3, <2>1
    <2>3. h[s \ {c}] \in Int
      BY <2>2
    <2> QED  BY <2>1, <2>2, <2>3
  <1> HIDE DEF G
  <1>4. \A s \in SUBSET S : s \in G
    BY <1>2, <1>3, SubsetInduction
  <1> QED  BY <1>4 DEF G

\* Any element may be taken out of a sum.
LEMMA TableTakes ==
    ASSUME NEW S, IsFiniteSet(S), NEW f, \A x \in S : f[x] \in Int,
           NEW h, TableOf(h, f, S)
    PROVE  \A s \in SUBSET S : \A x \in s : h[s] = f[x] + h[s \ {x}]
  <1> DEFINE G == {s \in SUBSET S : \A x \in s : h[s] = f[x] + h[s \ {x}]}
  <1>1. \A s \in SUBSET S : h[s] = IF s = {} THEN 0
                 ELSE f[CHOOSE x \in s : TRUE] + h[s \ {CHOOSE x \in s : TRUE}]
    BY DEF TableOf, SumTable
  <1>2. {} \in G
    OBVIOUS
  <1>3. ASSUME NEW s \in SUBSET S, s # {}, \A x \in s : s \ {x} \in G
        PROVE  s \in G
    <2> DEFINE c == CHOOSE x \in s : TRUE
    <2>1. c \in s /\ h[s] = f[c] + h[s \ {c}]
      BY <1>1, <1>3
    <2> HIDE DEF c
    <2>2. ASSUME NEW x \in s PROVE h[s] = f[x] + h[s \ {x}]
      <3>1. CASE x = c
        BY <2>1, <3>1
      <3>2. CASE x # c
        <4> DEFINE r == s \ {c, x}
        <4>1. r \in SUBSET S /\ (s \ {c}) \ {x} = r /\ (s \ {x}) \ {c} = r
          OBVIOUS
        <4>2. s \ {c} \in G /\ s \ {x} \in G /\ x \in s \ {c} /\ c \in s \ {x}
          BY <1>3, <2>1, <3>2
        <4>3. h[s \ {c}] = f[x] + h[r] /\ h[s \ {x}] = f[c] + h[r]
          BY <4>1, <4>2
        <4>4. h[r] \in Int
          BY <4>1, TableIntegers
        <4>5. f[c] \in Int /\ f[x] \in Int
          BY <2>1
        <4> HIDE DEF r
        <4> QED  BY <2>1, <4>3, <4>4, <4>5
      <3> QED  BY <3>1, <3>2
    <2> QED  BY <2>2
  <1> HIDE DEF G
  <1>4. \A s \in SUBSET S : s \in G
    BY <1>2, <1>3, SubsetInduction
  <1> QED  BY <1>4 DEF G

\* Two tables agree where they are both defined.
LEMMA TablesAgree ==
    ASSUME NEW S, IsFiniteSet(S), NEW T \in SUBSET S, NEW f,
           NEW h, TableOf(h, f, S), NEW k, TableOf(k, f, T)
    PROVE  \A s \in SUBSET T : k[s] = h[s]
  <1> DEFINE G == {s \in SUBSET T : k[s] = h[s]}
  <1>1. /\ \A s \in SUBSET S : h[s] = IF s = {} THEN 0
                 ELSE f[CHOOSE x \in s : TRUE] + h[s \ {CHOOSE x \in s : TRUE}]
        /\ \A s \in SUBSET T : k[s] = IF s = {} THEN 0
                 ELSE f[CHOOSE x \in s : TRUE] + k[s \ {CHOOSE x \in s : TRUE}]
    BY DEF TableOf, SumTable
  <1>2. {} \in G /\ IsFiniteSet(T)
    BY <1>1, FS_Subset
  <1>3. ASSUME NEW s \in SUBSET T, s # {}, \A x \in s : s \ {x} \in G
        PROVE  s \in G
    <2> DEFINE c == CHOOSE x \in s : TRUE
    <2>1. c \in s /\ h[s] = f[c] + h[s \ {c}] /\ k[s] = f[c] + k[s \ {c}]
      BY <1>1, <1>3
    <2> HIDE DEF c
    <2> QED  BY <1>3, <2>1
  <1> HIDE DEF G
  <1>4. \A s \in SUBSET T : s \in G
    BY <1>2, <1>3, SubsetInduction
  <1> QED  BY <1>4 DEF G

LEMMA SumIsTable ==
    ASSUME NEW S, IsFiniteSet(S), NEW f, NEW h, TableOf(h, f, S), NEW T \in SUBSET S
    PROVE  SumFunctionOnSet(f, T) = h[T]
  <1> DEFINE P(g) == g = [s \in SUBSET T |-> IF s = {} THEN 0
                            ELSE f[CHOOSE x \in s : TRUE] + g[s \ {CHOOSE x \in s : TRUE}]]
             k == CHOOSE g : P(g)
  <1>1. SumFunctionOnSet(f, T) = k[T]
    BY DEF SumFunctionOnSet, FoldFunctionOnSet, MapThenFoldSet
  <1>2. IsFiniteSet(T) /\ T \subseteq S /\ T \in SUBSET T
    BY FS_Subset
  <1>3. ASSUME NEW g, TableOf(g, f, T) PROVE g[T] = h[T]
    BY <1>3, TablesAgree, <1>2
  <1>4. \E g : P(g)
    <2>1. PICK g : TableOf(g, f, T)
      BY <1>2, TableExists
    <2>2. P(g)
      BY <2>1 DEF TableOf, SumTable
    <2> QED  BY <2>2
  <1>5. P(k)
    BY <1>4
  <1>6. TableOf(k, f, T)
    BY <1>5 DEF TableOf, SumTable
  <1> HIDE DEF k
  <1> QED  BY <1>1, <1>3, <1>6

\* The sum over a finite set: nothing for none, and any element may be taken out.
LEMMA SumOfNone == ASSUME NEW f PROVE SumFunctionOnSet(f, {}) = 0
  <1>1. PICK h : TableOf(h, f, {})
    BY FS_EmptySet, TableExists
  <1>2. SumFunctionOnSet(f, {}) = h[{}]
    BY <1>1, FS_EmptySet, SumIsTable
  <1> QED  BY <1>1, <1>2 DEF TableOf, SumTable

LEMMA SumTakes ==
    ASSUME NEW S, IsFiniteSet(S), NEW f, \A x \in S : f[x] \in Int
    PROVE  /\ SumFunctionOnSet(f, S) \in Int
           /\ \A x \in S : SumFunctionOnSet(f, S) = f[x] + SumFunctionOnSet(f, S \ {x})
  <1>1. PICK h : TableOf(h, f, S)
    BY TableExists
  <1>2. \A T \in SUBSET S : SumFunctionOnSet(f, T) = h[T]
    BY <1>1, SumIsTable
  <1>3. \A x \in S : S \in SUBSET S /\ S \ {x} \in SUBSET S
    OBVIOUS
  <1>4. h[S] \in Int /\ \A x \in S : h[S] = f[x] + h[S \ {x}]
    BY <1>1, <1>3, TableIntegers, TableTakes
  <1> QED  BY <1>2, <1>3, <1>4

\* Summing adds up, term by term, and keeps an order of the terms.
LEMMA SumsAdd ==
    ASSUME NEW S, IsFiniteSet(S), NEW f, NEW g, NEW h,
           \A x \in S : f[x] \in Int /\ g[x] \in Int /\ h[x] = f[x] + g[x]
    PROVE  SumFunctionOnSet(h, S) = SumFunctionOnSet(f, S) + SumFunctionOnSet(g, S)
  <1> DEFINE Adds(s) == SumFunctionOnSet(h, s) = SumFunctionOnSet(f, s) + SumFunctionOnSet(g, s)
             G == {s \in SUBSET S : Adds(s)}
  <1>1. {} \in G
    BY SumOfNone
  <1>2. ASSUME NEW s \in SUBSET S, s # {}, \A x \in s : s \ {x} \in G
        PROVE  s \in G
    <2>1. PICK x \in s : TRUE
      BY <1>2
    <2>2. IsFiniteSet(s) /\ IsFiniteSet(s \ {x})
      BY FS_Subset
    <2>3. /\ SumFunctionOnSet(f, s) = f[x] + SumFunctionOnSet(f, s \ {x})
          /\ SumFunctionOnSet(g, s) = g[x] + SumFunctionOnSet(g, s \ {x})
          /\ SumFunctionOnSet(h, s) = h[x] + SumFunctionOnSet(h, s \ {x})
      BY <2>2, SumTakes
    <2>4. SumFunctionOnSet(f, s \ {x}) \in Int /\ SumFunctionOnSet(g, s \ {x}) \in Int
      BY <2>2, SumTakes
    <2>5. Adds(s \ {x})
      BY <1>2
    <2>6. f[x] \in Int /\ g[x] \in Int /\ h[x] = f[x] + g[x]
      OBVIOUS
    <2> QED  BY <2>3, <2>4, <2>5, <2>6
  <1> HIDE DEF G
  <1>3. S \in G
    <2>1. \A s \in SUBSET S : s \in G
      BY <1>1, <1>2, SubsetInduction
    <2> QED  BY <2>1
  <1> QED  BY <1>3 DEF G

LEMMA SumsOrdered ==
    ASSUME NEW S, IsFiniteSet(S), NEW f, NEW g,
           \A x \in S : f[x] \in Int /\ g[x] \in Int /\ f[x] <= g[x]
    PROVE  SumFunctionOnSet(f, S) <= SumFunctionOnSet(g, S)
  <1> DEFINE Less(s) == SumFunctionOnSet(f, s) <= SumFunctionOnSet(g, s)
             G == {s \in SUBSET S : Less(s)}
  <1>1. {} \in G
    BY SumOfNone
  <1>2. ASSUME NEW s \in SUBSET S, s # {}, \A x \in s : s \ {x} \in G
        PROVE  s \in G
    <2>1. PICK x \in s : TRUE
      BY <1>2
    <2>2. IsFiniteSet(s) /\ IsFiniteSet(s \ {x})
      BY FS_Subset
    <2>3. /\ SumFunctionOnSet(f, s) = f[x] + SumFunctionOnSet(f, s \ {x})
          /\ SumFunctionOnSet(g, s) = g[x] + SumFunctionOnSet(g, s \ {x})
      BY <2>2, SumTakes
    <2>4. SumFunctionOnSet(f, s \ {x}) \in Int /\ SumFunctionOnSet(g, s \ {x}) \in Int
      BY <2>2, SumTakes
    <2>5. Less(s \ {x})
      BY <1>2
    <2>6. f[x] \in Int /\ g[x] \in Int /\ f[x] <= g[x]
      OBVIOUS
    <2> QED  BY <2>3, <2>4, <2>5, <2>6
  <1> HIDE DEF G
  <1>3. S \in G
    <2>1. \A s \in SUBSET S : s \in G
      BY <1>1, <1>2, SubsetInduction
    <2> QED  BY <2>1
  <1> QED  BY <1>3 DEF G

\* A sum over part of a set is one over the whole set of terms that are zero elsewhere.
LEMMA SumOfPart ==
    ASSUME NEW S, IsFiniteSet(S), NEW T \in SUBSET S, NEW f, NEW g,
           \A x \in S : g[x] = IF x \in T THEN f[x] ELSE 0,
           \A x \in T : f[x] \in Int
    PROVE  SumFunctionOnSet(f, T) = SumFunctionOnSet(g, S)
  <1> DEFINE SameSum(s) == SumFunctionOnSet(f, s \cap T) = SumFunctionOnSet(g, s)
             G == {s \in SUBSET S : SameSum(s)}
  <1>1. {} \in G
    BY SumOfNone
  <1>2. ASSUME NEW s \in SUBSET S, s # {}, \A x \in s : s \ {x} \in G
        PROVE  s \in G
    <2>1. PICK x \in s : TRUE
      BY <1>2
    <2>2. IsFiniteSet(s) /\ IsFiniteSet(s \cap T) /\ IsFiniteSet(s \ {x})
      BY FS_Subset
    <2>3. \A y \in s : g[y] \in Int
      OBVIOUS
    <2>4. SumFunctionOnSet(g, s) = g[x] + SumFunctionOnSet(g, s \ {x}) /\ SumFunctionOnSet(g, s \ {x}) \in Int
      BY <2>2, <2>3, SumTakes
    <2>5. SumFunctionOnSet(f, (s \ {x}) \cap T) = SumFunctionOnSet(g, s \ {x})
      BY <1>2
    <2>6. CASE x \in T
      <3>1. SumFunctionOnSet(f, s \cap T) = f[x] + SumFunctionOnSet(f, (s \cap T) \ {x})
        BY <2>2, <2>6, SumTakes
      <3>2. (s \cap T) \ {x} = (s \ {x}) \cap T
        OBVIOUS
      <3>3. g[x] = f[x]
        BY <2>6
      <3> QED  BY <2>4, <2>5, <3>1, <3>2, <3>3
    <2>7. CASE x \notin T
      <3>1. s \cap T = (s \ {x}) \cap T /\ g[x] = 0
        BY <2>7
      <3>2. SumFunctionOnSet(g, s) = SumFunctionOnSet(g, s \ {x})
        BY <2>4, <3>1
      <3> QED  BY <2>5, <3>1, <3>2
    <2> QED  BY <2>6, <2>7
  <1> HIDE DEF G
  <1>3. S \in G /\ S \cap T = T
    BY <1>1, <1>2, SubsetInduction
  <1> QED  BY <1>3 DEF G

-----------------------------------------------------------------------------
(* The invariant *)

JobThere(e) == job[e].status # "absent"

\* Where the effect of a tick has its job, and where it has none yet.
ThereAt    == ({"link", "failed_job"} \cup ExecPc \cup SettlePc) \ {"pending"}
PlannedAt  == {"record", "admit", "reject", "reserve", "enqueue"}

\* A tick names an effect as pending, linked or being executed only when it has
\* a job; an abort settles with an unknown cost, and not as completed.
TickThere(r, j, res) ==
    /\ r.cur.pending # NoEffect => j[r.cur.pending].status # "absent"
    /\ \A x \in r.todo : x[2] => j[x[1]].status # "absent"
    /\ r.pc \in ThereAt => j[r.eff].status # "absent"
    /\ r.pc \in PlannedAt => j[r.eff].status = "absent"
    /\ r.pc \in {"outcome_write", "again_write"} => r.row.status # "absent"
    /\ r.pc = "settle_commit" => res[r.eff] # "reserved"
    /\ r.pc \in SettlePc /\ r.then # "executor" => r.status \in Ending /\ r.cost = Unknown

TicksThere == \A t \in Threads : TickThere(tick[t], job, reservation)

RowsThere ==
    /\ cursor.pending # NoEffect => JobThere(cursor.pending)
    /\ \A e \in Effects : effect[e].linked \/ commit[e].there => JobThere(e)

\* A reservation that still counts has no commit.
OneOfBoth == \A e \in Effects : reservation[e] = "reserved" => ~commit[e].there

ThereInv == TicksThere /\ RowsThere /\ OneOfBoth

\* What an effect may count against the limit: its estimate at most.
ChargeOf(res, com, est) ==
    IF res = "reserved" THEN est
    ELSE IF ~com.there \/ com.cost = Unknown THEN 0
    ELSE IF com.cost <= est THEN com.cost ELSE est

Charges(res, com) == [e \in Effects |-> ChargeOf(res[e], com[e], Estimate[e])]

Fits(f) == MaxCost # NoLimit => SumFunctionOnSet(f, Effects) <= MaxCost

\* The limit has room for e at its estimate beside all others.
Room(f, e) ==
    MaxCost # NoLimit => SumFunctionOnSet(f, Effects \ {e}) + Estimate[e] <= MaxCost

\* No effect beyond n is reserved, and n itself only with room for it.
Ahead(n, res, com) ==
    \A e \in Effects : res[e] # "absent" => e <= n /\ (e = n => Room(Charges(res, com), e))

LimitInv ==
    /\ Fits(Charges(reservation, commit))
    /\ request # "cancelled" => Ahead(cursor.next, reservation, commit)
    /\ tick[owner].pc # "idle" => Ahead(tick[owner].cur.next, reservation, commit)
    /\ tick[owner].pc = "reserve" => Room(Charges(reservation, commit), tick[owner].eff)

\* The jobs before n are over.
Over(n, j) == \A e \in Effects : e < n => j[e].status \in JobTerminal

Paid == {"settle_effect", "settle_reservation", "settle_commit", "settle_read"}

\* A job settled as completed has its outcome, and a failed job is over.
WorkOver(r, j) ==
    /\ r.pc \in Paid /\ r.then = "executor" /\ r.status = "completed" => j[r.eff].outcome
    /\ r.pc = "settle_job" /\ r.then = "executor" /\ r.status = "completed" => r.row.outcome
    /\ r.pc = "failed_job" => j[r.eff].status \in JobTerminal

OwnerOver(r, j) == Over(r.cur.next, j) /\ WorkOver(r, j)

OverInv ==
    request # "cancelled" =>
        /\ CompletedHasOutcome
        /\ Over(cursor.next, job)
        /\ tick[owner].pc # "idle" =>
             cursor.next <= tick[owner].cur.next /\ OwnerOver(tick[owner], job)
        /\ tick[owner].pc \in PlanPc \cup {"check"} => tick[owner].cur.next = cursor.next

LedgerInv == BookInv /\ AttemptInv /\ ThereInv /\ LimitInv /\ OverInv

-----------------------------------------------------------------------------
(* What a step of one thread does to its tick *)

SameWork(r, s) == /\ s.eff = r.eff /\ s.row = r.row /\ s.status = r.status /\ s.cost = r.cost
                  /\ s.then = r.then /\ s.todo = r.todo

\* The thread goes on to place p with all it holds.
GoesOn(t, p) == /\ OthersSame(t) /\ tick'[t].pc = p /\ tick'[t].cur = tick[t].cur
                /\ SameWork(tick[t], tick'[t])

\* Thread t has the tick r afterwards.
LEMMA Leaves ==
    ASSUME TypeInv, NEW t \in Threads, NEW r, tick' = [tick EXCEPT ![t] = r]
    PROVE  OthersSame(t) /\ tick'[t] = r
  BY DEF OthersSame, TypeInv, TypeOK

LEMMA GotoOn ==
    ASSUME TypeInv, NEW t \in Threads, NEW p, Goto(t, p)
    PROVE  GoesOn(t, p)
  <1> DEFINE r == [tick[t] EXCEPT !.pc = p]
  <1>1. tick' = [tick EXCEPT ![t] = r]
    BY DEF Goto, TypeInv, TypeOK
  <1>2. r.pc = p /\ r.cur = tick[t].cur /\ SameWork(tick[t], r)
    BY TickFacts DEF Tick, SameWork
  <1> HIDE DEF r
  <1> QED  BY <1>1, <1>2, Leaves DEF GoesOn

LEMMA SaveNextOn ==
    ASSUME TypeInv, NEW t \in Threads, NEW k, SaveNext(t, k)
    PROVE  /\ OthersSame(t) /\ tick'[t].pc = "save" /\ tick'[t].cur = k
           /\ SameWork(tick[t], tick'[t])
  <1> DEFINE r == [tick[t] EXCEPT !.pc = "save", !.cur = k]
  <1>1. tick' = [tick EXCEPT ![t] = r]
    BY DEF SaveNext, TypeInv, TypeOK
  <1>2. r.pc = "save" /\ r.cur = k /\ SameWork(tick[t], r)
    BY TickFacts DEF Tick, SameWork
  <1> HIDE DEF r
  <1> QED  BY <1>1, <1>2, Leaves

LEMMA BeginAbortOn ==
    ASSUME TypeInv, NEW t \in Threads, NEW s, BeginAbort(t, s)
    PROVE  GoesOn(t, "abort_job")
  <1> DEFINE r == [tick[t] EXCEPT !.pc = "abort_job", !.out = s]
  <1>1. tick' = [tick EXCEPT ![t] = r]
    BY DEF BeginAbort, TypeInv, TypeOK
  <1>2. r.pc = "abort_job" /\ r.cur = tick[t].cur /\ SameWork(tick[t], r)
    BY TickFacts DEF Tick, SameWork
  <1> HIDE DEF r
  <1> QED  BY <1>1, <1>2, Leaves DEF GoesOn

LEMMA BeginSettleOn ==
    ASSUME TypeInv, NEW t \in Threads, NEW e, NEW s, NEW c, NEW x, BeginSettle(t, e, s, c, x)
    PROVE  /\ OthersSame(t) /\ tick'[t].pc = "settle_effect" /\ tick'[t].cur = tick[t].cur
           /\ tick'[t].eff = e /\ tick'[t].status = s /\ tick'[t].cost = c
           /\ tick'[t].then = tick[t].then /\ tick'[t].todo = tick[t].todo
           /\ tick'[t].row = tick[t].row
  <1> DEFINE r == [tick[t] EXCEPT !.pc = "settle_effect", !.eff = e, !.status = s,
                                  !.cost = c, !.error = x]
  <1>1. tick' = [tick EXCEPT ![t] = r]
    BY DEF BeginSettle, TypeInv, TypeOK
  <1>2. /\ r.pc = "settle_effect" /\ r.cur = tick[t].cur /\ r.eff = e /\ r.status = s
        /\ r.cost = c /\ r.then = tick[t].then /\ r.todo = tick[t].todo /\ r.row = tick[t].row
    BY TickFacts DEF Tick
  <1> HIDE DEF r
  <1> QED  BY <1>1, <1>2, Leaves

LEMMA AbortSettleOn ==
    ASSUME TypeInv, NEW t \in Threads, NEW e, NEW th, NEW left, AbortSettle(t, e, th, left)
    PROVE  /\ OthersSame(t) /\ tick'[t].pc = "settle_effect" /\ tick'[t].cur = tick[t].cur
           /\ tick'[t].eff = e /\ tick'[t].status = tick[t].out /\ tick'[t].cost = Unknown
           /\ tick'[t].then = th /\ tick'[t].todo = left
  <1> DEFINE r == [tick[t] EXCEPT !.pc = "settle_effect", !.eff = e, !.status = tick[t].out,
                                  !.cost = Unknown, !.error = "fatal", !.then = th, !.todo = left]
  <1>1. tick' = [tick EXCEPT ![t] = r]
    BY DEF AbortSettle, TypeInv, TypeOK
  <1>2. /\ r.pc = "settle_effect" /\ r.cur = tick[t].cur /\ r.eff = e /\ r.status = tick[t].out
        /\ r.cost = Unknown /\ r.then = th /\ r.todo = left
    BY TickFacts DEF Tick
  <1> HIDE DEF r
  <1> QED  BY <1>1, <1>2, Leaves

LEMMA EndTickOn ==
    ASSUME TypeInv, NEW t \in Threads, EndTick(t)
    PROVE  /\ OthersSame(t) /\ tick'[t].pc = "idle"
           /\ tick'[t].cur.pending = NoEffect /\ tick'[t].todo = {}
  <1>1. OthersSame(t) /\ tick'[t] = Resting
    BY Leaves DEF EndTick
  <1> QED  BY <1>1 DEF Resting, NewCursor

-----------------------------------------------------------------------------
(* What is there *)

\* A job that is there stays, and none is added.
SameJobs == \A e \in Effects : job'[e].status = "absent" <=> job[e].status = "absent"

\* Only what has no job yet is reserved.
ReservesNew ==
    \A e \in Effects : reservation'[e] = "reserved" => reservation[e] = "reserved" \/ ~JobThere(e)

LEMMA StaysThere ==
    ASSUME NEW r \in Tick, TickOK(r), TickThere(r, job, reservation), SameJobs, ReservesNew
    PROVE  TickThere(r, job', reservation')
  <1>1. r.cur.pending \in Effects \cup {NoEffect} /\ \A x \in r.todo : x[1] \in Effects
    BY DEF Tick, Cursor
  <1>2. r.pc \in ThereAt \cup PlannedAt \cup {"settle_commit"} => r.eff \in Effects
    BY DEF TickOK, EffPc, ThereAt, PlannedAt, ExecPc, SettlePc
  <1>3. /\ r.pc \in ThereAt => job'[r.eff].status # "absent"
        /\ r.pc \in PlannedAt => job'[r.eff].status = "absent"
    BY <1>2 DEF TickThere, SameJobs
  <1>4. r.pc = "settle_commit" => reservation'[r.eff] # "reserved"
    BY <1>2 DEF TickThere, ReservesNew, JobThere, ThereAt, SettlePc
  <1> QED  BY <1>1, <1>3, <1>4 DEF TickThere, SameJobs

LEMMA ThereStep ==
    ASSUME TypeInv, ThereInv, NEW t \in Threads, OthersSame(t), SameJobs, ReservesNew,
           TickThere(tick'[t], job', reservation'), RowsThere', OneOfBoth'
    PROVE  ThereInv'
  <1>1. ASSUME NEW u \in Threads PROVE TickThere(tick'[u], job', reservation')
    <2>1. CASE u = t
      BY <2>1
    <2>2. CASE u # t
      BY TickFacts, StaysThere, <2>2 DEF ThereInv, TicksThere, OthersSame
    <2> QED  BY <2>1, <2>2
  <1> QED  BY <1>1 DEF ThereInv, TicksThere

\* A step that writes the tick of one thread and no row.
LEMMA QuietThere ==
    ASSUME TypeInv, ThereInv, NEW t \in Threads, OthersSame(t), UNCHANGED <<rows, cursor>>,
           TickThere(tick'[t], job, reservation)
    PROVE  ThereInv'
  BY ThereStep DEF rows, SameJobs, ReservesNew, ThereInv, RowsThere, OneOfBoth, JobThere

\* Where a thread needs nothing to be there.
OpenPc == TickPc \ (ThereAt \cup PlannedAt)

LEMMA OpenThere ==
    ASSUME NEW r, NEW j, NEW res, r.pc \in OpenPc,
           r.cur.pending # NoEffect => j[r.cur.pending].status # "absent",
           \A x \in r.todo : x[2] => j[x[1]].status # "absent"
    PROVE  TickThere(r, j, res)
  BY DEF TickThere, OpenPc, ThereAt, PlannedAt, TickPc, PlanPc, ExecPc, SettlePc

LEMMA OpenPlaces ==
    /\ {"idle", "check", "plan", "pending", "save", "abort_job", "abort_list", "abort_next",
        "terminal", "finish", "error"} \subseteq OpenPc
    /\ {"link", "failed_job"} \cup SettlePc \cup (ExecPc \ {"pending"}) \subseteq ThereAt
  BY DEF OpenPc, ThereAt, PlannedAt, TickPc, PlanPc, ExecPc, SettlePc

\* A thread whose tick keeps its cursor and list goes to such a place.
LEMMA GoesOpen ==
    ASSUME NEW r, NEW s, NEW j, NEW res, TickThere(r, j, res), s.pc \in OpenPc,
           s.cur = r.cur, s.todo = r.todo
    PROVE  TickThere(s, j, res)
  BY OpenThere DEF TickThere

\* It goes on to another statement on the same effect.
LEMMA GoesThere ==
    ASSUME NEW r, NEW s, NEW j, NEW res, TickThere(r, j, res), s.cur = r.cur,
           SameWork(r, s), r.pc \in ThereAt, s.pc \in ThereAt,
           s.pc \notin {"outcome_write", "again_write", "settle_commit"},
           s.pc \in SettlePc => r.pc \in SettlePc \/ r.then = "executor"
    PROVE  TickThere(s, j, res)
  BY DEF TickThere, SameWork, PlannedAt, ThereAt, ExecPc, SettlePc

LEMMA TickHasThere ==
    ASSUME ThereInv, NEW t \in Threads
    PROVE  TickThere(tick[t], job, reservation)
  BY DEF ThereInv, TicksThere

LEMMA LoadThere ==
    ASSUME TypeInv, ThereInv, NEW t \in Threads, Load(t)
    PROVE  ThereInv'
  <1> DEFINE r == [tick[t] EXCEPT !.cur = cursor,
                                  !.pc  = IF cursor.phase = "work" THEN "check" ELSE "finish",
                                  !.out = IF cursor.phase = "work" THEN "none" ELSE cursor.phase]
  <1>1. tick' = [tick EXCEPT ![t] = r]
    BY DEF Load, TypeInv, TypeOK
  <1>2. r.pc \in {"check", "finish"} /\ r.cur = cursor /\ r.todo = tick[t].todo
    BY TickFacts DEF Tick
  <1> HIDE DEF r
  <1>3. OthersSame(t) /\ tick'[t] = r
    BY <1>1, Leaves
  <1>4. TickThere(r, job, reservation)
    BY <1>2, OpenPlaces, TickHasThere, OpenThere DEF ThereInv, RowsThere, JobThere, TickThere
  <1> QED  BY <1>3, <1>4, QuietThere DEF Load

LEMMA CheckCancelledThere ==
    ASSUME TypeInv, ThereInv, NEW t \in Threads, CheckCancelled(t)
    PROVE  ThereInv'
  BY BeginAbortOn, GotoOn, GoesOpen, TickHasThere, OpenPlaces, QuietThere DEF CheckCancelled,
     GoesOn, SameWork

LEMMA PlanExistingThere ==
    ASSUME TypeInv, ThereInv, NEW t \in Threads, PlanExisting(t)
    PROVE  ThereInv'
  <1> DEFINE k == tick[t].cur
             l == [k EXCEPT !.pending = k.next]
  <1>1. l.pending = k.next /\ k.next \in Effects
    BY TickFacts DEF Cursor, PlanExisting
  <1>2. SaveNext(t, l) /\ job[k.next].status # "absent"
    BY DEF PlanExisting
  <1> HIDE DEF l
  <1>3. OthersSame(t) /\ tick'[t].pc = "save" /\ tick'[t].cur = l /\ tick'[t].todo = tick[t].todo
    BY <1>2, SaveNextOn DEF SameWork
  <1>4. \A x \in tick[t].todo : x[2] => job[x[1]].status # "absent"
    BY TickHasThere DEF TickThere
  <1>5. TickThere(tick'[t], job, reservation)
    BY <1>1, <1>2, <1>3, <1>4, OpenThere, OpenPlaces
  <1> QED  BY <1>3, <1>5, QuietThere DEF PlanExisting

LEMMA PlanNewThere ==
    ASSUME TypeInv, ThereInv, NEW t \in Threads, PlanNew(t)
    PROVE  ThereInv'
  <1> DEFINE r == [tick[t] EXCEPT !.pc = "record", !.eff = tick[t].cur.next]
  <1>1. tick' = [tick EXCEPT ![t] = r]
    BY DEF PlanNew, TypeInv, TypeOK
  <1>2. /\ r.pc = "record" /\ r.cur = tick[t].cur /\ r.todo = tick[t].todo
        /\ r.eff = tick[t].cur.next
    BY TickFacts DEF Tick
  <1> HIDE DEF r
  <1>3. OthersSame(t) /\ tick'[t] = r
    BY <1>1, Leaves
  <1>4. job[tick[t].cur.next].status = "absent"
    BY DEF PlanNew
  <1>5. TickThere(r, job, reservation)
    BY <1>2, <1>4, TickHasThere DEF TickThere, ThereAt, ExecPc, SettlePc
  <1> QED  BY <1>3, <1>5, QuietThere DEF PlanNew

LEMMA FinalizeThere ==
    ASSUME TypeInv, ThereInv, NEW t \in Threads, Finalize(t)
    PROVE  ThereInv'
  <1> DEFINE r == [tick[t] EXCEPT !.pc = "terminal", !.out = "completed"]
  <1>1. tick' = [tick EXCEPT ![t] = r]
    BY DEF Finalize, TypeInv, TypeOK
  <1>2. r.pc = "terminal" /\ r.cur = tick[t].cur /\ r.todo = tick[t].todo
    BY TickFacts DEF Tick
  <1> HIDE DEF r
  <1>3. OthersSame(t) /\ tick'[t] = r
    BY <1>1, Leaves
  <1>4. TickThere(r, job, reservation)
    BY <1>2, GoesOpen, TickHasThere, OpenPlaces
  <1> QED  BY <1>3, <1>4, QuietThere DEF Finalize

\* Planning goes on with the same effect, which has no job yet.
LEMMA PlansOn ==
    ASSUME TypeInv, ThereInv, NEW t \in Threads, NEW p \in PlannedAt, GoesOn(t, p),
           tick[t].pc \in PlannedAt
    PROVE  TickThere(tick'[t], job, reservation) /\ ~JobThere(tick[t].eff)
  BY TickHasThere DEF TickThere, GoesOn, SameWork, PlannedAt, ThereAt, ExecPc, SettlePc, JobThere

LEMMA RecordPlannedThere ==
    ASSUME TypeInv, ThereInv, NEW t \in Threads, RecordPlanned(t)
    PROVE  ThereInv'
  <1>1. GoesOn(t, "admit") /\ tick[t].pc \in PlannedAt
    BY GotoOn DEF RecordPlanned, At, PlannedAt
  <1>2. TickThere(tick'[t], job, reservation)
    BY <1>1, PlansOn DEF PlannedAt
  <1>3. SameJobs /\ ReservesNew /\ OneOfBoth' /\ job' = job /\ reservation' = reservation
    BY DEF RecordPlanned, SameJobs, ReservesNew, ThereInv, OneOfBoth
  <1>4. \A e \in Effects : effect'[e].linked => effect[e].linked
    BY DEF RecordPlanned, TypeInv, TypeOK, EffectRow
  <1>5. RowsThere'
    BY <1>4 DEF RecordPlanned, ThereInv, RowsThere, JobThere
  <1> QED  BY <1>1, <1>2, <1>3, <1>5, ThereStep DEF GoesOn

LEMMA AdmitThere ==
    ASSUME TypeInv, ThereInv, NEW t \in Threads, Admit(t)
    PROVE  ThereInv'
  BY GotoOn, PlansOn, QuietThere DEF Admit, At, PlannedAt, GoesOn

LEMMA RejectThere ==
    ASSUME TypeInv, ThereInv, NEW t \in Threads, Reject(t)
    PROVE  ThereInv'
  <1>1. GoesOn(t, "error")
    BY GotoOn DEF Reject, Err
  <1>2. TickThere(tick'[t], job, reservation)
    BY <1>1, GoesOpen, TickHasThere, OpenPlaces DEF GoesOn, SameWork
  <1>3. SameJobs /\ ReservesNew /\ OneOfBoth' /\ job' = job /\ reservation' = reservation
    BY DEF Reject, SameJobs, ReservesNew, ThereInv, OneOfBoth
  <1>4. \A e \in Effects : effect'[e].linked => effect[e].linked
    BY DEF Reject, TypeInv, TypeOK, EffectRow
  <1>5. RowsThere'
    BY <1>4 DEF Reject, ThereInv, RowsThere, JobThere
  <1> QED  BY <1>1, <1>2, <1>3, <1>5, ThereStep DEF GoesOn

LEMMA ReserveThere ==
    ASSUME TypeInv, ThereInv, NEW t \in Threads, Reserve(t)
    PROVE  ThereInv'
  <1>1. GoesOn(t, "enqueue") /\ tick[t].pc \in PlannedAt
    BY GotoOn DEF Reserve, At, PlannedAt
  <1>2. TickThere(tick'[t], job, reservation) /\ ~JobThere(tick[t].eff)
    BY <1>1, PlansOn DEF PlannedAt
  <1>3. TickThere(tick'[t], job, reservation')
    BY <1>1, <1>2 DEF TickThere, GoesOn
  <1>4. /\ SameJobs /\ job' = job /\ commit' = commit /\ effect' = effect /\ cursor' = cursor
        /\ reservation' = [reservation EXCEPT ![tick[t].eff] = "reserved"]
    BY DEF Reserve, SameJobs
  <1>5. ReservesNew
    BY <1>2, <1>4 DEF ReservesNew, TypeInv, TypeOK
  <1>6. RowsThere'
    BY <1>4 DEF ThereInv, RowsThere, JobThere
  <1>7. OneOfBoth'
    BY <1>2, <1>4 DEF ThereInv, RowsThere, OneOfBoth, TypeInv, TypeOK
  <1> QED  BY <1>1, <1>3, <1>4, <1>5, <1>6, <1>7, ThereStep DEF GoesOn

LEMMA EnqueueThere ==
    ASSUME AttemptInv, ThereInv, NEW t \in Threads, Enqueue(t)
    PROVE  ThereInv'
  <1> TypeInv
    BY DEF AttemptInv
  <1>1. t = owner
    BY WhoSteps DEF TickStep, Enqueue, At, AttemptInv, Alone, CancelPc, AbortPc, SettlePc
  <1> DEFINE e == tick[t].eff
  <1>2. e \in Effects
    BY TickFacts DEF Enqueue, At, TickOK, EffPc
  <1>3. /\ job' = [job EXCEPT ![e] = Enqueued] /\ GoesOn(t, "link")
        /\ UNCHANGED <<effect, reservation, commit, cursor>> /\ tick[t].pc = "enqueue"
    BY GotoOn DEF Enqueue, At
  <1>4. /\ job'[e].status # "absent"
        /\ \A d \in Effects : job[d].status # "absent" => job'[d].status # "absent"
        /\ \A d \in Effects \ {e} : job'[d] = job[d]
    BY <1>2, <1>3, JobFacts DEF Enqueued, AbsentJob, TypeInv, TypeOK
  <1> HIDE DEF e
  <1>5. ASSUME NEW u \in Threads, u # t PROVE TickThere(tick'[u], job', reservation')
    <2>1. tick'[u] = tick[u] /\ reservation' = reservation
      BY <1>3, <1>5 DEF GoesOn, OthersSame
    <2>2. tick[u].pc \notin PlannedAt
      BY <1>1, <1>5 DEF Threads, AttemptInv, Alone, CancelPc, AbortPc, SettlePc, PlannedAt
    <2> DEFINE r == tick[u]
    <2>3. TickThere(r, job, reservation) /\ r.cur.pending \in Effects \cup {NoEffect}
      BY TickHasThere, TickFacts DEF Cursor
    <2>4. \A x \in r.todo : x[1] \in Effects
      BY TickFacts DEF Tick
    <2>5. r.pc \in ThereAt => r.eff \in Effects
      BY TickFacts DEF TickOK, EffPc, ThereAt, ExecPc, SettlePc
    <2> HIDE DEF r
    <2>6. TickThere(r, job', reservation)
      BY <1>4, <2>2, <2>3, <2>4, <2>5 DEF TickThere, r
    <2> QED  BY <2>1, <2>6 DEF r
  <1>6. TickThere(tick'[t], job', reservation')
    BY TickHasThere, TickFacts, <1>3, <1>4 DEF Cursor, Tick, GoesOn, TickThere, SameWork, e,
       PlannedAt, SettlePc
  <1>7. RowsThere'
    BY <1>3, <1>4 DEF TypeInv, TypeOK, Cursor, ThereInv, RowsThere, JobThere
  <1>8. OneOfBoth'
    BY <1>3 DEF ThereInv, OneOfBoth
  <1> QED  BY <1>5, <1>6, <1>7, <1>8 DEF ThereInv, TicksThere

LEMMA LinkThere ==
    ASSUME TypeInv, ThereInv, NEW t \in Threads, Link(t)
    PROVE  ThereInv'
  <1> DEFINE l == [tick[t].cur EXCEPT !.pending = tick[t].eff]
  <1>1. SaveNext(t, l)
    BY DEF Link
  <1>2. l.pending = tick[t].eff
    BY TickFacts DEF Cursor
  <1> HIDE DEF l
  <1>3. OthersSame(t) /\ tick'[t].pc = "save" /\ tick'[t].cur = l /\ tick'[t].todo = tick[t].todo
    BY <1>1, SaveNextOn DEF SameWork
  <1>4. job[tick[t].eff].status # "absent" /\ \A x \in tick[t].todo : x[2] => job[x[1]].status # "absent"
    BY TickHasThere DEF TickThere, Link, At, ThereAt
  <1>5. TickThere(tick'[t], job, reservation)
    BY <1>2, <1>3, <1>4, OpenThere, OpenPlaces
  <1>6. SameJobs /\ ReservesNew /\ OneOfBoth' /\ job' = job /\ reservation' = reservation
    BY DEF Link, SameJobs, ReservesNew, ThereInv, OneOfBoth
  <1>7. \A e \in Effects : effect'[e].linked => effect[e].linked \/ e = tick[t].eff
    BY DEF Link, TypeInv, TypeOK, EffectRow
  <1>8. RowsThere'
    BY <1>4, <1>7 DEF Link, ThereInv, RowsThere, JobThere
  <1> QED  BY <1>3, <1>5, <1>6, <1>8, ThereStep

\* The cursor row is written from the tick's copy of it, or stays.
LEMMA CursorThere ==
    ASSUME TypeInv, ThereInv, NEW t \in Threads, OthersSame(t), UNCHANGED rows,
           cursor'.pending = cursor.pending \/ cursor'.pending = tick[t].cur.pending,
           TickThere(tick'[t], job, reservation)
    PROVE  ThereInv'
  BY TickHasThere, ThereStep DEF rows, SameJobs, ReservesNew, ThereInv, OneOfBoth, TickThere,
     RowsThere, JobThere

LEMMA EndsThere ==
    ASSUME TypeInv, NEW t \in Threads, EndTick(t)
    PROVE  OthersSame(t) /\ TickThere(tick'[t], job, reservation)
  BY EndTickOn, OpenThere, OpenPlaces

LEMMA SaveCursorThere ==
    ASSUME TypeInv, ThereInv, NEW t \in Threads, SaveCursor(t)
    PROVE  ThereInv'
  <1> DEFINE l == [tick[t].cur EXCEPT !.seq = @ + 1]
  <1>1. l.pending = tick[t].cur.pending /\ cursor' = Persist(cursor, l)
    BY TickFacts DEF Cursor, SaveCursor
  <1> HIDE DEF l
  <1>2. cursor'.pending = cursor.pending \/ cursor'.pending = tick[t].cur.pending
    BY <1>1 DEF Persist
  <1> QED  BY <1>2, EndsThere, CursorThere DEF SaveCursor

LEMMA TerminalizeThere ==
    ASSUME TypeInv, ThereInv, NEW t \in Threads, Terminalize(t)
    PROVE  ThereInv'
  <1> DEFINE l == [tick[t].cur EXCEPT !.seq = @ + 1, !.phase = tick[t].out]
  <1>1. l.pending = tick[t].cur.pending /\ cursor' = Persist(cursor, l)
    BY TickFacts DEF Cursor, Terminalize
  <1> HIDE DEF l
  <1>2. cursor'.pending = cursor.pending \/ cursor'.pending = tick[t].cur.pending
    BY <1>1 DEF Persist
  <1>3. GoesOn(t, "finish")
    BY GotoOn DEF Terminalize
  <1>4. TickThere(tick'[t], job, reservation)
    BY <1>3, GoesOpen, TickHasThere, OpenPlaces DEF GoesOn, SameWork
  <1> QED  BY <1>2, <1>3, <1>4, CursorThere DEF Terminalize, GoesOn

LEMMA FinishThere ==
    ASSUME TypeInv, ThereInv, NEW t \in Threads, Finish(t) \/ FinishWithError(t)
    PROVE  ThereInv'
  BY EndsThere, QuietThere DEF Finish, FinishWithError

\* Saving next with nothing pending.
LEMMA ConsumesThere ==
    ASSUME TypeInv, ThereInv, NEW t \in Threads, NEW n, 
           SaveNext(t, [tick[t].cur EXCEPT !.next = n, !.pending = NoEffect])
    PROVE  OthersSame(t) /\ TickThere(tick'[t], job, reservation)
  <1> DEFINE l == [tick[t].cur EXCEPT !.next = n, !.pending = NoEffect]
  <1>1. l.pending = NoEffect
    BY TickFacts DEF Cursor
  <1> HIDE DEF l
  <1>2. OthersSame(t) /\ tick'[t].pc = "save" /\ tick'[t].cur = l /\ tick'[t].todo = tick[t].todo
    BY SaveNextOn DEF SameWork, l
  <1>3. \A x \in tick[t].todo : x[2] => job[x[1]].status # "absent"
    BY TickHasThere DEF TickThere
  <1> QED  BY <1>1, <1>2, <1>3, OpenThere, OpenPlaces

LEMMA SavesThere ==
    ASSUME TypeInv, ThereInv, NEW t \in Threads,
           \/ SaveNext(t, tick[t].cur) \/ \E p \in OpenPc : Goto(t, p)
           \/ \E s : BeginAbort(t, s)
    PROVE  OthersSame(t) /\ TickThere(tick'[t], job, reservation)
  BY SaveNextOn, GotoOn, BeginAbortOn, OpenPlaces, TickHasThere, GoesOpen DEF GoesOn, SameWork

LEMMA ConsumeThere ==
    ASSUME TypeInv, ThereInv, NEW t \in Threads, NEW e, NEW j, ConsumeCompleted(t, e, j)
    PROVE  OthersSame(t) /\ TickThere(tick'[t], job, reservation)
  BY ConsumesThere, SavesThere, OpenPlaces DEF ConsumeCompleted, Err

LEMMA PendingJobThere ==
    ASSUME TypeInv, ThereInv, NEW t \in Threads, PendingJob(t)
    PROVE  ThereInv'
  <1> DEFINE e == tick[t].cur.pending
  <1>1. e # NoEffect /\ job[e].status # "absent"
    <2>1. e \in Effects
      BY TickFacts DEF PendingJob, At, TickOK
    <2>2. e # NoEffect
      BY <2>1, EffectsAssumption DEF Effects, NoEffect
    <2> QED  BY <2>2, TickHasThere DEF TickThere
  <1>2. \/ tick' = [tick EXCEPT ![t].pc = "claim", ![t].eff = e]
        \/ EndTick(t)
        \/ ConsumeCompleted(t, e, job[e])
        \/ tick' = [tick EXCEPT ![t].pc = "failed_job", ![t].eff = e, ![t].row = job[e]]
    BY DEF PendingJob
  <1>3. OthersSame(t) /\ TickThere(tick'[t], job, reservation)
    <2>1. CASE EndTick(t) \/ ConsumeCompleted(t, e, job[e])
      BY <2>1, EndsThere, ConsumeThere
    <2>2. CASE tick' = [tick EXCEPT ![t].pc = "claim", ![t].eff = e]
      <3> DEFINE r == [tick[t] EXCEPT !.pc = "claim", !.eff = e]
      <3>1. tick' = [tick EXCEPT ![t] = r]
        BY <2>2 DEF TypeInv, TypeOK
      <3>2. r.pc = "claim" /\ r.eff = e /\ r.cur = tick[t].cur /\ r.todo = tick[t].todo
        BY TickFacts DEF Tick
      <3> HIDE DEF r, e
      <3>3. OthersSame(t) /\ tick'[t] = r
        BY <3>1, Leaves
      <3>4. TickThere(r, job, reservation)
        BY <1>1, <3>2, TickHasThere DEF TickThere, PlannedAt, SettlePc
      <3> QED  BY <3>3, <3>4
    <2>3. CASE tick' = [tick EXCEPT ![t].pc = "failed_job", ![t].eff = e, ![t].row = job[e]]
      <3> DEFINE r == [tick[t] EXCEPT !.pc = "failed_job", !.eff = e, !.row = job[e]]
      <3>1. tick' = [tick EXCEPT ![t] = r]
        BY <2>3 DEF TypeInv, TypeOK
      <3>2. r.pc = "failed_job" /\ r.eff = e /\ r.cur = tick[t].cur /\ r.todo = tick[t].todo
        BY TickFacts DEF Tick
      <3> HIDE DEF r, e
      <3>3. OthersSame(t) /\ tick'[t] = r
        BY <3>1, Leaves
      <3>4. TickThere(r, job, reservation)
        BY <1>1, <3>2, TickHasThere DEF TickThere, PlannedAt, SettlePc
      <3> QED  BY <3>3, <3>4
    <2> QED  BY <1>2, <2>1, <2>2, <2>3
  <1> QED  BY <1>3, QuietThere DEF PendingJob

\* A statement on the jobs that neither adds nor removes one.
LEMMA JobStepThere ==
    ASSUME TypeInv, TypeInv', ThereInv, NEW t \in Threads, OthersSame(t), SameJobs,
           UNCHANGED <<effect, reservation, commit, cursor>>,
           TickThere(tick'[t], job, reservation)
    PROVE  ThereInv'
  BY StaysThere, ThereStep DEF ReservesNew, TypeInv, TypeOK, Cursor, ThereInv, RowsThere,
     OneOfBoth, JobThere, SameJobs

\* The statement on the job of one effect, which has one.
LEMMA OneJobSame ==
    ASSUME TypeInv, NEW e \in Effects, JobThere(e), NEW j, j.status # "absent",
           job' = [job EXCEPT ![e] = j]
    PROVE  SameJobs
  BY DEF SameJobs, JobThere, TypeInv, TypeOK

LEMMA RecoveredSame ==
    ASSUME TypeInv
    PROVE  \A e \in Effects : RecoveredJobs[e].status = "absent" <=> job[e].status = "absent"
  BY RecoveredFacts DEF InHand

\* The effect of a tick that is executing or settling has its job.
LEMMA WorksThere ==
    ASSUME TypeInv, ThereInv, NEW t \in Threads, tick[t].pc \in ThereAt
    PROVE  tick[t].eff \in Effects /\ JobThere(tick[t].eff)
  BY TickFacts, TickHasThere DEF TickThere, JobThere, TickOK, EffPc, ThereAt, ExecPc, SettlePc

LEMMA ClaimThere ==
    ASSUME TypeInv, ThereInv, NEW t \in Threads, Claim(t)
    PROVE  ThereInv'
  <1> DEFINE e == tick[t].eff
  <1>1. tick[t].pc = "claim" /\ e \in Effects /\ JobThere(e)
    BY WorksThere, OpenPlaces DEF Claim, At, ExecPc
  <1>2. TypeInv'
    BY ClaimType
  <1>3. UNCHANGED <<effect, reservation, commit, cursor>>
    BY DEF Claim
  <1>4. RecoveredJobs \in [Effects -> Job]
    BY RecoveredFacts
  <1>5. CASE Claimable(RecoveredJobs[e])
    <2> DEFINE r == [tick[t] EXCEPT !.pc = "run", !.lease = minted + 1]
               j == Claimed(RecoveredJobs[e], minted + 1)
    <2>1. tick' = [tick EXCEPT ![t] = r]
      BY <1>5 DEF Claim, TypeInv, TypeOK
    <2>2. r.pc = "run" /\ r.cur = tick[t].cur /\ SameWork(tick[t], r)
      BY TickFacts DEF Tick, SameWork
    <2>3. j.status = "leased" /\ job' = [RecoveredJobs EXCEPT ![e] = j]
      BY <1>1, <1>4, <1>5 DEF Claim, Claimed, Job
    <2> HIDE DEF r, j, e
    <2>4. OthersSame(t) /\ tick'[t] = r
      BY <2>1, Leaves
    <2>5. SameJobs
      BY <1>1, <1>4, <2>3, RecoveredSame DEF SameJobs, JobThere
    <2>6. TickThere(r, job, reservation)
      BY <1>1, <2>2, GoesThere, TickHasThere, OpenPlaces DEF ExecPc, SettlePc
    <2> QED  BY <1>2, <1>3, <2>4, <2>5, <2>6, JobStepThere
  <1>6. CASE ~Claimable(RecoveredJobs[e])
    <2>1. Goto(t, "reread") /\ job' = RecoveredJobs
      BY <1>6 DEF Claim
    <2>2. GoesOn(t, "reread")
      BY <2>1, GotoOn
    <2>3. SameJobs
      BY <2>1, RecoveredSame DEF SameJobs
    <2>4. TickThere(tick'[t], job, reservation)
      BY <1>1, <2>2, GoesThere, TickHasThere, OpenPlaces DEF ExecPc, SettlePc, GoesOn
    <2> QED  BY <1>2, <1>3, <2>2, <2>3, <2>4, JobStepThere DEF GoesOn
  <1> QED  BY <1>5, <1>6

LEMMA MarkRunningThere ==
    ASSUME TypeInv, ThereInv, NEW t \in Threads, MarkRunning(t)
    PROVE  ThereInv'
  <1> DEFINE e == tick[t].eff
  <1>1. tick[t].pc = "run" /\ e \in Effects /\ JobThere(e)
    BY WorksThere, OpenPlaces DEF MarkRunning, At, ExecPc
  <1>2. TypeInv'
    BY MarkRunningType
  <1>3. UNCHANGED <<effect, reservation, commit, cursor>>
    BY DEF MarkRunning
  <1>5. CASE Holds(job[e], tick[t].lease)
    <2> DEFINE j == Running(job[e])
               r == [tick[t] EXCEPT !.pc = "mark", !.row = j]
    <2>1. tick' = [tick EXCEPT ![t] = r] /\ job' = [job EXCEPT ![e] = j]
      BY <1>5 DEF MarkRunning, TypeInv, TypeOK
    <2>2. j.status = "running"
      BY <1>1 DEF Running, Job, TypeInv, TypeOK
    <2> HIDE DEF j
    <2>3. r.pc = "mark" /\ r.cur = tick[t].cur /\ r.eff = e /\ r.todo = tick[t].todo
      BY TickFacts DEF Tick
    <2> HIDE DEF r, e
    <2>4. OthersSame(t) /\ tick'[t] = r
      BY <2>1, Leaves
    <2>5. SameJobs
      BY <1>1, <2>1, <2>2, OneJobSame
    <2>6. TickThere(r, job, reservation)
      BY <1>1, <2>3, TickHasThere DEF TickThere, PlannedAt, SettlePc, JobThere
    <2> QED  BY <1>2, <1>3, <2>4, <2>5, <2>6, JobStepThere
  <1>6. CASE ~Holds(job[e], tick[t].lease)
    BY <1>6, GotoOn, <1>1, GoesThere, TickHasThere, OpenPlaces, <1>3, QuietThere DEF MarkRunning,
       ExecPc, SettlePc, GoesOn, rows
  <1> QED  BY <1>5, <1>6

\* A statement on runtime_effects for an effect that has its job.
LEMMA EffectStepThere ==
    ASSUME TypeInv, ThereInv, NEW t \in Threads, OthersSame(t), NEW e \in Effects, JobThere(e),
           NEW x, effect' = [effect EXCEPT ![e] = x],
           UNCHANGED <<reservation, commit, job, cursor>>,
           TickThere(tick'[t], job, reservation)
    PROVE  ThereInv'
  BY ThereStep DEF SameJobs, ReservesNew, ThereInv, OneOfBoth, TypeInv, TypeOK, RowsThere, JobThere

LEMMA RecordRunningThere ==
    ASSUME TypeInv, ThereInv, NEW t \in Threads, RecordRunning(t)
    PROVE  ThereInv'
  <1>1. tick[t].pc = "mark" /\ tick[t].eff \in Effects /\ JobThere(tick[t].eff)
    BY WorksThere, OpenPlaces DEF RecordRunning, At, ExecPc
  <1>2. GoesOn(t, "dispatch")
    BY GotoOn DEF RecordRunning
  <1>3. TickThere(tick'[t], job, reservation)
    BY <1>1, <1>2, GoesThere, TickHasThere, OpenPlaces DEF ExecPc, SettlePc, GoesOn
  <1> QED  BY <1>1, <1>2, <1>3, EffectStepThere DEF RecordRunning, GoesOn

LEMMA DispatchOkThere ==
    ASSUME TypeInv, ThereInv, NEW t \in Threads, DispatchOk(t)
    PROVE  ThereInv'
  <1>1. tick[t].pc = "dispatch" /\ tick[t].eff \in Effects /\ JobThere(tick[t].eff)
    BY WorksThere, OpenPlaces DEF DispatchOk, At, ExecPc
  <1>2. PICK c \in Reported : tick' = [tick EXCEPT ![t].pc = "outcome_read",
                                        ![t].status = "completed", ![t].cost = c]
    BY DEF DispatchOk
  <1> DEFINE r == [tick[t] EXCEPT !.pc = "outcome_read", !.status = "completed", !.cost = c]
  <1>3. tick' = [tick EXCEPT ![t] = r]
    BY <1>2 DEF TypeInv, TypeOK
  <1>4. r.pc = "outcome_read" /\ r.cur = tick[t].cur /\ r.eff = tick[t].eff /\ r.todo = tick[t].todo
    BY TickFacts DEF Tick
  <1> HIDE DEF r
  <1>5. OthersSame(t) /\ tick'[t] = r
    BY <1>3, Leaves
  <1>6. TickThere(r, job, reservation)
    BY <1>1, <1>4, TickHasThere DEF TickThere, PlannedAt, SettlePc, JobThere
  <1> QED  BY <1>5, <1>6, QuietThere DEF DispatchOk

\* The executor begins to settle a dispatch that failed.
LEMMA FailsThere ==
    ASSUME TypeInv, ThereInv, NEW t \in Threads, tick[t].then = "executor",
           JobThere(tick[t].eff), NEW c, NEW x,
           BeginSettle(t, tick[t].eff, "failed", c, x)
    PROVE  OthersSame(t) /\ TickThere(tick'[t], job, reservation)
  BY BeginSettleOn, TickHasThere DEF TickThere, PlannedAt, JobThere

LEMMA DispatchErrThere ==
    ASSUME TypeInv, ThereInv, NEW t \in Threads, DispatchErr(t)
    PROVE  ThereInv'
  <1>1. tick[t].pc = "dispatch" /\ tick[t].eff \in Effects /\ JobThere(tick[t].eff)
        /\ tick[t].then = "executor"
    BY WorksThere, OpenPlaces, TickFacts DEF DispatchErr, At, ExecPc, TickOK
  <1>2. PICK x \in Errors :
           \/ tick' = [tick EXCEPT ![t].pc = "retry", ![t].error = x]
           \/ BeginSettle(t, tick[t].eff, "failed", Unknown, x)
    BY DEF DispatchErr
  <1>3. CASE tick' = [tick EXCEPT ![t].pc = "retry", ![t].error = x]
    <2> DEFINE r == [tick[t] EXCEPT !.pc = "retry", !.error = x]
    <2>1. tick' = [tick EXCEPT ![t] = r]
      BY <1>3 DEF TypeInv, TypeOK
    <2>2. r.pc = "retry" /\ r.cur = tick[t].cur /\ SameWork(tick[t], r)
      BY TickFacts DEF Tick, SameWork
    <2> HIDE DEF r
    <2>3. OthersSame(t) /\ tick'[t] = r
      BY <2>1, Leaves
    <2>4. TickThere(r, job, reservation)
      BY <1>1, <2>2, GoesThere, TickHasThere, OpenPlaces DEF ExecPc, SettlePc
    <2> QED  BY <2>3, <2>4, QuietThere DEF DispatchErr
  <1>4. CASE BeginSettle(t, tick[t].eff, "failed", Unknown, x)
    BY <1>1, <1>4, FailsThere, QuietThere DEF DispatchErr
  <1> QED  BY <1>2, <1>3, <1>4

LEMMA ScheduleRetryThere ==
    ASSUME TypeInv, ThereInv, NEW t \in Threads, ScheduleRetry(t)
    PROVE  ThereInv'
  <1> DEFINE e == tick[t].eff
             j == Rescheduled(job[e], tick[t].error)
  <1>1. tick[t].pc = "retry" /\ e \in Effects /\ JobThere(e) /\ tick[t].then = "executor"
    BY WorksThere, OpenPlaces, TickFacts DEF ScheduleRetry, At, ExecPc, TickOK
  <1>2. TypeInv'
    BY ScheduleRetryType
  <1>3. CASE Holds(job[e], tick[t].lease)
    <2>1. GoesOn(t, "reread") /\ job' = [job EXCEPT ![e] = j]
      BY <1>3, GotoOn DEF ScheduleRetry
    <2>2. j.status = "retry_scheduled"
      BY <1>1 DEF Rescheduled, Job, TypeInv, TypeOK
    <2> HIDE DEF j, e
    <2>3. SameJobs
      BY <1>1, <2>1, <2>2, OneJobSame
    <2>4. TickThere(tick'[t], job, reservation)
      BY <1>1, <2>1, GoesThere, TickHasThere, OpenPlaces DEF ExecPc, SettlePc, GoesOn
    <2> QED  BY <1>2, <2>1, <2>3, <2>4, JobStepThere DEF ScheduleRetry, GoesOn
  <1>4. CASE ~Holds(job[e], tick[t].lease)
    BY <1>4, <1>1, FailsThere, QuietThere DEF ScheduleRetry, rows
  <1> QED  BY <1>3, <1>4

LEMMA ReadForOutcomeThere ==
    ASSUME TypeInv, ThereInv, NEW t \in Threads, ReadForOutcome(t)
    PROVE  ThereInv'
  <1> DEFINE e == tick[t].eff
  <1>1. /\ tick[t].pc \in {"outcome_read", "again_read"} /\ e \in Effects /\ JobThere(e)
    BY WorksThere, OpenPlaces DEF ReadForOutcome, At, ExecPc
  <1>2. PICK p \in {"outcome_write", "again_write"} :
           tick' = [tick EXCEPT ![t].pc = p, ![t].row = job[e]]
    BY DEF ReadForOutcome
  <1> DEFINE r == [tick[t] EXCEPT !.pc = p, !.row = job[e]]
  <1>3. tick' = [tick EXCEPT ![t] = r]
    BY <1>2 DEF TypeInv, TypeOK
  <1>4. /\ r.pc = p /\ r.cur = tick[t].cur /\ r.eff = e /\ r.todo = tick[t].todo
        /\ r.row = job[e]
    BY TickFacts DEF Tick
  <1> HIDE DEF r, e
  <1>5. OthersSame(t) /\ tick'[t] = r
    BY <1>3, Leaves
  <1>6. TickThere(r, job, reservation)
    BY <1>1, <1>4, TickHasThere DEF TickThere, PlannedAt, SettlePc, JobThere
  <1> QED  BY <1>5, <1>6, QuietThere DEF ReadForOutcome

LEMMA WriteOutcomeThere ==
    ASSUME TypeInv, ThereInv, NEW t \in Threads, WriteOutcome(t)
    PROVE  ThereInv'
  <1> DEFINE e == tick[t].eff
             j == WithOutcome(tick[t].row)
  <1>1. /\ tick[t].pc \in {"outcome_write", "again_write"} /\ e \in Effects /\ JobThere(e)
        /\ tick[t].row.status # "absent" /\ tick[t].then = "executor"
    BY WorksThere, OpenPlaces, TickHasThere, TickFacts DEF WriteOutcome, At, ExecPc, TickThere, TickOK
  <1>2. TypeInv'
    BY WriteOutcomeType
  <1>3. j.status # "absent" /\ job' = [job EXCEPT ![e] = j]
    BY <1>1, TickFacts DEF WriteOutcome, WithOutcome, Tick, Job
  <1> HIDE DEF j, e
  <1>4. SameJobs
    BY <1>1, <1>3, OneJobSame
  <1>5. OthersSame(t) /\ TickThere(tick'[t], job, reservation)
    <2>1. CASE Goto(t, "settle_effect")
      BY <2>1, GotoOn, <1>1, GoesThere, TickHasThere, OpenPlaces DEF ExecPc, SettlePc, GoesOn
    <2>2. CASE SaveNext(t, tick[t].cur)
      BY <2>2, SavesThere
    <2> QED  BY <2>1, <2>2 DEF WriteOutcome
  <1> QED  BY <1>2, <1>4, <1>5, JobStepThere DEF WriteOutcome

LEMMA EnsureLeaseThere ==
    ASSUME TypeInv, ThereInv, NEW t \in Threads, EnsureLease(t)
    PROVE  ThereInv'
  BY GotoOn, GoesThere, TickHasThere, OpenPlaces, QuietThere DEF EnsureLease, At, ExecPc, SettlePc,
     GoesOn

LEMMA RereadThere ==
    ASSUME TypeInv, ThereInv, NEW t \in Threads, Reread(t)
    PROVE  ThereInv'
  <1> DEFINE e == tick[t].eff
  <1>1. tick[t].pc = "reread" /\ e \in Effects /\ JobThere(e)
    BY WorksThere, OpenPlaces DEF Reread, At, ExecPc
  <1>2. \/ ConsumeCompleted(t, e, job[e]) \/ SaveNext(t, tick[t].cur)
        \/ tick' = [tick EXCEPT ![t].pc = "failed_job", ![t].row = job[e]]
        \/ BeginAbort(t, "failed")
    BY DEF Reread
  <1>3. OthersSame(t) /\ TickThere(tick'[t], job, reservation)
    <2>1. CASE tick' = [tick EXCEPT ![t].pc = "failed_job", ![t].row = job[e]]
      <3> DEFINE r == [tick[t] EXCEPT !.pc = "failed_job", !.row = job[e]]
      <3>1. tick' = [tick EXCEPT ![t] = r]
        BY <2>1 DEF TypeInv, TypeOK
      <3>2. r.pc = "failed_job" /\ r.eff = e /\ r.cur = tick[t].cur /\ r.todo = tick[t].todo
        BY TickFacts DEF Tick
      <3> HIDE DEF r, e
      <3>3. OthersSame(t) /\ tick'[t] = r
        BY <3>1, Leaves
      <3>4. TickThere(r, job, reservation)
        BY <1>1, <3>2, TickHasThere DEF TickThere, PlannedAt, SettlePc, JobThere
      <3> QED  BY <3>3, <3>4
    <2> QED  BY <1>2, <2>1, ConsumeThere, SavesThere
  <1> QED  BY <1>3, QuietThere DEF Reread

LEMMA FailedJobThere ==
    ASSUME TypeInv, ThereInv, NEW t \in Threads, FailedJob(t)
    PROVE  ThereInv'
  <1> DEFINE e == tick[t].eff
             row == tick[t].row
             j == Rescheduled(job[e], row.failure)
  <1>1. tick[t].pc = "failed_job" /\ e \in Effects /\ JobThere(e)
    BY WorksThere, OpenPlaces DEF FailedJob, At
  <1>2. TypeInv'
    BY FailedJobType
  <1>3. CASE job' = [job EXCEPT ![e] = j] /\ SaveNext(t, tick[t].cur)
    <2>1. j.status = "retry_scheduled"
      BY <1>1 DEF Rescheduled, Job, TypeInv, TypeOK
    <2> HIDE DEF j, e
    <2>2. SameJobs
      BY <1>1, <1>3, <2>1, OneJobSame
    <2>3. OthersSame(t) /\ TickThere(tick'[t], job, reservation)
      BY <1>3, SavesThere
    <2> QED  BY <1>2, <2>2, <2>3, JobStepThere DEF FailedJob
  <1>4. CASE /\ job' = job
             /\ SaveNext(t, [tick[t].cur EXCEPT !.next = e + 1, !.pending = NoEffect])
    BY <1>4, ConsumesThere, QuietThere DEF FailedJob, rows
  <1>5. CASE job' = job /\ ConsumeFailed(t, row)
    <2> DEFINE o == IF row.status = "cancelled" THEN "cancelled" ELSE "failed"
               l == [tick[t].cur EXCEPT !.pending = NoEffect]
               r == [tick[t] EXCEPT !.pc = "terminal", !.cur = l, !.out = o]
    <2>1. tick' = [tick EXCEPT ![t] = r]
      BY <1>5 DEF ConsumeFailed
    <2>2. l.pending = NoEffect
      BY TickFacts DEF Cursor
    <2> HIDE DEF l
    <2>3. r.pc = "terminal" /\ r.cur = l /\ r.todo = tick[t].todo
      BY TickFacts DEF Tick
    <2> HIDE DEF r
    <2>4. OthersSame(t) /\ tick'[t] = r
      BY <2>1, Leaves
    <2>5. \A x \in tick[t].todo : x[2] => job[x[1]].status # "absent"
      BY TickHasThere DEF TickThere
    <2>6. TickThere(r, job, reservation)
      BY <2>2, <2>3, <2>5, OpenThere, OpenPlaces
    <2> QED  BY <1>5, <2>4, <2>6, QuietThere DEF FailedJob, rows
  <1> QED  BY <1>3, <1>4, <1>5 DEF FailedJob

LEMMA SettleEffectThere ==
    ASSUME TypeInv, ThereInv, NEW t \in Threads, SettleEffect(t)
    PROVE  ThereInv'
  <1>1. tick[t].pc = "settle_effect" /\ tick[t].eff \in Effects /\ JobThere(tick[t].eff)
    BY WorksThere, OpenPlaces DEF SettleEffect, At, SettlePc
  <1>2. GoesOn(t, "settle_reservation")
    BY GotoOn DEF SettleEffect
  <1>3. TickThere(tick'[t], job, reservation)
    BY <1>1, <1>2, GoesThere, TickHasThere, OpenPlaces DEF SettlePc, GoesOn
  <1> QED  BY <1>1, <1>2, <1>3, EffectStepThere DEF SettleEffect, GoesOn

LEMMA SettleReservationThere ==
    ASSUME TypeInv, ThereInv, NEW t \in Threads, SettleReservation(t)
    PROVE  ThereInv'
  <1> DEFINE e == tick[t].eff
             s == IF tick[t].status = "completed" THEN "committed" ELSE tick[t].status
  <1>1. tick[t].pc = "settle_reservation" /\ e \in Effects /\ JobThere(e)
    BY WorksThere, OpenPlaces DEF SettleReservation, At, SettlePc
  <1>2. s # "reserved" /\ reservation' = [reservation EXCEPT ![e] = s]
    BY <1>1, TickFacts DEF SettleReservation, TickOK, SettlePc
  <1> HIDE DEF s, e
  <1>3. GoesOn(t, "settle_commit")
    BY GotoOn DEF SettleReservation
  <1>4. /\ SameJobs /\ UNCHANGED <<effect, commit, job, cursor>>
        /\ \A d \in Effects : reservation'[d] = "reserved" => reservation[d] = "reserved"
        /\ reservation'[e] # "reserved"
    BY <1>1, <1>2 DEF SettleReservation, SameJobs, TypeInv, TypeOK
  <1>5. TickThere(tick'[t], job, reservation')
    BY TickHasThere, <1>3, <1>1, <1>4 DEF GoesOn, TickThere, SameWork, e, PlannedAt, SettlePc,
       JobThere
  <1>6. ReservesNew /\ RowsThere' /\ OneOfBoth'
    BY <1>4 DEF ReservesNew, ThereInv, RowsThere, OneOfBoth, JobThere
  <1> QED  BY <1>3, <1>4, <1>5, <1>6, ThereStep DEF GoesOn

LEMMA SettleCommitThere ==
    ASSUME TypeInv, ThereInv, NEW t \in Threads, SettleCommit(t)
    PROVE  ThereInv'
  <1> DEFINE e == tick[t].eff
             c == CommitOf(SettledEffectCost(tick[t].status, tick[t].cost, Estimate[e]))
  <1>1. tick[t].pc = "settle_commit" /\ e \in Effects /\ JobThere(e) /\ reservation[e] # "reserved"
    BY WorksThere, OpenPlaces, TickHasThere DEF SettleCommit, At, SettlePc, TickThere
  <1>2. commit' = [commit EXCEPT ![e] = c]
    BY DEF SettleCommit
  <1> HIDE DEF c, e
  <1>3. GoesOn(t, "settle_read")
    BY GotoOn DEF SettleCommit
  <1>4. /\ SameJobs /\ ReservesNew /\ UNCHANGED <<effect, reservation, job, cursor>>
        /\ \A d \in Effects \ {e} : commit'[d] = commit[d]
    BY <1>1, <1>2 DEF SettleCommit, SameJobs, ReservesNew, TypeInv, TypeOK
  <1>5. TickThere(tick'[t], job, reservation)
    BY <1>1, <1>3, GoesThere, TickHasThere, OpenPlaces DEF SettlePc, GoesOn
  <1>6. RowsThere' /\ OneOfBoth'
    BY <1>1, <1>4 DEF ThereInv, RowsThere, OneOfBoth, JobThere
  <1> QED  BY <1>3, <1>4, <1>5, <1>6, ThereStep DEF GoesOn

LEMMA SettleReadThere ==
    ASSUME TypeInv, ThereInv, NEW t \in Threads, SettleRead(t)
    PROVE  ThereInv'
  <1> DEFINE r == [tick[t] EXCEPT !.pc = "settle_job", !.row = job[tick[t].eff]]
  <1>1. tick[t].pc = "settle_read" /\ tick' = [tick EXCEPT ![t] = r]
    BY DEF SettleRead, At, TypeInv, TypeOK
  <1>2. /\ r.pc = "settle_job" /\ r.cur = tick[t].cur /\ r.eff = tick[t].eff
        /\ r.todo = tick[t].todo /\ r.then = tick[t].then /\ r.status = tick[t].status
        /\ r.cost = tick[t].cost
    BY TickFacts DEF Tick
  <1> HIDE DEF r
  <1>3. OthersSame(t) /\ tick'[t] = r
    BY <1>1, Leaves
  <1>4. TickThere(r, job, reservation)
    BY <1>1, <1>2, TickHasThere, OpenPlaces DEF TickThere, PlannedAt, SettlePc
  <1> QED  BY <1>3, <1>4, QuietThere DEF SettleRead

LEMMA SettleJobThere ==
    ASSUME TypeInv, ThereInv, NEW t \in Threads, SettleJob(t)
    PROVE  ThereInv'
  <1> DEFINE e == tick[t].eff
             x == IF tick[t].status = "completed" THEN "none" ELSE tick[t].error
             j == Settled(tick[t].row, tick[t].status, x)
  <1>1. tick[t].pc = "settle_job" /\ e \in Effects /\ JobThere(e)
    BY WorksThere, OpenPlaces DEF SettleJob, At, SettlePc
  <1>2. tick[t].status # "absent" /\ tick[t].row \in Job
    BY <1>1, TickFacts DEF TickOK, SettlePc, Tick
  <1>3. j.status # "absent" /\ job' = [job EXCEPT ![e] = j]
    BY <1>2 DEF SettleJob, Settled, Job
  <1> HIDE DEF j, e
  <1>4. SameJobs
    BY <1>1, <1>3, OneJobSame
  <1>5. GoesOn(t, "settle_ledger")
    BY GotoOn DEF SettleJob
  <1>6. TickThere(tick'[t], job, reservation)
    BY <1>1, <1>5, GoesThere, TickHasThere, OpenPlaces DEF SettlePc, GoesOn
  <1>7. TypeInv'
    BY SettleJobType
  <1> QED  BY <1>4, <1>5, <1>6, <1>7, JobStepThere DEF SettleJob, GoesOn

LEMMA SettleLedgerThere ==
    ASSUME TypeInv, ThereInv, NEW t \in Threads, SettleLedger(t)
    PROVE  ThereInv'
  <1>1. /\ tick[t].pc = "settle_ledger"
        /\ tick[t].then \in {"executor", "abort_list", "abort_next"}
    BY TickFacts DEF SettleLedger, At, Tick
  <1>2. \/ tick[t].then = "executor" /\ (GoesOn(t, "reread") \/ GoesOn(t, "ensure"))
        \/ GoesOn(t, "error") \/ GoesOn(t, "abort_list") \/ GoesOn(t, "abort_next")
    BY <1>1, GotoOn DEF SettleLedger
  <1>3. TickThere(tick'[t], job, reservation)
    <2>1. CASE GoesOn(t, "reread") \/ GoesOn(t, "ensure")
      BY <1>1, <2>1, GoesThere, TickHasThere, OpenPlaces DEF ExecPc, SettlePc, GoesOn
    <2>2. CASE GoesOn(t, "error") \/ GoesOn(t, "abort_list") \/ GoesOn(t, "abort_next")
      BY <2>2, GoesOpen, TickHasThere, OpenPlaces DEF GoesOn, SameWork
    <2> QED  BY <1>2, <2>1, <2>2
  <1> QED  BY <1>2, <1>3, QuietThere DEF SettleLedger, GoesOn

\* An abort begins to settle an effect that has its job.
LEMMA AbortsThere ==
    ASSUME TypeInv, ThereInv, NEW t \in Threads, tick[t].pc \in AbortPc,
           NEW e, job[e].status # "absent", NEW left \in SUBSET tick[t].todo,
           NEW th, AbortSettle(t, e, th, left)
    PROVE  OthersSame(t) /\ TickThere(tick'[t], job, reservation)
  BY AbortSettleOn, TickFacts, TickHasThere DEF TickOK, TickThere, PlannedAt

LEMMA AbortJobThere ==
    ASSUME TypeInv, ThereInv, NEW t \in Threads, AbortJob(t)
    PROVE  ThereInv'
  <1> DEFINE e == tick[t].cur.pending
  <1>1. tick[t].pc \in AbortPc
    BY DEF AbortJob, At, AbortPc
  <1>2. \/ e # NoEffect /\ AbortSettle(t, e, "abort_list", {})
        \/ Goto(t, "abort_list")
    BY DEF AbortJob
  <1>3. e # NoEffect => job[e].status # "absent"
    BY TickHasThere DEF TickThere
  <1> HIDE DEF e
  <1>4. OthersSame(t) /\ TickThere(tick'[t], job, reservation)
    BY <1>1, <1>2, <1>3, AbortsThere, SavesThere, OpenPlaces
  <1> QED  BY <1>4, QuietThere DEF AbortJob

LEMMA AbortListThere ==
    ASSUME TypeInv, ThereInv, NEW t \in Threads, AbortList(t)
    PROVE  ThereInv'
  <1> DEFINE open == {e \in Effects : effect[e].status \in {"planned", "running"}}
             list == {<<e, effect[e].linked>> : e \in open}
             r == [tick[t] EXCEPT !.pc = "abort_next", !.todo = list]
  <1>1. \A x \in list : x[2] => job[x[1]].status # "absent"
    BY DEF ThereInv, RowsThere, JobThere
  <1>2. tick' = [tick EXCEPT ![t] = r]
    BY DEF AbortList, TypeInv, TypeOK
  <1> HIDE DEF list
  <1>3. r.pc = "abort_next" /\ r.cur = tick[t].cur /\ r.todo = list
    BY TickFacts DEF Tick
  <1> HIDE DEF r
  <1>4. OthersSame(t) /\ tick'[t] = r
    BY <1>2, Leaves
  <1>5. tick[t].cur.pending # NoEffect => job[tick[t].cur.pending].status # "absent"
    BY TickHasThere DEF TickThere
  <1>6. TickThere(r, job, reservation)
    BY <1>1, <1>3, <1>5, OpenThere, OpenPlaces
  <1> QED  BY <1>4, <1>6, QuietThere DEF AbortList

LEMMA AbortNextThere ==
    ASSUME TypeInv, ThereInv, NEW t \in Threads, AbortNext(t)
    PROVE  ThereInv'
  <1> DEFINE list == tick[t].todo
  <1>1. tick[t].pc \in AbortPc /\ \A x \in list : x[2] => job[x[1]].status # "absent"
    BY TickHasThere DEF AbortNext, At, AbortPc, TickThere
  <1>2. CASE Goto(t, "terminal") /\ effect' = effect
    BY <1>2, SavesThere, QuietThere, OpenPlaces DEF AbortNext, rows
  <1>3. ASSUME NEW x \in list, x[2], AbortSettle(t, x[1], "abort_next", list \ {x}),
               effect' = effect
        PROVE  ThereInv'
    BY <1>1, <1>3, AbortsThere, QuietThere DEF AbortNext, rows
  <1>4. ASSUME NEW x \in list, tick' = [tick EXCEPT ![t].todo = list \ {x}],
               effect' = [effect EXCEPT ![x[1]] = [status |-> tick[t].out, linked |-> FALSE]]
        PROVE  ThereInv'
    <2> DEFINE left == list \ {x}
               r == [tick[t] EXCEPT !.todo = left]
    <2>1. tick' = [tick EXCEPT ![t] = r]
      BY <1>4 DEF TypeInv, TypeOK
    <2>2. r.pc = "abort_next" /\ r.cur = tick[t].cur /\ r.todo = left
      BY TickFacts DEF Tick, AbortNext, At
    <2>3. \A y \in left : y[2] => job[y[1]].status # "absent"
      BY <1>1
    <2> HIDE DEF r, left
    <2>4. OthersSame(t) /\ tick'[t] = r
      BY <2>1, Leaves
    <2>5. tick[t].cur.pending # NoEffect => job[tick[t].cur.pending].status # "absent"
      BY TickHasThere DEF TickThere
    <2>6. TickThere(r, job, reservation)
      BY <2>2, <2>3, <2>5, OpenThere, OpenPlaces
    <2>7. UNCHANGED <<reservation, commit, job, cursor>>
      BY DEF AbortNext
    <2>8. \A e \in Effects : effect'[e].linked => effect[e].linked
      BY <1>4 DEF TypeInv, TypeOK, EffectRow
    <2>9. SameJobs /\ ReservesNew /\ RowsThere' /\ OneOfBoth'
      BY <2>7, <2>8 DEF SameJobs, ReservesNew, ThereInv, RowsThere, OneOfBoth, JobThere
    <2> QED  BY <2>4, <2>6, <2>7, <2>9, ThereStep
  <1>5. \/ Goto(t, "terminal") /\ effect' = effect
        \/ \E x \in list : /\ x[2] /\ AbortSettle(t, x[1], "abort_next", list \ {x})
                           /\ effect' = effect
        \/ \E x \in list :
              /\ effect' = [effect EXCEPT ![x[1]] = [status |-> tick[t].out, linked |-> FALSE]]
              /\ tick' = [tick EXCEPT ![t].todo = list \ {x}]
    BY DEF AbortNext
  <1> QED  BY <1>2, <1>3, <1>4, <1>5

LEMMA TickStepThere ==
    ASSUME AttemptInv, ThereInv, NEW t \in Threads, TickStep(t)
    PROVE  ThereInv'
  <1> TypeInv
    BY DEF AttemptInv
  <1> QED
    BY LoadThere, CheckCancelledThere, PlanExistingThere, PlanNewThere, FinalizeThere,
       RecordPlannedThere, AdmitThere, RejectThere, ReserveThere, EnqueueThere, LinkThere,
       SaveCursorThere, PendingJobThere, ClaimThere, MarkRunningThere, RecordRunningThere,
       DispatchOkThere, DispatchErrThere, ScheduleRetryThere, ReadForOutcomeThere,
       WriteOutcomeThere, EnsureLeaseThere, RereadThere, FailedJobThere, SettleEffectThere,
       SettleReservationThere, SettleCommitThere, SettleReadThere, SettleJobThere,
       SettleLedgerThere, AbortJobThere, AbortListThere, AbortNextThere, TerminalizeThere,
       FinishThere DEF TickStep

LEMMA AroundThere ==
    ASSUME TypeInv, ThereInv, Around \/ UNCHANGED vars
    PROVE  ThereInv'
  <1>1. ASSUME tick' = tick, SameJobs, UNCHANGED <<effect, reservation, commit, cursor>>
        PROVE  ThereInv'
    BY <1>1, TickFacts, TickHasThere, StaysThere DEF ReservesNew, TypeInv, TypeOK, Cursor,
       ThereInv, RowsThere, OneOfBoth, JobThere, SameJobs, TicksThere
  <1>2. ASSUME NEW e \in Effects, Expire(e) \/ BecomeDue(e) PROVE ThereInv'
    <2>1. job \in [Effects -> Job]
      BY DEF TypeInv, TypeOK
    <2>2. SameJobs
      BY <1>2, <2>1 DEF Expire, BecomeDue, SameJobs, Job
    <2> QED  BY <1>1, <1>2, <2>2 DEF Expire, BecomeDue
  <1>3. CASE Recover
    BY <1>1, <1>3, RecoveredSame DEF Recover, SameJobs
  <1>4. CASE Cancel \/ UNCHANGED vars \/ \E w \in Workers : Steal(w)
    BY <1>4, <1>1 DEF Cancel, Steal, vars, rows, SameJobs
  <1>5. CASE Crash
    BY <1>5, OpenThere, OpenPlaces DEF Crash, Resting, NewCursor, rows, ThereInv, RowsThere,
       OneOfBoth, JobThere, TicksThere
  <1> QED  BY <1>2, <1>3, <1>4, <1>5 DEF Around

LEMMA InitThere == Init => ThereInv
  <1> SUFFICES ASSUME Init PROVE ThereInv
    OBVIOUS
  <1>1. Resting.pc = "idle" /\ Resting.cur.pending = NoEffect /\ Resting.todo = {}
    BY DEF Resting, NewCursor
  <1>2. TickThere(Resting, job, reservation)
    BY <1>1, OpenThere, OpenPlaces
  <1>3. TicksThere
    BY <1>2 DEF Init, TicksThere
  <1>4. RowsThere
    BY DEF Init, RowsThere, NewCursor, NoCommit
  <1>5. OneOfBoth
    BY DEF Init, OneOfBoth
  <1> QED  BY <1>3, <1>4, <1>5 DEF ThereInv

-----------------------------------------------------------------------------
(* The limit *)

LEMMA EffectsFinite == IsFiniteSet(Effects) /\ \A e \in Effects : IsFiniteSet(Effects \ {e})
  <1>1. IsFiniteSet(Effects)
    BY EffectsAssumption, FS_Interval DEF Effects
  <1>2. ASSUME NEW e \in Effects PROVE IsFiniteSet(Effects \ {e})
    BY <1>1, FS_RemoveElement
  <1> QED  BY <1>1, <1>2

Amounts == [Effects -> Int]

LEMMA LimitIsNat == MaxCost # NoLimit => MaxCost \in Nat
  BY LedgerAssumption

LEMMA LowerFits ==
    ASSUME NEW f \in Amounts, NEW g \in Amounts, \A e \in Effects : g[e] <= f[e], Fits(f)
    PROVE  Fits(g)
  <1> DEFINE x == SumFunctionOnSet(f, Effects)
             y == SumFunctionOnSet(g, Effects)
  <1>1. y <= x
    BY EffectsFinite, SumsOrdered DEF Amounts
  <1>2. x \in Int /\ y \in Int
    BY EffectsFinite, SumTakes DEF Amounts
  <1>3. MaxCost # NoLimit => x <= MaxCost
    BY DEF Fits
  <1> HIDE DEF x, y
  <1>4. MaxCost # NoLimit => y <= MaxCost
    BY <1>1, <1>2, <1>3, LimitIsNat
  <1> QED  BY <1>4 DEF Fits, y

LEMMA RoomKept ==
    ASSUME NEW f \in Amounts, NEW g \in Amounts, NEW e \in Effects, Room(f, e),
           \A d \in Effects \ {e} : g[d] <= f[d]
    PROVE  Room(g, e)
  <1> DEFINE S == Effects \ {e}
             x == SumFunctionOnSet(f, S)
             y == SumFunctionOnSet(g, S)
             n == Estimate[e]
  <1>0. IsFiniteSet(S) /\ \A d \in S : f[d] \in Int /\ g[d] \in Int /\ g[d] <= f[d]
    BY EffectsFinite DEF Amounts
  <1>1. y <= x /\ x \in Int /\ y \in Int
    <2> HIDE DEF S
    <2> QED  BY <1>0, SumsOrdered, SumTakes
  <1>2. MaxCost # NoLimit => x + n <= MaxCost
    BY DEF Room
  <1>3. n \in Int
    BY EffectsAssumption
  <1> HIDE DEF x, y, n
  <1>4. MaxCost # NoLimit => y + n <= MaxCost
    BY <1>1, <1>2, <1>3, LimitIsNat
  <1> QED  BY <1>4 DEF Room, y, n

LEMMA RoomFits ==
    ASSUME NEW f \in Amounts, NEW g \in Amounts, NEW e \in Effects, Room(f, e),
           g[e] <= Estimate[e], \A d \in Effects \ {e} : g[d] <= f[d]
    PROVE  Fits(g)
  <1> DEFINE S == Effects \ {e}
             y == SumFunctionOnSet(g, S)
             z == SumFunctionOnSet(g, Effects)
             n == Estimate[e]
  <1>1. MaxCost # NoLimit => y + n <= MaxCost
    BY RoomKept DEF Room
  <1>2. z = g[e] + y /\ z \in Int
    BY EffectsFinite, SumTakes DEF Amounts
  <1>3. IsFiniteSet(S) /\ \A d \in S : g[d] \in Int
    BY EffectsFinite DEF Amounts
  <1>4. y \in Int /\ n \in Int /\ g[e] \in Int
    <2>1. n \in Int /\ g[e] \in Int
      BY EffectsAssumption DEF Amounts
    <2> HIDE DEF S
    <2> QED  BY <1>3, <2>1, SumTakes
  <1>5. g[e] <= n
    OBVIOUS
  <1> HIDE DEF y, z, n
  <1>6. MaxCost # NoLimit => z <= MaxCost
    BY <1>1, <1>2, <1>4, <1>5, LimitIsNat
  <1> QED  BY <1>6 DEF Fits, z

LEMMA ChargeFacts ==
    ASSUME NEW com \in Commit, NEW est \in Nat, NEW res
    PROVE  /\ ChargeOf(res, com, est) \in Int
           /\ 0 <= ChargeOf(res, com, est) /\ ChargeOf(res, com, est) <= est
  BY LedgerAssumption DEF ChargeOf, Commit, Cost

LEMMA ChargesFacts ==
    ASSUME NEW com \in [Effects -> Commit], NEW res
    PROVE  /\ Charges(res, com) \in Amounts
           /\ \A e \in Effects : /\ Charges(res, com)[e] = ChargeOf(res[e], com[e], Estimate[e])
                                 /\ 0 <= Charges(res, com)[e]
                                 /\ Charges(res, com)[e] <= Estimate[e]
  BY ChargeFacts, EffectsAssumption DEF Charges, Amounts

\* What the ledger counts of an effect.
SpentOf(e)   == IF commit[e].there THEN commit[e].cost ELSE 0
HeldOf(e)    == IF reservation[e] = "reserved" THEN Estimate[e] ELSE 0
Counted      == [e \in Effects |-> SpentOf(e) + HeldOf(e)]
AllKnown     == \A e \in Effects : commit[e].there => commit[e].cost \in Nat

LEMMA LedgerCounts ==
    ASSUME TypeInv, Ledger # Unknown
    PROVE  AllKnown /\ Counted \in Amounts /\ Ledger = SumFunctionOnSet(Counted, Effects)
  <1> DEFINE paid == {e \in DOMAIN commit : commit[e].there}
             open == {e \in DOMAIN reservation : reservation[e] = "reserved"}
             f == [e \in paid |-> commit[e].cost]
             spent == [e \in Effects |-> SpentOf(e)]
             held  == [e \in Effects |-> HeldOf(e)]
  <1>1. paid = {e \in Effects : commit[e].there} /\ open = {e \in Effects : reservation[e] = "reserved"}
    BY DEF TypeInv, TypeOK
  <1>2. /\ ~\E e \in paid : commit[e].cost = Unknown
        /\ Ledger = SumFunctionOnSet(f, paid) + SumFunctionOnSet(Estimate, open)
    BY DEF Ledger, Current, SpentCost, HeldCost
  <1>3. AllKnown
    BY <1>1, <1>2 DEF AllKnown, TypeInv, TypeOK, Commit, Cost
  <1>4. /\ \A e \in Effects : spent[e] = IF e \in paid THEN f[e] ELSE 0
        /\ \A e \in paid : f[e] \in Int /\ paid \in SUBSET Effects
    BY <1>1, <1>3 DEF SpentOf, AllKnown
  <1>5. /\ \A e \in Effects : held[e] = IF e \in open THEN Estimate[e] ELSE 0
        /\ \A e \in open : Estimate[e] \in Int /\ open \in SUBSET Effects
    BY <1>1, EffectsAssumption DEF HeldOf
  <1>6. \A e \in Effects : spent[e] \in Int /\ held[e] \in Int /\ Counted[e] = spent[e] + held[e]
    BY <1>3, EffectsAssumption DEF SpentOf, HeldOf, AllKnown, Counted
  <1>7. Counted \in Amounts
    BY <1>6 DEF Counted, Amounts
  <1>8. paid \in SUBSET Effects /\ open \in SUBSET Effects
    BY <1>1
  <1> HIDE DEF paid, open, f, spent, held
  <1>9. SumFunctionOnSet(f, paid) = SumFunctionOnSet(spent, Effects)
    BY <1>4, <1>8, EffectsFinite, SumOfPart
  <1>10. SumFunctionOnSet(Estimate, open) = SumFunctionOnSet(held, Effects)
    BY <1>5, <1>8, EffectsFinite, SumOfPart
  <1>11. SumFunctionOnSet(Counted, Effects) = SumFunctionOnSet(spent, Effects) + SumFunctionOnSet(held, Effects)
    BY <1>6, EffectsFinite, SumsAdd
  <1> QED  BY <1>2, <1>3, <1>7, <1>9, <1>10, <1>11

\* An admitted effect finds room.
LEMMA AdmitRoom ==
    ASSUME TypeInv, ThereInv, NEW e \in Effects, ~BreachForRequest(Ledger, Estimate[e])
    PROVE  Room(Charges(reservation, commit), e)
  <1> DEFINE f == Charges(reservation, commit)
  <1>1. SUFFICES ASSUME MaxCost # NoLimit PROVE Room(f, e)
    BY DEF Room
  <1>2. Ledger # Unknown /\ ~(Ledger >= MaxCost) /\ ~(Estimate[e] > MaxCost - Ledger)
    BY <1>1 DEF BreachForRequest
  <1>3. AllKnown /\ Counted \in Amounts /\ Ledger = SumFunctionOnSet(Counted, Effects)
    BY <1>2, LedgerCounts
  <1>4. f \in Amounts /\ \A d \in Effects : f[d] = ChargeOf(reservation[d], commit[d], Estimate[d])
    BY ChargesFacts DEF TypeInv, TypeOK
  <1>5. \A d \in Effects : f[d] <= Counted[d] /\ 0 <= Counted[d]
    BY <1>3, <1>4, EffectsAssumption DEF AllKnown, Counted, SpentOf, HeldOf, ChargeOf
  <1> DEFINE S == Effects \ {e}
             x == SumFunctionOnSet(f, S)
             y == SumFunctionOnSet(Counted, S)
             n == Estimate[e]
             l == Ledger
  <1>6. IsFiniteSet(S) /\ \A d \in S : f[d] \in Int /\ Counted[d] \in Int /\ f[d] <= Counted[d]
    BY <1>3, <1>4, <1>5, EffectsFinite DEF Amounts
  <1>7. x <= y /\ x \in Int /\ y \in Int
    <2> HIDE DEF S, f
    <2> QED  BY <1>6, SumsOrdered, SumTakes
  <1>8. l = Counted[e] + y /\ l \in Int
    BY <1>3, EffectsFinite, SumTakes DEF Amounts
  <1>9. Counted[e] \in Int /\ 0 <= Counted[e] /\ n \in Int
    BY <1>3, <1>5, EffectsAssumption DEF Amounts
  <1>10. ~(n > MaxCost - l)
    BY <1>2
  <1> HIDE DEF x, y, n, l
  <1>11. x + n <= MaxCost
    BY <1>1, <1>7, <1>8, <1>9, <1>10, LimitIsNat
  <1> QED  BY <1>11 DEF Room, x, n

-----------------------------------------------------------------------------
(* Where a step leaves the cursor *)

Places == PlanPc \cup {"check"}

\* The cursor row stays, or follows the tick's own copy.
Follows(t) == cursor' = cursor \/ (tick[t].pc # "idle" /\ cursor'.next = tick[t].cur.next)

PlansStep(t) == /\ tick[t].pc \in Places /\ tick'[t].pc \in PlanPc
                /\ tick'[t].cur = tick[t].cur /\ cursor' = cursor
                /\ tick'[t].pc = "reserve" => Admit(t)

EndsStep(t)  == tick'[t].pc = "idle" /\ Follows(t)

MovesStep(t) == /\ tick'[t].pc \notin Places /\ tick'[t].cur.next = tick[t].cur.next
                /\ tick[t].pc # "idle" /\ Follows(t)

\* The cursor passes the effect it stands at.
PassesStep(t) ==
    /\ tick[t].pc # "idle" /\ tick'[t].pc = "save" /\ cursor' = cursor /\ job' = job
    /\ tick'[t].cur.next = tick[t].cur.next + 1
    /\ \/ job[tick[t].cur.next].status \in JobTerminal
       \/ tick[t].pc = "failed_job" /\ tick[t].eff = tick[t].cur.next

CursorSteps(t) == PlansStep(t) \/ EndsStep(t) \/ MovesStep(t) \/ PassesStep(t)

LEMMA GotoMoves ==
    ASSUME TypeInv, NEW t \in Threads, NEW p \in TickPc \ Places, tick[t].pc # "idle",
           GoesOn(t, p), cursor' = cursor
    PROVE  CursorSteps(t)
  BY DEF GoesOn, CursorSteps, MovesStep, Follows

LEMMA RecordMoves ==
    ASSUME TypeInv, NEW t \in Threads, NEW r, tick' = [tick EXCEPT ![t] = r],
           r.pc \in TickPc \ Places, r.cur.next = tick[t].cur.next, tick[t].pc # "idle",
           cursor' = cursor
    PROVE  CursorSteps(t)
  BY Leaves DEF CursorSteps, MovesStep, Follows

LEMMA SaveMoves ==
    ASSUME TypeInv, NEW t \in Threads, NEW k, SaveNext(t, k), k.next = tick[t].cur.next,
           tick[t].pc # "idle", cursor' = cursor
    PROVE  CursorSteps(t)
  BY SaveNextOn DEF TickPc, Places, PlanPc, CursorSteps, MovesStep, Follows

LEMMA AbortMoves ==
    ASSUME TypeInv, NEW t \in Threads, tick[t].pc # "idle", cursor' = cursor,
           \/ \E s : BeginAbort(t, s)
           \/ \E e, th, left : AbortSettle(t, e, th, left)
           \/ \E e, s, c, x : BeginSettle(t, e, s, c, x)
    PROVE  CursorSteps(t)
  BY BeginAbortOn, AbortSettleOn, BeginSettleOn DEF TickPc, Places, PlanPc, SettlePc, GoesOn,
     CursorSteps, MovesStep, Follows

LEMMA PlanSteps ==
    ASSUME TypeInv, NEW t \in Threads,
           CheckCancelled(t) \/ RecordPlanned(t) \/ Admit(t) \/ Reserve(t) \/ Enqueue(t)
    PROVE  CursorSteps(t)
  <1>1. tick[t].pc \in Places /\ tick[t].pc # "idle" /\ cursor' = cursor
    BY DEF CheckCancelled, RecordPlanned, Admit, Reserve, Enqueue, At, Places, PlanPc
  <1>2. CASE CheckCancelled(t)
    <2>1. \/ BeginAbort(t, "cancelled") \/ BeginAbort(t, "failed")
          \/ Goto(t, "plan") \/ Goto(t, "pending")
      BY <1>2 DEF CheckCancelled
    <2>2. CASE Goto(t, "plan")
      BY <1>1, <2>2, GotoOn DEF GoesOn, CursorSteps, PlansStep, PlanPc
    <2>3. CASE Goto(t, "pending")
      BY <1>1, <2>3, GotoOn, GotoMoves DEF TickPc, Places, PlanPc, ExecPc
    <2> QED  BY <1>1, <2>1, <2>2, <2>3, AbortMoves
  <1>3. CASE RecordPlanned(t) \/ Reserve(t) \/ Enqueue(t)
    <2>1. PICK p \in {"admit", "enqueue", "link"} : Goto(t, p)
      BY <1>3 DEF RecordPlanned, Reserve, Enqueue
    <2> QED  BY <1>1, <2>1, GotoOn DEF GoesOn, CursorSteps, PlansStep, PlanPc
  <1>4. CASE Admit(t)
    <2>1. PICK p \in {"reject", "reserve"} : Goto(t, p)
      BY <1>4 DEF Admit
    <2> QED  BY <1>1, <1>4, <2>1, GotoOn DEF GoesOn, CursorSteps, PlansStep, PlanPc
  <1> QED  BY <1>2, <1>3, <1>4

LEMMA PlanNewSteps ==
    ASSUME TypeInv, NEW t \in Threads, PlanNew(t)
    PROVE  CursorSteps(t)
  <1> DEFINE r == [tick[t] EXCEPT !.pc = "record", !.eff = tick[t].cur.next]
  <1>1. tick' = [tick EXCEPT ![t] = r]
    BY DEF PlanNew, TypeInv, TypeOK
  <1>2. r.pc = "record" /\ r.cur = tick[t].cur
    BY TickFacts DEF Tick
  <1> HIDE DEF r
  <1>3. tick'[t] = r
    BY <1>1, Leaves
  <1> QED  BY <1>2, <1>3 DEF PlanNew, At, CursorSteps, PlansStep, Places, PlanPc

LEMMA EndSteps ==
    ASSUME TypeInv, NEW t \in Threads, SaveCursor(t) \/ Finish(t) \/ FinishWithError(t)
    PROVE  CursorSteps(t)
  <1>1. tick'[t].pc = "idle"
    BY EndTickOn DEF SaveCursor, Finish, FinishWithError
  <1>2. CASE SaveCursor(t)
    <2> DEFINE l == [tick[t].cur EXCEPT !.seq = @ + 1]
    <2>1. l.next = tick[t].cur.next /\ cursor' = Persist(cursor, l) /\ tick[t].pc # "idle"
      BY <1>2, TickFacts DEF Cursor, SaveCursor, At
    <2> HIDE DEF l
    <2> QED  BY <1>1, <2>1 DEF Persist, Follows, CursorSteps, EndsStep
  <1>3. CASE Finish(t) \/ FinishWithError(t)
    BY <1>1, <1>3 DEF Finish, FinishWithError, CursorSteps, EndsStep, Follows
  <1> QED  BY <1>2, <1>3

LEMMA TerminalSteps ==
    ASSUME TypeInv, NEW t \in Threads, Terminalize(t)
    PROVE  CursorSteps(t)
  <1> DEFINE l == [tick[t].cur EXCEPT !.seq = @ + 1, !.phase = tick[t].out]
  <1>1. l.next = tick[t].cur.next /\ cursor' = Persist(cursor, l) /\ tick[t].pc # "idle"
    BY TickFacts DEF Cursor, Terminalize, At
  <1> HIDE DEF l
  <1>2. GoesOn(t, "finish") /\ "finish" \notin Places
    BY GotoOn DEF Terminalize, Places, PlanPc
  <1> QED  BY <1>1, <1>2 DEF GoesOn, Persist, Follows, CursorSteps, MovesStep

\* Statements that only go on to another place.
LEMMA GoingSteps ==
    ASSUME TypeInv, NEW t \in Threads,
           \/ Reject(t) \/ RecordRunning(t) \/ EnsureLease(t) \/ SettleEffect(t)
           \/ SettleReservation(t) \/ SettleCommit(t) \/ SettleJob(t) \/ SettleLedger(t)
    PROVE  CursorSteps(t)
  <1>1. tick[t].pc # "idle" /\ cursor' = cursor
    BY DEF Reject, RecordRunning, EnsureLease, SettleEffect, SettleReservation, SettleCommit,
           SettleJob, SettleLedger, At
  <1>2. tick[t].then \in {"executor", "abort_list", "abort_next"}
    BY TickFacts DEF Tick
  <1>3. PICK p \in {"error", "dispatch", "again_read", "reread", "settle_reservation",
                    "settle_commit", "settle_read", "settle_ledger", "ensure", "abort_list",
                    "abort_next"} : Goto(t, p)
    BY <1>2 DEF Reject, Err, RecordRunning, EnsureLease, SettleEffect, SettleReservation,
                SettleCommit, SettleJob, SettleLedger
  <1>4. p \in TickPc \ Places
    BY DEF TickPc, Places, PlanPc, ExecPc, SettlePc
  <1> QED  BY <1>1, <1>3, <1>4, GotoOn, GotoMoves

LEMMA PlainPlaces ==
    {"terminal", "run", "claim", "failed_job", "mark", "outcome_read", "retry", "reread",
     "outcome_write", "again_write", "settle_effect", "settle_job", "abort_next",
     "abort_list", "save"} \subseteq TickPc \ Places
  BY DEF TickPc, Places, PlanPc, ExecPc, SettlePc

LEMMA SavingSteps ==
    ASSUME TypeInv, NEW t \in Threads, PlanExisting(t) \/ Link(t)
    PROVE  CursorSteps(t)
  <1>1. tick[t].pc # "idle" /\ cursor' = cursor
    BY DEF PlanExisting, Link, At
  <1>2. PICK d : SaveNext(t, [tick[t].cur EXCEPT !.pending = d])
    BY DEF PlanExisting, Link
  <1> DEFINE l == [tick[t].cur EXCEPT !.pending = d]
  <1>3. l.next = tick[t].cur.next
    BY TickFacts DEF Cursor
  <1> HIDE DEF l
  <1>4. SaveNext(t, l)
    BY <1>2 DEF l
  <1> QED  BY <1>1, <1>3, <1>4, SaveMoves

LEMMA FinalizeSteps ==
    ASSUME TypeInv, NEW t \in Threads, Finalize(t)
    PROVE  CursorSteps(t)
  <1> DEFINE r == [tick[t] EXCEPT !.pc = "terminal", !.out = "completed"]
  <1>1. tick' = [tick EXCEPT ![t] = r] /\ tick[t].pc # "idle" /\ cursor' = cursor
    BY DEF Finalize, At, TypeInv, TypeOK
  <1>2. r.pc = "terminal" /\ r.cur = tick[t].cur
    BY TickFacts DEF Tick
  <1> HIDE DEF r
  <1> QED  BY <1>1, <1>2, RecordMoves, PlainPlaces

\* The effect at which the cursor stands is passed when its job is over.
LEMMA PassSteps ==
    ASSUME TypeInv, NEW t \in Threads, NEW e, e = tick[t].cur.next,
           SaveNext(t, [tick[t].cur EXCEPT !.next = e + 1, !.pending = NoEffect]),
           tick[t].pc # "idle", cursor' = cursor, job' = job,
           job[e].status \in JobTerminal \/ (tick[t].pc = "failed_job" /\ tick[t].eff = e)
    PROVE  CursorSteps(t)
  <1> DEFINE l == [tick[t].cur EXCEPT !.next = e + 1, !.pending = NoEffect]
  <1>1. l.next = e + 1
    BY TickFacts DEF Cursor
  <1> HIDE DEF l
  <1>2. tick'[t].pc = "save" /\ tick'[t].cur = l
    BY SaveNextOn DEF l
  <1> QED  BY <1>1, <1>2 DEF CursorSteps, PassesStep

LEMMA ConsumeSteps ==
    ASSUME TypeInv, NEW t \in Threads, NEW e, e = tick[t].cur.next,
           ConsumeCompleted(t, e, job[e]), job[e].status = "completed",
           tick[t].pc # "idle", cursor' = cursor, job' = job
    PROVE  CursorSteps(t)
  <1>1. CASE Goto(t, "error")
    <2>1. "error" \in TickPc \ Places
      BY DEF TickPc, Places, PlanPc
    <2> QED  BY <1>1, <2>1, GotoOn, GotoMoves
  <1>2. CASE SaveNext(t, [tick[t].cur EXCEPT !.next = e + 1, !.pending = NoEffect])
    BY <1>2, PassSteps DEF JobTerminal
  <1> QED  BY <1>1, <1>2 DEF ConsumeCompleted, Err

LEMMA StandsAt ==
    ASSUME TypeInv, Backed, NEW t \in Threads
    PROVE  /\ tick[t].cur.pending \in {NoEffect, tick[t].cur.next}
           /\ tick[t].pc \in HeldAt \/ (tick[t].pc \in SettlePc /\ tick[t].then = "executor") =>
                tick[t].eff = tick[t].cur.next
  BY DEF Backed, TicksBacked, TickBacked, CursorBacked

LEMMA PendingJobSteps ==
    ASSUME TypeInv, Backed, NEW t \in Threads, PendingJob(t)
    PROVE  CursorSteps(t)
  <1> DEFINE e == tick[t].cur.pending
  <1>1. tick[t].pc # "idle" /\ cursor' = cursor /\ job' = job
    BY DEF PendingJob, At, rows
  <1>2. e = tick[t].cur.next
    BY TickFacts, EffectsAssumption, StandsAt DEF PendingJob, At, TickOK, Effects, NoEffect
  <1>3. \/ tick' = [tick EXCEPT ![t].pc = "claim", ![t].eff = e]
        \/ EndTick(t)
        \/ job[e].status = "completed" /\ ConsumeCompleted(t, e, job[e])
        \/ tick' = [tick EXCEPT ![t].pc = "failed_job", ![t].eff = e, ![t].row = job[e]]
    BY DEF PendingJob
  <1>4. CASE tick' = [tick EXCEPT ![t].pc = "claim", ![t].eff = e]
    <2> DEFINE r == [tick[t] EXCEPT !.pc = "claim", !.eff = e]
    <2>1. tick' = [tick EXCEPT ![t] = r]
      BY <1>4 DEF TypeInv, TypeOK
    <2>2. r.pc = "claim" /\ r.cur = tick[t].cur
      BY TickFacts DEF Tick
    <2> HIDE DEF r, e
    <2> QED  BY <1>1, <2>1, <2>2, RecordMoves, PlainPlaces
  <1>5. CASE tick' = [tick EXCEPT ![t].pc = "failed_job", ![t].eff = e, ![t].row = job[e]]
    <2> DEFINE r == [tick[t] EXCEPT !.pc = "failed_job", !.eff = e, !.row = job[e]]
    <2>1. tick' = [tick EXCEPT ![t] = r]
      BY <1>5 DEF TypeInv, TypeOK
    <2>2. r.pc = "failed_job" /\ r.cur = tick[t].cur
      BY TickFacts DEF Tick
    <2> HIDE DEF r, e
    <2> QED  BY <1>1, <2>1, <2>2, RecordMoves, PlainPlaces
  <1>6. CASE EndTick(t)
    BY <1>1, <1>6, EndTickOn DEF CursorSteps, EndsStep, Follows
  <1> HIDE DEF e
  <1> QED  BY <1>1, <1>2, <1>3, <1>4, <1>5, <1>6, ConsumeSteps

LEMMA ClaimSteps ==
    ASSUME TypeInv, NEW t \in Threads, Claim(t) \/ MarkRunning(t)
    PROVE  CursorSteps(t)
  <1>1. tick[t].pc # "idle" /\ cursor' = cursor
    BY DEF Claim, MarkRunning, At
  <1>2. CASE Goto(t, "reread")
    BY <1>1, <1>2, GotoOn, GotoMoves, PlainPlaces
  <1>3. ASSUME NEW l, tick' = [tick EXCEPT ![t].pc = "run", ![t].lease = l]
        PROVE  CursorSteps(t)
    <2> DEFINE r == [tick[t] EXCEPT !.pc = "run", !.lease = l]
    <2>1. tick' = [tick EXCEPT ![t] = r]
      BY <1>3 DEF TypeInv, TypeOK
    <2>2. r.pc = "run" /\ r.cur = tick[t].cur
      BY TickFacts DEF Tick
    <2> HIDE DEF r
    <2> QED  BY <1>1, <2>1, <2>2, RecordMoves, PlainPlaces
  <1>4. ASSUME NEW j, tick' = [tick EXCEPT ![t].pc = "mark", ![t].row = j]
        PROVE  CursorSteps(t)
    <2> DEFINE r == [tick[t] EXCEPT !.pc = "mark", !.row = j]
    <2>1. tick' = [tick EXCEPT ![t] = r]
      BY <1>4 DEF TypeInv, TypeOK
    <2>2. r.pc = "mark" /\ r.cur = tick[t].cur
      BY TickFacts DEF Tick
    <2> HIDE DEF r
    <2> QED  BY <1>1, <2>1, <2>2, RecordMoves, PlainPlaces
  <1> QED  BY <1>2, <1>3, <1>4 DEF Claim, MarkRunning

LEMMA DispatchSteps ==
    ASSUME TypeInv, NEW t \in Threads, DispatchOk(t) \/ DispatchErr(t) \/ ScheduleRetry(t)
    PROVE  CursorSteps(t)
  <1>1. tick[t].pc # "idle" /\ cursor' = cursor
    BY DEF DispatchOk, DispatchErr, ScheduleRetry, At, rows
  <1>2. ASSUME NEW c, tick' = [tick EXCEPT ![t].pc = "outcome_read",
                                           ![t].status = "completed", ![t].cost = c]
        PROVE  CursorSteps(t)
    <2> DEFINE r == [tick[t] EXCEPT !.pc = "outcome_read", !.status = "completed", !.cost = c]
    <2>1. tick' = [tick EXCEPT ![t] = r]
      BY <1>2 DEF TypeInv, TypeOK
    <2>2. r.pc = "outcome_read" /\ r.cur = tick[t].cur
      BY TickFacts DEF Tick
    <2> HIDE DEF r
    <2> QED  BY <1>1, <2>1, <2>2, RecordMoves, PlainPlaces
  <1>3. ASSUME NEW x, tick' = [tick EXCEPT ![t].pc = "retry", ![t].error = x]
        PROVE  CursorSteps(t)
    <2> DEFINE r == [tick[t] EXCEPT !.pc = "retry", !.error = x]
    <2>1. tick' = [tick EXCEPT ![t] = r]
      BY <1>3 DEF TypeInv, TypeOK
    <2>2. r.pc = "retry" /\ r.cur = tick[t].cur
      BY TickFacts DEF Tick
    <2> HIDE DEF r
    <2> QED  BY <1>1, <2>1, <2>2, RecordMoves, PlainPlaces
  <1>4. CASE Goto(t, "reread")
    BY <1>1, <1>4, GotoOn, GotoMoves, PlainPlaces
  <1>5. CASE \E e, s, c, x : BeginSettle(t, e, s, c, x)
    BY <1>1, <1>5, AbortMoves
  <1> QED  BY <1>2, <1>3, <1>4, <1>5 DEF DispatchOk, DispatchErr, ScheduleRetry

LEMMA ReadSteps ==
    ASSUME TypeInv, NEW t \in Threads, ReadForOutcome(t) \/ SettleRead(t)
    PROVE  CursorSteps(t)
  <1>1. tick[t].pc # "idle" /\ cursor' = cursor
    BY DEF ReadForOutcome, SettleRead, At
  <1>2. PICK p \in {"outcome_write", "again_write", "settle_job"} :
           tick' = [tick EXCEPT ![t].pc = p, ![t].row = job[tick[t].eff]]
    BY DEF ReadForOutcome, SettleRead
  <1> DEFINE r == [tick[t] EXCEPT !.pc = p, !.row = job[tick[t].eff]]
  <1>3. tick' = [tick EXCEPT ![t] = r]
    BY <1>2 DEF TypeInv, TypeOK
  <1>4. r.pc = p /\ r.cur = tick[t].cur
    BY TickFacts DEF Tick
  <1> HIDE DEF r
  <1> QED  BY <1>1, <1>3, <1>4, RecordMoves, PlainPlaces

LEMMA WriteOutcomeSteps ==
    ASSUME TypeInv, NEW t \in Threads, WriteOutcome(t)
    PROVE  CursorSteps(t)
  <1>1. tick[t].pc # "idle" /\ cursor' = cursor
    BY DEF WriteOutcome, At
  <1>2. CASE Goto(t, "settle_effect")
    BY <1>1, <1>2, GotoOn, GotoMoves, PlainPlaces
  <1>3. CASE SaveNext(t, tick[t].cur)
    BY <1>1, <1>3, SaveMoves
  <1> QED  BY <1>2, <1>3 DEF WriteOutcome

LEMMA RereadSteps ==
    ASSUME TypeInv, Backed, NEW t \in Threads, Reread(t)
    PROVE  CursorSteps(t)
  <1> DEFINE e == tick[t].eff
  <1>1. tick[t].pc = "reread" /\ cursor' = cursor /\ job' = job
    BY DEF Reread, At, rows
  <1>2. e = tick[t].cur.next
    BY <1>1, StandsAt DEF HeldAt, ExecPc
  <1>3. \/ job[e].status = "completed" /\ ConsumeCompleted(t, e, job[e])
        \/ SaveNext(t, tick[t].cur)
        \/ tick' = [tick EXCEPT ![t].pc = "failed_job", ![t].row = job[e]]
        \/ BeginAbort(t, "failed")
    BY DEF Reread
  <1>4. CASE tick' = [tick EXCEPT ![t].pc = "failed_job", ![t].row = job[e]]
    <2> DEFINE r == [tick[t] EXCEPT !.pc = "failed_job", !.row = job[e]]
    <2>1. tick' = [tick EXCEPT ![t] = r]
      BY <1>4 DEF TypeInv, TypeOK
    <2>2. r.pc = "failed_job" /\ r.cur = tick[t].cur
      BY TickFacts DEF Tick
    <2> HIDE DEF r, e
    <2> QED  BY <1>1, <2>1, <2>2, RecordMoves, PlainPlaces
  <1> HIDE DEF e
  <1> QED  BY <1>1, <1>2, <1>3, <1>4, ConsumeSteps, SaveMoves, AbortMoves

LEMMA FailedJobSteps ==
    ASSUME TypeInv, Backed, NEW t \in Threads, FailedJob(t)
    PROVE  CursorSteps(t)
  <1> DEFINE e == tick[t].eff
             row == tick[t].row
  <1>1. tick[t].pc = "failed_job" /\ cursor' = cursor
    BY DEF FailedJob, At
  <1>2. e = tick[t].cur.next
    BY <1>1, StandsAt DEF HeldAt
  <1>3. CASE SaveNext(t, tick[t].cur)
    BY <1>1, <1>3, SaveMoves
  <1>4. CASE /\ job' = job
             /\ SaveNext(t, [tick[t].cur EXCEPT !.next = e + 1, !.pending = NoEffect])
    BY <1>1, <1>2, <1>4, PassSteps
  <1>5. CASE ConsumeFailed(t, row)
    <2> DEFINE o == IF row.status = "cancelled" THEN "cancelled" ELSE "failed"
               l == [tick[t].cur EXCEPT !.pending = NoEffect]
               r == [tick[t] EXCEPT !.pc = "terminal", !.cur = l, !.out = o]
    <2>1. tick' = [tick EXCEPT ![t] = r]
      BY <1>5, TickFacts DEF ConsumeFailed, TypeInv, TypeOK, Tick
    <2>2. l.next = tick[t].cur.next
      BY TickFacts DEF Cursor
    <2> HIDE DEF l
    <2>3. r.pc = "terminal" /\ r.cur = l
      BY TickFacts DEF Tick
    <2> HIDE DEF r
    <2> QED  BY <1>1, <2>1, <2>2, <2>3, RecordMoves, PlainPlaces
  <1> QED  BY <1>3, <1>4, <1>5 DEF FailedJob

LEMMA AbortSteps ==
    ASSUME TypeInv, NEW t \in Threads, AbortJob(t) \/ AbortList(t) \/ AbortNext(t)
    PROVE  CursorSteps(t)
  <1>1. /\ tick[t].pc \in AbortPc /\ cursor' = cursor
        /\ AbortNext(t) => tick[t].pc = "abort_next"
    BY DEF AbortJob, AbortList, AbortNext, At, AbortPc
  <1>2. tick[t].pc # "idle"
    BY <1>1 DEF AbortPc
  <1>3. CASE \E p \in {"abort_list", "terminal"} : Goto(t, p)
    BY <1>1, <1>2, <1>3, GotoOn, GotoMoves, PlainPlaces
  <1>4. CASE \E e, th, left : AbortSettle(t, e, th, left)
    BY <1>1, <1>2, <1>4, AbortMoves
  <1>5. ASSUME NEW left, tick' = [tick EXCEPT ![t].pc = "abort_next", ![t].todo = left]
        PROVE  CursorSteps(t)
    <2> DEFINE r == [tick[t] EXCEPT !.pc = "abort_next", !.todo = left]
    <2>1. tick' = [tick EXCEPT ![t] = r]
      BY <1>5 DEF TypeInv, TypeOK
    <2>2. r.pc = "abort_next" /\ r.cur = tick[t].cur
      BY TickFacts DEF Tick
    <2> HIDE DEF r
    <2> QED  BY <1>1, <1>2, <2>1, <2>2, RecordMoves, PlainPlaces
  <1>6. ASSUME NEW left, AbortNext(t), tick' = [tick EXCEPT ![t].todo = left]
        PROVE  CursorSteps(t)
    <2> DEFINE r == [tick[t] EXCEPT !.todo = left]
    <2>1. tick' = [tick EXCEPT ![t] = r]
      BY <1>6 DEF TypeInv, TypeOK
    <2>2. r.pc = "abort_next" /\ r.cur = tick[t].cur
      BY <1>1, <1>6, TickFacts DEF Tick
    <2> HIDE DEF r
    <2> QED  BY <1>1, <1>2, <2>1, <2>2, RecordMoves, PlainPlaces
  <1>7. CASE AbortNext(t)
    <2> DEFINE list == tick[t].todo
    <2>1. \/ Goto(t, "terminal")
          \/ \E x \in list : AbortSettle(t, x[1], "abort_next", list \ {x})
          \/ \E x \in list : tick' = [tick EXCEPT ![t].todo = list \ {x}]
      BY <1>7 DEF AbortNext
    <2> QED  BY <1>3, <1>4, <1>6, <1>7, <2>1
  <1>8. CASE AbortJob(t) \/ AbortList(t)
    BY <1>3, <1>4, <1>5, <1>8 DEF AbortJob, AbortList
  <1> QED  BY <1>7, <1>8

\* Every step but the first of a tick moves the cursor in one of these ways.
LEMMA TickStepCursor ==
    ASSUME TypeInv, Backed, NEW t \in Threads, TickStep(t)
    PROVE  Load(t) \/ CursorSteps(t)
  BY PlanSteps, PlanNewSteps, EndSteps, TerminalSteps, GoingSteps, SavingSteps, FinalizeSteps,
     PendingJobSteps, ClaimSteps, DispatchSteps, ReadSteps, WriteOutcomeSteps, RereadSteps,
     FailedJobSteps, AbortSteps DEF TickStep

-----------------------------------------------------------------------------
(* The limit through a step *)

\* No charge goes up, and nothing is newly reserved.
Lowers ==
    /\ \A e \in Effects :
         ChargeOf(reservation'[e], commit'[e], Estimate[e])
           <= ChargeOf(reservation[e], commit[e], Estimate[e])
    /\ \A e \in Effects : reservation'[e] # "absent" => reservation[e] # "absent"

LEMMA LowersKeeps ==
    ASSUME TypeInv, TypeInv', Lowers
    PROVE  /\ Fits(Charges(reservation, commit)) => Fits(Charges(reservation', commit'))
           /\ \A e \in Effects : Room(Charges(reservation, commit), e) =>
                                   Room(Charges(reservation', commit'), e)
           /\ \A n \in Nat : Ahead(n, reservation, commit) => Ahead(n, reservation', commit')
  <1> DEFINE f == Charges(reservation, commit)
             g == Charges(reservation', commit')
  <1>1. f \in Amounts /\ g \in Amounts /\ \A e \in Effects : g[e] <= f[e]
    BY ChargesFacts DEF TypeInv, TypeOK, Lowers
  <1> HIDE DEF f, g
  <1>2. Fits(f) => Fits(g)
    BY <1>1, LowerFits
  <1>3. \A e \in Effects : Room(f, e) => Room(g, e)
    BY <1>1, RoomKept
  <1> USE DEF f, g
  <1>4. \A n \in Nat : Ahead(n, reservation, commit) => Ahead(n, reservation', commit')
    BY <1>3 DEF Ahead, Lowers
  <1> QED  BY <1>2, <1>3, <1>4

\* What the three statements on the ledger leave true of it, whoever the cursor
\* is asked for.
LedgerKept(t) ==
    /\ Fits(Charges(reservation', commit'))
    /\ request # "cancelled" => Ahead(cursor.next, reservation', commit')
    /\ tick[owner].pc # "idle" => Ahead(tick[owner].cur.next, reservation', commit')
    /\ tick[owner].pc = "reserve" /\ t # owner =>
         Room(Charges(reservation', commit'), tick[owner].eff)

LEMMA NextIsNat ==
    ASSUME AttemptInv
    PROVE  cursor.next \in Nat /\ tick[owner].cur.next \in Nat /\ owner \in Threads
  BY OwnerFacts, TickFacts, EffectsAssumption DEF AttemptInv, TypeInv, TypeOK, Cursor

LEMMA LowersKept ==
    ASSUME AttemptInv, LimitInv, TypeInv', NEW t \in Threads, Lowers
    PROVE  LedgerKept(t)
  BY OwnerFacts, LowersKeeps, NextIsNat DEF AttemptInv, TickOK, EffPc, LimitInv, LedgerKept

\* The charge of e goes up to its estimate at most, with room for it.
LEMMA RaisesKept ==
    ASSUME TypeInv, TypeInv', NEW e \in Effects, Room(Charges(reservation, commit), e),
           \A d \in Effects \ {e} : reservation'[d] = reservation[d] /\ commit'[d] = commit[d]
    PROVE  /\ Fits(Charges(reservation', commit'))
           /\ \A n \in Nat : (\A d \in Effects : reservation[d] # "absent" => d <= n) /\ e = n =>
                                Ahead(n, reservation', commit')
  <1> DEFINE f == Charges(reservation, commit)
             g == Charges(reservation', commit')
  <1>1. f \in Amounts /\ g \in Amounts /\ g[e] <= Estimate[e] /\ \A d \in Effects \ {e} : g[d] <= f[d]
    <2>1. commit \in [Effects -> Commit] /\ commit' \in [Effects -> Commit]
      BY DEF TypeInv, TypeOK
    <2>2. /\ f \in Amounts /\ g \in Amounts /\ g[e] <= Estimate[e]
          /\ \A d \in Effects : /\ f[d] = ChargeOf(reservation[d], commit[d], Estimate[d])
                                /\ g[d] = ChargeOf(reservation'[d], commit'[d], Estimate[d])
                                /\ f[d] \in Int
      BY <2>1, ChargesFacts DEF Amounts
    <2> HIDE DEF f, g
    <2>3. \A d \in Effects \ {e} : g[d] = f[d]
      BY <2>2
    <2> QED  BY <2>2, <2>3
  <1> HIDE DEF f, g
  <1>2. Fits(g) /\ Room(g, e)
    BY <1>1, RoomFits, RoomKept DEF f
  <1>3. ASSUME NEW n \in Nat, \A d \in Effects : reservation[d] # "absent" => d <= n, e = n
        PROVE  Ahead(n, reservation', commit')
    <2> SUFFICES ASSUME NEW d \in Effects, reservation'[d] # "absent"
                 PROVE  d <= n /\ (d = n => Room(g, d))
      BY DEF Ahead, g
    <2>1. CASE d = e
      BY <1>2, <1>3, <2>1
    <2>2. CASE d # e
      BY <1>3, <2>2
    <2> QED  BY <2>1, <2>2
  <1> QED  BY <1>2, <1>3 DEF g

LEMMA ReserveKept ==
    ASSUME AttemptInv, ThereInv, Backed, LimitInv, OverInv, NEW t \in Threads, Reserve(t)
    PROVE  LedgerKept(t)
  <1> DEFINE e == tick[t].eff
  <1>1. TypeInv /\ TypeInv' /\ tick[t].pc = "reserve"
    BY ReserveType DEF AttemptInv, Reserve, At
  <1>2. t = owner
    BY WhoSteps, <1>1 DEF TickStep, AttemptInv, Alone, CancelPc, AbortPc, SettlePc
  <1>3. e \in Effects /\ e = tick[owner].cur.next
    BY <1>1, <1>2, StandsAt, TickFacts DEF HeldAt, PlanPc
  <1>4. \A d \in Effects \ {e} : reservation'[d] = reservation[d] /\ commit'[d] = commit[d]
    BY <1>1 DEF Reserve, TypeInv, TypeOK
  <1>5. Room(Charges(reservation, commit), e) /\ \A d \in Effects : reservation[d] # "absent" => d <= e
    BY <1>1, <1>2, <1>3 DEF LimitInv, Ahead
  <1>6. request # "cancelled" => cursor.next = tick[owner].cur.next
    BY <1>1, <1>2 DEF OverInv, PlanPc
  <1> HIDE DEF e
  <1>7. /\ Fits(Charges(reservation', commit'))
        /\ Ahead(tick[owner].cur.next, reservation', commit')
    BY <1>1, <1>3, <1>4, <1>5, RaisesKept, NextIsNat
  <1> QED  BY <1>2, <1>6, <1>7 DEF LedgerKept

LEMMA SettleReservationKept ==
    ASSUME AttemptInv, ThereInv, Backed, LimitInv, NEW t \in Threads, SettleReservation(t)
    PROVE  LedgerKept(t)
  <1> DEFINE e == tick[t].eff
             s == IF tick[t].status = "completed" THEN "committed" ELSE tick[t].status
  <1>0. TypeInv /\ TypeInv'
    BY SettleReservationType DEF AttemptInv
  <1>1. e \in Effects /\ JobThere(e)
    BY <1>0, WorksThere, OpenPlaces DEF SettleReservation, At, SettlePc
  <1>2. s # "reserved" /\ reservation' = [reservation EXCEPT ![e] = s] /\ commit' = commit
    BY <1>0, TickFacts DEF SettleReservation, At, TickOK, SettlePc
  <1>3. reservation[e] # "absent"
    BY <1>1 DEF Backed, JobsBacked, JobBacked, JobThere
  <1> HIDE DEF e, s
  <1>4. Lowers
    <2>1. ASSUME NEW d \in Effects
          PROVE  ChargeOf(reservation'[d], commit'[d], Estimate[d])
                   <= ChargeOf(reservation[d], commit[d], Estimate[d])
      <3> DEFINE a == ChargeOf(reservation[d], commit[d], Estimate[d])
                 b == ChargeOf(reservation'[d], commit'[d], Estimate[d])
      <3>1. commit[d] \in Commit /\ Estimate[d] \in Nat
        BY <1>0, EffectsAssumption DEF TypeInv, TypeOK
      <3>2. a \in Int /\ b \in Int /\ b <= Estimate[d]
        BY <1>2, <3>1, ChargeFacts
      <3>3. b = a \/ reservation[d] = "reserved"
        <4>1. CASE reservation'[d] = reservation[d]
          BY <1>2, <4>1
        <4>2. CASE reservation'[d] # reservation[d]
          BY <1>0, <1>1, <1>2, <4>2 DEF TypeInv, TypeOK, ChargeOf
        <4> QED  BY <4>1, <4>2
      <3>4. reservation[d] = "reserved" => a = Estimate[d]
        BY DEF ChargeOf
      <3> HIDE DEF a, b
      <3>5. b <= a
        BY <3>1, <3>2, <3>3, <3>4
      <3> QED  BY <3>5 DEF a, b
    <2>2. \A d \in Effects : reservation'[d] # "absent" => reservation[d] # "absent"
      BY <1>0, <1>1, <1>2, <1>3 DEF TypeInv, TypeOK
    <2> QED  BY <2>1, <2>2 DEF Lowers
  <1> QED  BY <1>0, <1>4, LowersKept

LEMMA SettleCommitKept ==
    ASSUME AttemptInv, ThereInv, Backed, LimitInv, OverInv, NEW t \in Threads, SettleCommit(t)
    PROVE  LedgerKept(t)
  <1> DEFINE e == tick[t].eff
             c == SettledEffectCost(tick[t].status, tick[t].cost, Estimate[e])
             k == CommitOf(c)
  <1>0. TypeInv /\ TypeInv' /\ tick[t].pc = "settle_commit"
    BY SettleCommitType DEF AttemptInv, SettleCommit, At
  <1>1. e \in Effects /\ reservation[e] # "reserved" /\ reservation[e] # "absent"
    BY <1>0, WorksThere, OpenPlaces, TickHasThere DEF SettlePc, Backed, JobsBacked, JobBacked,
       JobThere, TickThere
  <1>2. commit' = [commit EXCEPT ![e] = k] /\ reservation' = reservation
    BY DEF SettleCommit
  <1>3. \A d \in Effects \ {e} : reservation'[d] = reservation[d] /\ commit'[d] = commit[d]
    BY <1>0, <1>2 DEF TypeInv, TypeOK
  <1>4. CASE c = Unknown
    <2>1. k.there /\ k.cost = Unknown
      BY <1>4 DEF CommitOf
    <2>2. commit'[e] = k /\ Estimate[e] \in Nat
      BY <1>0, <1>1, <1>2, EffectsAssumption DEF TypeInv, TypeOK
    <2> HIDE DEF k, c, e
    <2>3. ASSUME NEW d \in Effects
          PROVE  ChargeOf(reservation'[d], commit'[d], Estimate[d])
                   <= ChargeOf(reservation[d], commit[d], Estimate[d])
      <3> DEFINE a == ChargeOf(reservation[d], commit[d], Estimate[d])
                 b == ChargeOf(reservation'[d], commit'[d], Estimate[d])
      <3>1. a \in Int /\ 0 <= a
        BY <1>0, EffectsAssumption, ChargeFacts DEF TypeInv, TypeOK
      <3>2. b = a \/ b = 0
        <4>1. CASE d = e
          BY <1>1, <1>2, <2>1, <2>2, <4>1 DEF ChargeOf
        <4>2. CASE d # e
          BY <1>3, <4>2
        <4> QED  BY <4>1, <4>2
      <3> HIDE DEF a, b
      <3>3. b <= a
        BY <3>1, <3>2
      <3> QED  BY <3>3 DEF a, b
    <2>4. Lowers
      BY <1>2, <2>3 DEF Lowers
    <2> QED  BY <1>0, <2>4, LowersKept
  <1>5. CASE c # Unknown
    <2>1. tick[t].then = "executor"
      BY <1>0, TickHasThere, <1>5 DEF TickThere, SettlePc, SettledEffectCost, Ending
    <2>2. t = owner
      BY WhoSteps, <1>0, <2>1 DEF TickStep, AttemptInv, Alone, SettlePc
    <2>3. e = tick[owner].cur.next
      BY <1>0, <2>1, <2>2, StandsAt DEF SettlePc
    <2>4. Room(Charges(reservation, commit), e) /\ \A d \in Effects : reservation[d] # "absent" => d <= e
      BY <1>0, <1>1, <2>2, <2>3 DEF LimitInv, Ahead
    <2>5. request # "cancelled" => cursor.next = e
      BY <1>0, <1>1, <2>2, <2>3, NextIsNat DEF LimitInv, Ahead, OverInv
    <2> HIDE DEF e
    <2>6. /\ Fits(Charges(reservation', commit'))
          /\ Ahead(tick[owner].cur.next, reservation', commit')
      BY <1>0, <1>1, <1>3, <2>3, <2>4, RaisesKept, NextIsNat
    <2> QED  BY <2>2, <2>3, <2>5, <2>6 DEF LedgerKept
  <1> QED  BY <1>4, <1>5

LEMMA LedgerSteps ==
    ASSUME AttemptInv, ThereInv, Backed, LimitInv, OverInv, NEW t \in Threads, TickStep(t)
    PROVE  LedgerKept(t)
  <1>0. TypeInv /\ TypeInv'
    BY TickStepType DEF AttemptInv
  <1>1. CASE reservation' = reservation /\ commit' = commit
    BY <1>0, EffectsAssumption, ChargeFacts, <1>1, LowersKept DEF TypeInv, TypeOK, Lowers
  <1>2. \/ Reserve(t) \/ SettleReservation(t) \/ SettleCommit(t)
        \/ reservation' = reservation /\ commit' = commit
    BY <1>0, BookSteps
  <1> QED  BY <1>1, <1>2, ReserveKept, SettleReservationKept, SettleCommitKept

\* Nothing is reserved beyond a later effect either.
LEMMA AheadGoesOn ==
    ASSUME NEW n \in Nat, NEW res, NEW com, Ahead(n, res, com)
    PROVE  Ahead(n + 1, res, com)
  <1> SUFFICES ASSUME NEW e \in Effects, res[e] # "absent"
               PROVE  e <= n + 1 /\ (e = n + 1 => Room(Charges(res, com), e))
    BY DEF Ahead
  <1>1. e <= n /\ e \in Nat
    BY EffectsAssumption DEF Ahead, Effects
  <1> QED  BY <1>1

\* The owner's place after a step.
LEMMA OwnerMoves ==
    ASSUME AttemptInv, Backed, NEW t \in Threads, TickStep(t)
    PROVE  /\ owner' = owner /\ (request' # "cancelled" => request # "cancelled")
           /\ t # owner => tick'[owner] = tick[owner] /\ request = "cancelled"
           /\ t = owner => \/ tick'[owner].cur = cursor /\ cursor' = cursor /\ tick[owner].pc = "idle"
                              /\ request = "active" /\ tick'[owner].pc \in {"check", "finish"}
                           \/ CursorSteps(owner)
  <1>0. TypeInv
    BY DEF AttemptInv
  <1>1. Frame(t)
    BY <1>0, TickStepFrame
  <1>2. t # owner => tick'[owner] = tick[owner] /\ request = "cancelled"
    BY <1>1, OwnerFacts, WhoSteps, CancellerStep DEF Frame
  <1>3. ASSUME t = owner, Load(t)
        PROVE  /\ tick'[owner].cur = cursor /\ cursor' = cursor /\ tick[owner].pc = "idle"
               /\ request = "active" /\ tick'[owner].pc \in {"check", "finish"}
    <2>1. request = "active" /\ cursor' = cursor /\ tick[owner].pc = "idle"
      BY <1>3, OwnerFacts DEF Load, At
    <2> DEFINE r == [tick[t] EXCEPT !.cur = cursor,
                                    !.pc  = IF cursor.phase = "work" THEN "check" ELSE "finish",
                                    !.out = IF cursor.phase = "work" THEN "none" ELSE cursor.phase]
    <2>2. tick' = [tick EXCEPT ![t] = r]
      BY <1>0, <1>3 DEF Load, TypeInv, TypeOK
    <2>3. r.pc \in {"check", "finish"} /\ r.cur = cursor
      BY <1>0, TickFacts DEF Tick
    <2> HIDE DEF r
    <2>4. tick'[t] = r
      BY <1>0, <2>2, Leaves
    <2> QED  BY <1>3, <2>1, <2>3, <2>4
  <1>4. Load(t) \/ CursorSteps(t)
    BY <1>0, TickStepCursor
  <1> QED  BY <1>1, <1>2, <1>3, <1>4 DEF Frame

LEMMA AdmittedRoom ==
    ASSUME TypeInv, ThereInv, NEW t \in Threads, Admit(t), tick'[t].pc = "reserve"
    PROVE  /\ Room(Charges(reservation, commit), tick[t].eff) /\ tick'[t].eff = tick[t].eff
           /\ reservation' = reservation /\ commit' = commit
  <1> DEFINE e == tick[t].eff
             p == IF BreachForRequest(Ledger, Estimate[e]) THEN "reject" ELSE "reserve"
  <1>1. GoesOn(t, p)
    BY GotoOn DEF Admit
  <1>2. ~BreachForRequest(Ledger, Estimate[e]) /\ tick'[t].eff = e
    BY <1>1 DEF GoesOn, SameWork
  <1>3. e \in Effects
    BY TickFacts DEF Admit, At, TickOK, EffPc
  <1>4. Room(Charges(reservation, commit), e)
    BY <1>2, <1>3, AdmitRoom
  <1> QED  BY <1>2, <1>4 DEF Admit, rows

LEMMA TickStepLimit ==
    ASSUME AttemptInv, ThereInv, Backed, LimitInv, OverInv, NEW t \in Threads, TickStep(t)
    PROVE  LimitInv'
  <1> DEFINE f == Charges(reservation', commit')
  <1>0. TypeInv
    BY DEF AttemptInv
  <1>1. LedgerKept(t)
    BY LedgerSteps
  <1>2. /\ owner' = owner /\ (request' # "cancelled" => request # "cancelled")
        /\ t # owner => tick'[owner] = tick[owner] /\ request = "cancelled"
        /\ t = owner => \/ tick'[owner].cur = cursor /\ cursor' = cursor /\ tick[owner].pc = "idle"
                           /\ request = "active" /\ tick'[owner].pc \in {"check", "finish"}
                        \/ CursorSteps(owner)
    BY OwnerMoves
  <1>3. owner \in Threads /\ cursor.next \in Nat /\ tick[owner].cur.next \in Nat
    BY NextIsNat
  <1>4. request' # "cancelled" => Ahead(cursor'.next, reservation', commit')
    <2> SUFFICES ASSUME request' # "cancelled" PROVE Ahead(cursor'.next, reservation', commit')
      OBVIOUS
    <2>1. t = owner /\ request # "cancelled"
      BY <1>2
    <2>2. cursor' = cursor \/ (tick[owner].pc # "idle" /\ cursor'.next = tick[owner].cur.next)
      BY <1>2, <2>1 DEF CursorSteps, PlansStep, EndsStep, MovesStep, PassesStep, Follows
    <2> QED  BY <1>1, <2>1, <2>2 DEF LedgerKept
  <1>5. tick'[owner].pc # "idle" => Ahead(tick'[owner].cur.next, reservation', commit')
    <2>1. CASE t # owner
      BY <1>1, <1>2, <2>1 DEF LedgerKept
    <2>2. CASE t = owner
      <3>1. CASE tick'[owner].cur = cursor /\ request = "active"
        BY <1>1, <3>1 DEF LedgerKept
      <3>2. CASE PlansStep(owner) \/ MovesStep(owner)
        BY <1>1, <3>2 DEF LedgerKept, PlansStep, MovesStep, Places, PlanPc
      <3>3. CASE EndsStep(owner)
        BY <3>3 DEF EndsStep
      <3>4. CASE PassesStep(owner)
        BY <1>1, <1>3, <3>4, AheadGoesOn DEF LedgerKept, PassesStep
      <3> QED  BY <1>2, <2>2, <3>1, <3>2, <3>3, <3>4 DEF CursorSteps
    <2> QED  BY <2>1, <2>2
  <1>6. tick'[owner].pc = "reserve" => Room(f, tick'[owner].eff)
    <2>1. CASE t # owner
      BY <1>1, <1>2, <2>1 DEF LedgerKept
    <2>2. CASE t = owner
      <3> SUFFICES ASSUME tick'[owner].pc = "reserve" PROVE Room(f, tick'[owner].eff)
        OBVIOUS
      <3>1. Admit(t)
        BY <1>2, <2>2 DEF CursorSteps, PlansStep, EndsStep, MovesStep, PassesStep, Places, PlanPc
      <3> QED  BY <1>0, <2>2, <3>1, AdmittedRoom
    <2> QED  BY <2>1, <2>2
  <1>7. Fits(f)
    BY <1>1 DEF LedgerKept
  <1> QED  BY <1>2, <1>4, <1>5, <1>6, <1>7 DEF LimitInv

-----------------------------------------------------------------------------
(* What is over *)

LEMMA RecoveredOutcome ==
    ASSUME TypeInv, NEW e \in Effects
    PROVE  RecoveredJobs[e].outcome = job[e].outcome
  BY DEF RecoveredJobs, TypeInv, TypeOK, RecoverExpired, Rescheduled, Job

\* A step leaves a job alone, recovers it, or writes it as its thread's own.
JobKept(e) ==
    \/ job'[e] = job[e]
    \/ InHand(job[e]) /\ job'[e].status # "completed" /\ job'[e].outcome = job[e].outcome

JobWrites(t) ==
    /\ \A e \in Effects : JobKept(e) \/ (e = tick[t].eff /\ tick[t].pc \in ThereAt \cup {"enqueue"})
    /\ tick[t].pc \in ThereAt \cup {"enqueue"} =>
         \/ job'[tick[t].eff] = job[tick[t].eff]
         \/ job'[tick[t].eff].status # "completed" \/ job'[tick[t].eff].outcome

LEMMA SameWrites ==
    ASSUME NEW t \in Threads, job' = job
    PROVE  JobWrites(t)
  BY DEF JobWrites, JobKept

\* The statement on the thread's own job.
LEMMA OwnWrites ==
    ASSUME TypeInv, NEW t \in Threads, tick[t].pc \in ThereAt \cup {"enqueue"},
           NEW j, job' = [job EXCEPT ![tick[t].eff] = j],
           j.status # "completed" \/ j.outcome, tick[t].eff \in Effects
    PROVE  JobWrites(t)
  BY DEF JobWrites, JobKept, TypeInv, TypeOK

LEMMA RecoveredKept ==
    ASSUME TypeInv, NEW e \in Effects
    PROVE  \/ RecoveredJobs[e] = job[e]
           \/ /\ InHand(job[e]) /\ RecoveredJobs[e].status # "completed"
              /\ RecoveredJobs[e].outcome = job[e].outcome
  BY RecoveredFacts, RecoveredOutcome

LEMMA ClaimWrites ==
    ASSUME TypeInv, NEW t \in Threads, Claim(t)
    PROVE  JobWrites(t)
  <1> DEFINE e == tick[t].eff
             j == Claimed(RecoveredJobs[e], minted + 1)
  <1>1. tick[t].pc \in ThereAt /\ e \in Effects /\ RecoveredJobs \in [Effects -> Job]
    BY TickFacts, OpenPlaces, RecoveredFacts DEF Claim, At, TickOK, EffPc, ExecPc
  <1>2. CASE job' = RecoveredJobs
    BY <1>2, RecoveredKept, <1>1 DEF JobKept, JobWrites
  <1>3. CASE job' = [RecoveredJobs EXCEPT ![e] = j]
    <2>1. j.status = "leased"
      BY <1>1 DEF Claimed, Job
    <2> HIDE DEF j
    <2>2. \A d \in Effects \ {e} : job'[d] = RecoveredJobs[d]
      BY <1>1, <1>3
    <2>3. \A d \in Effects \ {e} : JobKept(d)
      BY <2>2, RecoveredKept DEF JobKept
    <2>4. job'[e].status # "completed"
      BY <1>1, <1>3, <2>1
    <2> QED  BY <1>1, <2>3, <2>4 DEF JobWrites
  <1> QED  BY <1>2, <1>3 DEF Claim

LEMMA TickStepWrites ==
    ASSUME TypeInv, ThereInv, NEW t \in Threads, TickStep(t),
           tick[t].pc = "settle_job" /\ tick[t].then = "executor" /\ tick[t].status = "completed" =>
             tick[t].row.outcome
    PROVE  JobWrites(t)
  <1> DEFINE e == tick[t].eff
  <1>1. CASE job' = job
    BY <1>1, SameWrites
  <1>2. CASE Enqueue(t)
    <2>1. e \in Effects /\ tick[t].pc = "enqueue" /\ job' = [job EXCEPT ![e] = Enqueued]
      BY <1>2, TickFacts DEF Enqueue, At, TickOK, EffPc
    <2>2. Enqueued.status # "completed"
      BY JobFacts DEF Enqueued, AbsentJob
    <2> HIDE DEF e
    <2> QED  BY <2>1, <2>2, OwnWrites DEF e
  <1>3. CASE MarkRunning(t)
    <2>1. e \in Effects /\ tick[t].pc \in ThereAt
      BY <1>3, TickFacts, OpenPlaces DEF MarkRunning, At, TickOK, EffPc, ExecPc
    <2>2. Running(job[e]).status # "completed"
      BY <2>1 DEF Running, Job, TypeInv, TypeOK
    <2>3. job' = job \/ job' = [job EXCEPT ![e] = Running(job[e])]
      BY <1>3 DEF MarkRunning
    <2> HIDE DEF e
    <2> QED  BY <1>1, <2>1, <2>2, <2>3, OwnWrites DEF e
  <1>4. CASE ScheduleRetry(t) \/ FailedJob(t)
    <2>1. e \in Effects /\ tick[t].pc \in ThereAt
      BY <1>4, TickFacts, OpenPlaces DEF ScheduleRetry, FailedJob, At, TickOK, EffPc, ExecPc
    <2>2. \A c : Rescheduled(job[e], c).status # "completed"
      BY <2>1 DEF Rescheduled, Job, TypeInv, TypeOK
    <2>3. job' = job \/ \E c : job' = [job EXCEPT ![e] = Rescheduled(job[e], c)]
      BY <1>4 DEF ScheduleRetry, FailedJob
    <2> HIDE DEF e
    <2> QED  BY <1>1, <2>1, <2>2, <2>3, OwnWrites DEF e
  <1>5. CASE WriteOutcome(t)
    <2> DEFINE j == WithOutcome(tick[t].row)
    <2>1. e \in Effects /\ tick[t].pc \in ThereAt
      BY <1>5, TickFacts, OpenPlaces DEF WriteOutcome, At, TickOK, EffPc, ExecPc
    <2>2. j.outcome /\ job' = [job EXCEPT ![e] = j]
      BY <1>5, TickFacts DEF WriteOutcome, WithOutcome, Tick, Job
    <2> HIDE DEF e, j
    <2> QED  BY <2>1, <2>2, OwnWrites DEF e
  <1>6. CASE SettleJob(t)
    <2> DEFINE x == IF tick[t].status = "completed" THEN "none" ELSE tick[t].error
               j == Settled(tick[t].row, tick[t].status, x)
    <2>1. e \in Effects /\ tick[t].pc = "settle_job" /\ tick[t].row \in Job
      BY <1>6, TickFacts DEF SettleJob, At, TickOK, EffPc, SettlePc, Tick
    <2>2. j.status = tick[t].status /\ j.outcome = tick[t].row.outcome
      BY <2>1 DEF Settled, Job
    <2>3. tick[t].status = "completed" => tick[t].then = "executor"
      BY <2>1, TickHasThere DEF TickThere, SettlePc, Ending
    <2>4. job' = [job EXCEPT ![e] = j] /\ (j.status # "completed" \/ j.outcome)
      BY <1>6, <2>1, <2>2, <2>3 DEF SettleJob
    <2>5. tick[t].pc \in ThereAt
      BY <2>1, OpenPlaces DEF SettlePc
    <2> HIDE DEF e, j
    <2> QED  BY <2>1, <2>4, <2>5, OwnWrites DEF e
  <1>7. CASE Claim(t)
    BY <1>7, ClaimWrites
  <1>8. \/ job' = job \/ Enqueue(t) \/ Claim(t) \/ MarkRunning(t) \/ ScheduleRetry(t)
        \/ WriteOutcome(t) \/ FailedJob(t) \/ SettleJob(t)
    <2>1. ASSUME \/ Load(t) \/ CheckCancelled(t) \/ PlanExisting(t) \/ PlanNew(t) \/ Finalize(t)
                 \/ RecordPlanned(t) \/ Admit(t) \/ Reject(t) \/ Reserve(t) \/ Link(t)
                 \/ SaveCursor(t) \/ PendingJob(t)
          PROVE  job' = job
      BY <2>1 DEF Load, CheckCancelled, PlanExisting, PlanNew, Finalize, RecordPlanned, Admit,
         Reject, Reserve, Link, SaveCursor, PendingJob, rows
    <2>2. ASSUME \/ RecordRunning(t) \/ DispatchOk(t) \/ DispatchErr(t) \/ ReadForOutcome(t)
                 \/ EnsureLease(t) \/ Reread(t) \/ SettleEffect(t) \/ SettleReservation(t)
                 \/ SettleCommit(t) \/ SettleRead(t) \/ SettleLedger(t)
          PROVE  job' = job
      BY <2>2 DEF RecordRunning, DispatchOk, DispatchErr, ReadForOutcome, EnsureLease, Reread,
         SettleEffect, SettleReservation, SettleCommit, SettleRead, SettleLedger, rows
    <2>3. ASSUME \/ AbortJob(t) \/ AbortList(t) \/ AbortNext(t) \/ Terminalize(t)
                 \/ Finish(t) \/ FinishWithError(t)
          PROVE  job' = job
      BY <2>3 DEF AbortJob, AbortList, AbortNext, Terminalize, Finish, FinishWithError, rows
    <2> QED  BY <2>1, <2>2, <2>3 DEF TickStep
  <1> QED  BY <1>1, <1>2, <1>3, <1>4, <1>5, <1>6, <1>7, <1>8

\* A job that is over stays over, unless it is the one its executor works on.
LEMMA StaysOver ==
    ASSUME TypeInv, ThereInv, NEW t \in Threads, TickStep(t), JobWrites(t),
           NEW e \in Effects, job[e].status \in JobTerminal,
           e # tick[t].eff \/ (tick[t].pc \in SettlePc /\ tick[t].then # "executor")
    PROVE  job'[e].status \in JobTerminal
  <1>1. CASE JobKept(e)
    BY <1>1 DEF JobKept, InHand, JobTerminal
  <1>2. CASE ~JobKept(e)
    <2>1. e = tick[t].eff /\ tick[t].pc \in SettlePc /\ tick[t].then # "executor" /\ job' # job
      BY <1>2 DEF JobWrites, JobKept
    <2>2. SettleJob(t)
      BY <2>1 DEF TickStep, At, SettlePc, Load, CheckCancelled, PlanExisting, PlanNew, Finalize,
         RecordPlanned, Admit, Reject, Reserve, Enqueue, Link, SaveCursor, PendingJob,
         Claim, MarkRunning, RecordRunning, DispatchOk, DispatchErr, ScheduleRetry,
         ReadForOutcome, WriteOutcome, EnsureLease, Reread, FailedJob, SettleEffect,
         SettleReservation, SettleCommit, SettleRead, SettleLedger, AbortJob,
         AbortList, AbortNext, Terminalize, Finish, FinishWithError, rows
    <2> DEFINE x == IF tick[t].status = "completed" THEN "none" ELSE tick[t].error
               j == Settled(tick[t].row, tick[t].status, x)
    <2>3. tick[t].status \in Ending /\ tick[t].row \in Job
      BY <2>1, TickHasThere, TickFacts DEF TickThere, Tick
    <2>4. j.status \in JobTerminal /\ job' = [job EXCEPT ![tick[t].eff] = j]
      BY <2>2, <2>3 DEF SettleJob, Settled, Job, JobTerminal, Ending
    <2> HIDE DEF j
    <2> QED  BY <2>1, <2>4 DEF TypeInv, TypeOK
  <1> QED  BY <1>1, <1>2

Watched == Paid \cup {"settle_job", "failed_job"}

LEMMA UnwatchedOver ==
    ASSUME NEW r, NEW j, r.pc \notin Watched
    PROVE  WorkOver(r, j)
  BY DEF WorkOver, Watched, Paid

LEMMA GoingUnwatched ==
    ASSUME TypeInv, NEW t \in Threads,
           \/ CheckCancelled(t) \/ RecordPlanned(t) \/ Admit(t) \/ Reject(t) \/ Reserve(t)
           \/ Enqueue(t) \/ RecordRunning(t) \/ EnsureLease(t) \/ SettleJob(t)
           \/ SettleLedger(t) \/ Terminalize(t) \/ PlanExisting(t) \/ Link(t)
    PROVE  tick'[t].pc \notin Watched
  <1>1. tick[t].then \in {"executor", "abort_list", "abort_next"}
    BY TickFacts DEF Tick
  <1>2. \/ \E p \in {"plan", "pending", "admit", "error", "reserve", "reject", "enqueue",
                     "link", "dispatch", "again_read", "reread", "settle_ledger", "ensure",
                     "abort_list", "abort_next", "finish"} : Goto(t, p)
        \/ \E s : BeginAbort(t, s)
        \/ \E k : SaveNext(t, k)
    BY <1>1 DEF CheckCancelled, RecordPlanned, Admit, Reject, Err, Reserve, Enqueue,
                RecordRunning, EnsureLease, SettleJob, SettleLedger, Terminalize,
                PlanExisting, Link
  <1> QED  BY <1>2, GotoOn, BeginAbortOn, SaveNextOn DEF GoesOn, Watched, Paid

LEMMA WritingUnwatched ==
    ASSUME TypeInv, NEW t \in Threads,
           \/ Load(t) \/ PlanNew(t) \/ Finalize(t) \/ Claim(t) \/ MarkRunning(t) \/ DispatchOk(t)
           \/ ReadForOutcome(t) \/ AbortList(t)
    PROVE  tick'[t].pc \notin Watched
  <1>1. tick[t] \in Tick /\ tick \in [Threads -> Tick]
    BY TickFacts DEF TypeInv, TypeOK
  <1>2. CASE Load(t) \/ PlanNew(t) \/ Finalize(t) \/ AbortList(t)
    BY <1>1, <1>2 DEF Load, PlanNew, Finalize, AbortList, Tick, Watched, Paid
  <1>3. CASE Claim(t) \/ MarkRunning(t) \/ DispatchOk(t) \/ ReadForOutcome(t)
    BY <1>1, <1>3 DEF Claim, MarkRunning, DispatchOk, ReadForOutcome, Goto, Tick, Watched, Paid
  <1> QED  BY <1>2, <1>3

LEMMA EndingUnwatched ==
    ASSUME TypeInv, NEW t \in Threads, SaveCursor(t) \/ Finish(t) \/ FinishWithError(t)
    PROVE  tick'[t].pc \notin Watched
  BY EndTickOn DEF SaveCursor, Finish, FinishWithError, Watched, Paid

LEMMA SettlingOver ==
    ASSUME TypeInv, NEW t \in Threads, WorkOver(tick[t], job),
           SettleEffect(t) \/ SettleReservation(t) \/ SettleCommit(t)
    PROVE  WorkOver(tick'[t], job')
  <1>1. job' = job /\ tick[t].pc \in Paid
    BY DEF SettleEffect, SettleReservation, SettleCommit, At, Paid
  <1>2. PICK p \in Paid : Goto(t, p)
    BY DEF SettleEffect, SettleReservation, SettleCommit, Paid
  <1>3. GoesOn(t, p)
    BY <1>2, GotoOn
  <1> QED  BY <1>1, <1>3 DEF WorkOver, GoesOn, SameWork, Paid

LEMMA SettleReadOver ==
    ASSUME TypeInv, NEW t \in Threads, WorkOver(tick[t], job), SettleRead(t)
    PROVE  WorkOver(tick'[t], job')
  <1> DEFINE r == [tick[t] EXCEPT !.pc = "settle_job", !.row = job[tick[t].eff]]
  <1>1. tick[t].pc = "settle_read" /\ tick' = [tick EXCEPT ![t] = r]
    BY DEF SettleRead, At, TypeInv, TypeOK
  <1>2. /\ r.pc = "settle_job" /\ r.eff = tick[t].eff /\ r.then = tick[t].then
        /\ r.status = tick[t].status /\ r.row = job[tick[t].eff]
    BY TickFacts DEF Tick
  <1> HIDE DEF r
  <1>3. tick'[t] = r
    BY <1>1, Leaves
  <1> QED  BY <1>1, <1>2, <1>3 DEF WorkOver, Paid

LEMMA WriteOutcomeOver ==
    ASSUME TypeInv, NEW t \in Threads, WriteOutcome(t)
    PROVE  WorkOver(tick'[t], job')
  <1> DEFINE e == tick[t].eff
             j == WithOutcome(tick[t].row)
  <1>1. e \in Effects
    BY TickFacts DEF WriteOutcome, At, TickOK, EffPc
  <1>2. j.outcome /\ job' = [job EXCEPT ![e] = j]
    BY TickFacts DEF WriteOutcome, WithOutcome, Tick, Job
  <1> HIDE DEF j, e
  <1>3. job'[e].outcome
    BY <1>1, <1>2 DEF TypeInv, TypeOK
  <1>4. CASE Goto(t, "settle_effect")
    BY <1>4, GotoOn, <1>3 DEF GoesOn, SameWork, e, WorkOver
  <1>5. CASE SaveNext(t, tick[t].cur)
    BY <1>5, SaveNextOn, UnwatchedOver DEF Watched, Paid
  <1> QED  BY <1>4, <1>5 DEF WriteOutcome

\* A settlement that begins without a result.
LEMMA BeginsOver ==
    ASSUME TypeInv, NEW t \in Threads, NEW j,
           \/ \E e, c, x : BeginSettle(t, e, "failed", c, x)
           \/ tick[t].pc \in AbortPc /\ \E e, th, left : AbortSettle(t, e, th, left)
    PROVE  WorkOver(tick'[t], j)
  BY TickFacts, BeginSettleOn, AbortSettleOn DEF TickOK, Ending, WorkOver

LEMMA FailingOver ==
    ASSUME TypeInv, NEW t \in Threads,
           DispatchErr(t) \/ ScheduleRetry(t) \/ AbortJob(t) \/ AbortNext(t)
    PROVE  WorkOver(tick'[t], job')
  <1>1. tick[t] \in Tick /\ tick \in [Threads -> Tick]
    BY TickFacts DEF TypeInv, TypeOK
  <1>2. CASE \E p \in {"reread", "abort_list", "terminal"} : Goto(t, p)
    BY <1>2, GotoOn, UnwatchedOver DEF GoesOn, Watched, Paid
  <1>3. CASE \E x : tick' = [tick EXCEPT ![t].pc = "retry", ![t].error = x]
    <2>1. tick'[t].pc = "retry"
      BY <1>1, <1>3 DEF Tick
    <2> QED  BY <2>1, UnwatchedOver DEF Watched, Paid
  <1>4. CASE tick[t].pc = "abort_next" /\ \E left : tick' = [tick EXCEPT ![t].todo = left]
    BY <1>1, <1>4, UnwatchedOver DEF Tick, Watched, Paid
  <1>5. CASE DispatchErr(t) \/ ScheduleRetry(t)
    BY <1>5, <1>2, <1>3, BeginsOver DEF DispatchErr, ScheduleRetry
  <1>6. CASE AbortJob(t) \/ AbortNext(t)
    <2> DEFINE list == tick[t].todo
    <2>1. tick[t].pc \in AbortPc /\ (AbortNext(t) => tick[t].pc = "abort_next")
      BY <1>6 DEF AbortJob, AbortNext, At, AbortPc
    <2>2. CASE AbortJob(t)
      BY <1>2, <2>1, <2>2, BeginsOver DEF AbortJob
    <2>3. CASE AbortNext(t)
      BY <2>3, <1>2, <1>4, <2>1, BeginsOver DEF AbortNext
    <2> QED  BY <1>6, <2>2, <2>3
  <1> QED  BY <1>5, <1>6

LEMMA AnsweringOver ==
    ASSUME TypeInv, NEW t \in Threads, PendingJob(t) \/ Reread(t) \/ FailedJob(t)
    PROVE  WorkOver(tick'[t], job')
  <1>1. tick[t] \in Tick /\ tick \in [Threads -> Tick]
    BY TickFacts DEF TypeInv, TypeOK
  <1>2. CASE \/ \E k : SaveNext(t, k) \/ EndTick(t) \/ Goto(t, "error") \/ \E s : BeginAbort(t, s)
    BY <1>2, SaveNextOn, EndTickOn, GotoOn, BeginAbortOn, UnwatchedOver DEF GoesOn, Watched, Paid
  <1>3. ASSUME NEW e, job[e].status \in JobTerminal, job' = job,
               tick'[t].eff = e, tick'[t].pc = "failed_job"
        PROVE  WorkOver(tick'[t], job')
    BY <1>3 DEF WorkOver, Paid
  <1>4. CASE PendingJob(t)
    <2> DEFINE e == tick[t].cur.pending
    <2>1. job' = job
      BY <1>4 DEF PendingJob, rows
    <2>2. CASE ConsumeCompleted(t, e, job[e]) \/ EndTick(t)
      BY <1>2, <2>2 DEF ConsumeCompleted, Err
    <2>3. CASE tick' = [tick EXCEPT ![t].pc = "claim", ![t].eff = e]
      <3>1. tick'[t].pc = "claim"
        BY <1>1, <2>3 DEF Tick
      <3> QED  BY <3>1, UnwatchedOver DEF Watched, Paid
    <2>4. CASE /\ job[e].status \in JobTerminal
               /\ tick' = [tick EXCEPT ![t].pc = "failed_job", ![t].eff = e, ![t].row = job[e]]
      BY <1>1, <2>4, <1>3, <2>1 DEF Tick
    <2> QED  BY <1>4, <2>2, <2>3, <2>4 DEF PendingJob
  <1>5. CASE Reread(t)
    <2> DEFINE e == tick[t].eff
    <2>1. job' = job
      BY <1>5 DEF Reread, rows
    <2>2. CASE \/ ConsumeCompleted(t, e, job[e]) \/ SaveNext(t, tick[t].cur)
               \/ BeginAbort(t, "failed")
      BY <1>2, <2>2 DEF ConsumeCompleted, Err
    <2>3. CASE /\ job[e].status \in JobTerminal
               /\ tick' = [tick EXCEPT ![t].pc = "failed_job", ![t].row = job[e]]
      BY <1>1, <2>3, <1>3, <2>1 DEF Tick
    <2> QED  BY <1>5, <2>2, <2>3 DEF Reread
  <1>6. CASE FailedJob(t)
    <2>1. CASE \E k : SaveNext(t, k)
      BY <1>2, <2>1
    <2>2. CASE ConsumeFailed(t, tick[t].row)
      <3>1. tick'[t].pc = "terminal"
        BY <1>1, <2>2 DEF ConsumeFailed, Tick, Cursor
      <3> QED  BY <3>1, UnwatchedOver DEF Watched, Paid
    <2> QED  BY <1>6, <2>1, <2>2 DEF FailedJob
  <1> QED  BY <1>4, <1>5, <1>6

LEMMA TickStepWork ==
    ASSUME TypeInv, NEW t \in Threads, WorkOver(tick[t], job), TickStep(t)
    PROVE  WorkOver(tick'[t], job')
  BY GoingUnwatched, WritingUnwatched, EndingUnwatched, UnwatchedOver, SettlingOver,
     SettleReadOver, WriteOutcomeOver, FailingOver, AnsweringOver DEF TickStep

LEMMA TickStepOver ==
    ASSUME AttemptInv, ThereInv, Backed, OverInv, NEW t \in Threads, TickStep(t)
    PROVE  OverInv'
  <1> SUFFICES ASSUME request' # "cancelled"
               PROVE  /\ \A e \in Effects : job'[e].status = "completed" => job'[e].outcome
                      /\ Over(cursor'.next, job')
                      /\ tick'[owner].pc # "idle" =>
                           cursor'.next <= tick'[owner].cur.next /\ OwnerOver(tick'[owner], job')
                      /\ tick'[owner].pc \in PlanPc \cup {"check"} =>
                           tick'[owner].cur.next = cursor'.next
    BY OwnerMoves DEF OverInv, CompletedHasOutcome
  <1>0. TypeInv /\ owner \in Threads /\ cursor.next \in Nat /\ tick[owner].cur.next \in Nat
    BY NextIsNat DEF AttemptInv
  <1>1. /\ t = owner /\ request # "cancelled"
        /\ \/ tick'[owner].cur = cursor /\ cursor' = cursor /\ tick[owner].pc = "idle"
              /\ request = "active" /\ tick'[owner].pc \in {"check", "finish"}
           \/ CursorSteps(owner)
    BY OwnerMoves
  <1> DEFINE r == tick[owner]
             n == r.cur.next
  <1>2. /\ \A e \in Effects : job[e].status = "completed" => job[e].outcome
        /\ Over(cursor.next, job)
        /\ r.pc # "idle" => cursor.next <= n /\ Over(n, job)
        /\ WorkOver(r, job)
        /\ r.pc \in Places => n = cursor.next
    BY <1>1 DEF OverInv, CompletedHasOutcome, OwnerOver, WorkOver, Paid, Places
  <1>3. JobWrites(owner)
    BY <1>0, <1>1, <1>2, TickStepWrites DEF WorkOver
  <1>4. \A e \in Effects : job'[e].status = "completed" => job'[e].outcome
    <2> SUFFICES ASSUME NEW e \in Effects, job'[e].status = "completed" PROVE job'[e].outcome
      OBVIOUS
    <2>1. CASE JobKept(e)
      BY <1>2, <2>1 DEF JobKept
    <2>2. CASE e = r.eff /\ r.pc \in ThereAt \cup {"enqueue"}
      BY <1>2, <1>3, <2>2 DEF JobWrites
    <2> QED  BY <1>3, <2>1, <2>2 DEF JobWrites
  <1>5. ASSUME r.pc # "idle" PROVE Over(n, job')
    <2> SUFFICES ASSUME NEW e \in Effects, e < n PROVE job'[e].status \in JobTerminal
      BY DEF Over
    <2>1. job[e].status \in JobTerminal
      BY <1>2, <1>5 DEF Over
    <2>2. CASE r.pc \in HeldAt \/ (r.pc \in SettlePc /\ r.then = "executor")
      BY <1>0, <2>2, StandsAt, <1>1, <1>3, <2>1, StaysOver DEF Effects
    <2>3. CASE r.pc \in SettlePc /\ r.then # "executor"
      BY <1>0, <1>1, <1>3, <2>1, <2>3, StaysOver
    <2>4. CASE r.pc \notin HeldAt \cup SettlePc
      BY <2>4, <1>3, <2>1 DEF HeldAt, ThereAt, PlanPc, ExecPc, SettlePc, JobWrites, JobKept,
         InHand, JobTerminal
    <2> QED  BY <2>2, <2>3, <2>4
  <1>6. WorkOver(tick'[owner], job')
    BY <1>0, <1>1, <1>2, TickStepWork
  <1>7. CASE /\ tick'[owner].cur = cursor /\ cursor' = cursor /\ r.pc = "idle"
    BY <1>3, <1>7, <1>2, <1>0, <1>4, <1>6 DEF JobWrites, ThereAt, ExecPc, SettlePc, Over, JobKept,
       InHand, JobTerminal, OwnerOver
  <1>8. CASE CursorSteps(owner)
    <2>1. Over(cursor'.next, job')
      <3>1. CASE r.pc # "idle"
        BY <1>8, <1>0, <1>2, <3>1, <1>5 DEF CursorSteps, PlansStep, EndsStep, MovesStep,
           PassesStep, Follows, Over, Effects
      <3>2. CASE r.pc = "idle"
        <4>1. \A e \in Effects : JobKept(e)
          BY <1>3, <3>2 DEF JobWrites, ThereAt, ExecPc, SettlePc
        <4>2. cursor' = cursor
          BY <1>8, <3>2 DEF CursorSteps, PlansStep, EndsStep, MovesStep, PassesStep, Follows,
             Places, PlanPc
        <4> QED  BY <1>2, <4>1, <4>2 DEF Over, JobKept, InHand, JobTerminal
      <3> QED  BY <3>1, <3>2
    <2>2. tick'[owner].pc # "idle" =>
             cursor'.next <= tick'[owner].cur.next /\ Over(tick'[owner].cur.next, job')
      <3>1. CASE PlansStep(owner)
        BY <1>0, <1>2, <1>5, <3>1 DEF PlansStep, Places, PlanPc
      <3>2. CASE MovesStep(owner)
        BY <1>0, <1>2, <1>5, <3>2 DEF MovesStep, Follows
      <3>3. CASE EndsStep(owner)
        BY <3>3 DEF EndsStep
      <3>4. CASE PassesStep(owner)
        <4>1. cursor'.next <= n + 1
          BY <1>0, <1>2, <3>4 DEF PassesStep
        <4>2. job' = job /\ job[n].status \in JobTerminal
          BY <1>2, <3>4 DEF PassesStep, WorkOver
        <4>3. Over(n + 1, job')
          <5> SUFFICES ASSUME NEW e \in Effects, e < n + 1 PROVE job'[e].status \in JobTerminal
            BY DEF Over
          <5>1. e < n \/ e = n
            BY <1>0 DEF Effects
          <5> QED  BY <1>2, <3>4, <4>2, <5>1 DEF Over, PassesStep
        <4> QED  BY <3>4, <4>1, <4>3 DEF PassesStep
      <3> QED  BY <1>8, <3>1, <3>2, <3>3, <3>4 DEF CursorSteps
    <2>3. tick'[owner].pc \in Places => tick'[owner].cur.next = cursor'.next
      BY <1>2, <1>8 DEF CursorSteps, PlansStep, EndsStep, MovesStep, PassesStep, Places, PlanPc
    <2> QED  BY <1>4, <1>6, <2>1, <2>2, <2>3 DEF OwnerOver, Places
  <1> QED  BY <1>1, <1>7, <1>8

LEMMA AroundLimit ==
    ASSUME MaxSteals = 0, AttemptInv, LimitInv, Around \/ UNCHANGED vars
    PROVE  LimitInv'
  <1>1. ASSUME NEW w \in Workers PROVE ~Steal(w)
    BY DEF Steal, AttemptInv, TypeInv, TypeOK
  <1>2. UNCHANGED <<reservation, commit, cursor, owner>>
    BY <1>1 DEF Around, Expire, BecomeDue, Recover, Cancel, Crash, rows, vars
  <1>3. request' = request \/ request' = "cancelled"
    BY <1>1 DEF Around, Expire, BecomeDue, Recover, Cancel, Crash, vars
  <1>4. tick' = tick \/ tick'[owner].pc = "idle"
    <2>1. CASE Crash
      BY <2>1, OwnerFacts DEF Crash, Resting
    <2>2. CASE ~Crash
      BY <1>1, <2>2 DEF Around, Expire, BecomeDue, Recover, Cancel, vars
    <2> QED  BY <2>1, <2>2
  <1> QED  BY <1>2, <1>3, <1>4 DEF LimitInv

LEMMA AroundOver ==
    ASSUME MaxSteals = 0, AttemptInv, OverInv, Around \/ UNCHANGED vars
    PROVE  OverInv'
  <1>0. TypeInv
    BY DEF AttemptInv
  <1>1. ASSUME NEW w \in Workers PROVE ~Steal(w)
    BY DEF Steal, AttemptInv, TypeInv, TypeOK
  <1>2. CASE Cancel
    BY <1>2 DEF Cancel, OverInv
  <1>3. CASE ~Cancel
    <2>1. UNCHANGED <<cursor, owner, request>>
      BY <1>1, <1>3 DEF Around, Expire, BecomeDue, Recover, Crash, rows, vars
    <2>2. tick' = tick \/ tick'[owner].pc = "idle"
      <3>1. CASE Crash
        BY <3>1, OwnerFacts DEF Crash, Resting
      <3>2. CASE ~Crash
        BY <1>1, <1>3, <3>2 DEF Around, Expire, BecomeDue, Recover, vars
      <3> QED  BY <3>1, <3>2
    <2>3. \A e \in Effects : /\ job'[e].outcome = job[e].outcome
                             /\ \/ job'[e].status = job[e].status
                                \/ InHand(job[e]) /\ job'[e].status # "completed"
      <3>1. CASE Recover
        BY <1>0, <3>1, RecoveredKept DEF Recover
      <3>2. ASSUME NEW d \in Effects, Expire(d) \/ BecomeDue(d)
            PROVE  \A e \in Effects : job'[e].status = job[e].status /\ job'[e].outcome = job[e].outcome
        BY <1>0, <3>2 DEF Expire, BecomeDue, TypeInv, TypeOK, Job
      <3>3. CASE Crash \/ UNCHANGED vars
        BY <3>3 DEF Crash, rows, vars
      <3> QED  BY <1>1, <1>3, <3>1, <3>2, <3>3 DEF Around
    <2>4. \A n : Over(n, job) => Over(n, job')
      BY <2>3 DEF Over, InHand, JobTerminal
    <2>5. CompletedHasOutcome => CompletedHasOutcome'
      BY <2>1, <2>3 DEF CompletedHasOutcome
    <2>6. tick[owner].pc \in Watched => tick[owner].eff \in Effects
      BY OwnerFacts DEF TickOK, EffPc, SettlePc, Watched, Paid
    <2>7. WorkOver(tick[owner], job) => WorkOver(tick[owner], job')
      BY <2>3, <2>6 DEF WorkOver, Watched, Paid, InHand, JobTerminal
    <2> QED  BY <2>1, <2>2, <2>4, <2>5, <2>7 DEF OverInv, OwnerOver, PlanPc
  <1> QED  BY <1>2, <1>3

LEMMA InitLedger == Init => LimitInv /\ OverInv
  <1> SUFFICES ASSUME Init PROVE LimitInv /\ OverInv
    OBVIOUS
  <1>1. /\ TypeInv /\ owner \in Threads /\ tick[owner].pc = "idle" /\ cursor.next = 1
        /\ \A e \in Effects : /\ reservation[e] = "absent" /\ ~commit[e].there
                              /\ job[e].status = "absent"
    BY InitType DEF Init, Threads, Resting, NewCursor, NoCommit, AbsentJob
  <1> DEFINE f == Charges(reservation, commit)
  <1>2. \A e \in Effects : f[e] = 0
    BY <1>1 DEF Charges, ChargeOf
  <1>3. Fits(f)
    <2>1. \A e \in Effects : f[e] = IF e \in {} THEN f[e] ELSE 0
      BY <1>2
    <2> HIDE DEF f
    <2>2. SumFunctionOnSet(f, {}) = SumFunctionOnSet(f, Effects)
      BY <2>1, EffectsFinite, SumOfPart
    <2>3. SumFunctionOnSet(f, Effects) = 0
      BY <2>2, SumOfNone
    <2> QED  BY <2>3, LimitIsNat DEF Fits
  <1>4. LimitInv
    BY <1>1, <1>3 DEF LimitInv, Ahead
  <1>5. OverInv
    BY <1>1 DEF OverInv, CompletedHasOutcome, Over, Effects, PlanPc
  <1> QED  BY <1>4, <1>5

LEMMA LedgerStep == MaxSteals = 0 /\ LedgerInv /\ BookInv' /\ AttemptInv' /\ [Next]_vars => LedgerInv'
  <1> SUFFICES ASSUME MaxSteals = 0, LedgerInv, BookInv', AttemptInv', [Next]_vars PROVE LedgerInv'
    OBVIOUS
  <1>1. AttemptInv /\ TypeInv /\ ThereInv /\ Backed /\ LimitInv /\ OverInv
    BY DEF LedgerInv, BookInv
  <1>2. ThereInv' /\ LimitInv' /\ OverInv'
    <2>1. CASE \E t \in Threads : TickStep(t)
      BY <1>1, <2>1, TickStepThere, TickStepLimit, TickStepOver
    <2>2. CASE Around \/ UNCHANGED vars
      BY <1>1, <2>2, AroundThere, AroundLimit, AroundOver
    <2> QED  BY <2>1, <2>2 DEF Next, Around
  <1> QED  BY <1>2 DEF LedgerInv

\* The ledger counts of an effect its charge, and what it went over.
LEMMA LedgerBounds ==
    ASSUME TypeInv, OneOfBoth, Fits(Charges(reservation, commit))
    PROVE  LedgerBounded
  <1> SUFFICES ASSUME MaxCost # NoLimit, Ledger # Unknown PROVE Ledger <= MaxCost + Overrun
    BY DEF LedgerBounded
  <1> DEFINE f == Charges(reservation, commit)
             o == [e \in Effects |-> OverrunOf(e)]
             g == [e \in Effects |-> f[e] + o[e]]
             x == SumFunctionOnSet(f, Effects)
             y == SumFunctionOnSet(o, Effects)
             z == SumFunctionOnSet(Counted, Effects)
             w == SumFunctionOnSet(g, Effects)
  <1>1. AllKnown /\ Counted \in Amounts /\ Ledger = z
    BY LedgerCounts
  <1>2. f \in Amounts /\ \A e \in Effects : f[e] = ChargeOf(reservation[e], commit[e], Estimate[e])
    BY ChargesFacts DEF TypeInv, TypeOK
  <1>3. \A e \in Effects : o[e] \in Int
    BY <1>1, EffectsAssumption DEF OverrunOf, AllKnown
  <1>4. \A e \in Effects : Counted[e] <= ChargeOf(reservation[e], commit[e], Estimate[e]) + OverrunOf(e)
    <2> SUFFICES ASSUME NEW e \in Effects
                 PROVE  SpentOf(e) + HeldOf(e) <= ChargeOf(reservation[e], commit[e], Estimate[e]) + OverrunOf(e)
      BY DEF Counted
    <2>1. Estimate[e] \in Nat /\ (commit[e].there => commit[e].cost \in Nat /\ commit[e].cost # Unknown)
      BY <1>1, EffectsAssumption, LedgerAssumption DEF AllKnown
    <2>2. CASE reservation[e] = "reserved"
      BY <2>2, <2>1 DEF OneOfBoth, SpentOf, HeldOf, ChargeOf, OverrunOf
    <2>3. CASE reservation[e] # "reserved"
      BY <2>1, <2>3 DEF SpentOf, HeldOf, ChargeOf, OverrunOf
    <2> QED  BY <2>2, <2>3
  <1>5. \A e \in Effects : f[e] \in Int /\ Counted[e] \in Int /\ g[e] = f[e] + o[e]
    BY <1>1, <1>2 DEF Amounts
  <1>6. \A e \in Effects : Counted[e] <= g[e] /\ g[e] \in Int
    BY <1>2, <1>3, <1>4, <1>5
  <1>7. Overrun = y
    BY DEF Overrun
  <1>8. x <= MaxCost
    BY DEF Fits
  <1> HIDE DEF f, g, o
  <1>9. z <= w
    BY <1>5, <1>6, EffectsFinite, SumsOrdered
  <1>10. w = x + y
    BY <1>3, <1>5, EffectsFinite, SumsAdd
  <1>11. x \in Int /\ y \in Int /\ z \in Int
    BY <1>3, <1>5, EffectsFinite, SumTakes
  <1> HIDE DEF x, y, z, w
  <1>12. z <= MaxCost + y
    BY <1>8, <1>9, <1>10, <1>11, LimitIsNat
  <1> QED  BY <1>1, <1>7, <1>12

LEMMA LedgerInvBooks == LedgerInv => BooksHold
  <1> SUFFICES ASSUME LedgerInv PROVE BooksHold
    OBVIOUS
  <1>1. LedgerBounded
    BY LedgerBounds DEF LedgerInv, BookInv, ThereInv, LimitInv
  <1>2. CompletedHasOutcome
    BY DEF LedgerInv, OverInv, CompletedHasOutcome
  <1>3. ConsumedIsOver
    BY DEF LedgerInv, OverInv, Over, ConsumedIsOver
  <1> QED  BY <1>1, <1>2, <1>3 DEF BooksHold

LEMMA AttemptsKept ==
    ASSUME MaxSteals = 0
    PROVE  Spec => []AttemptInv
  <1>1. AttemptInv /\ [Next]_vars => AttemptInv'
    <2> SUFFICES ASSUME AttemptInv, [Next]_vars PROVE AttemptInv'
      OBVIOUS
    <2>1. (\E t \in Threads : TickStep(t)) \/ Around \/ UNCHANGED vars
      BY DEF Next, Around
    <2> QED  BY <2>1, TickStepInv, AroundInv
  <1> QED  BY <1>1, InitAttempt, PTL DEF Spec

\* While the run request keeps its lease, the rows of the ledger, of the jobs and
\* of the cursor agree after every statement: admitting an effect
\* (breach_for_request) and reserving for it
\* (record_runtime_effect_planned) are two transactions, and so are the job's
\* outcome (runtime_outcome_from_job) and the settling of its reservation
\* (record_runtime_effect_completed), and yet the limit is kept, a completed job
\* has its outcome, and the cursor passes nothing unfinished, whatever crashes,
\* job leases lapse or cancellation comes between two of them.
THEOREM BooksStayTrue ==
    ASSUME MaxSteals = 0
    PROVE  Spec => []BooksHold
  <1>1. Init /\ BookInv /\ AttemptInv => LedgerInv
    BY InitThere, InitLedger DEF LedgerInv
  <1>2. LedgerInv /\ BookInv' /\ AttemptInv' /\ [Next]_vars => LedgerInv'
    BY LedgerStep
  <1> QED  BY <1>1, <1>2, LedgerInvBooks, BooksKept, AttemptsKept, PTL DEF Spec
=============================================================================
