----------------------------- MODULE PipelineLanes -----------------------------
(***************************************************************************)
(* The async pipelines of a GEPA run (synth_gepa/lib.rs, pipeline.rs):      *)
(* async_pipelined and flash_evolve.  The handlers of GepaRun stay; the one *)
(* active evaluation of the cursor becomes a set of partials that travel    *)
(* between a propose, a rollout and an evaluate lane, each planned job is   *)
(* held by a lane lease, and a tick first consumes what has finished and    *)
(* otherwise schedules.  Every handler of GepaRun saves the cursor itself   *)
(* and the lane code saves it once more, so a process may die in between.   *)
(* The guarded and full staleness policies are modelled, reflective review  *)
(* is not.                                                                  *)
(***************************************************************************)
EXTENDS GepaRun

CONSTANTS
    Modes,             \* pipeline modes: {"async_pipelined", "flash_evolve"}
    Guarded,           \* staleness_policy is guarded
    DeltaMax,          \* delta_max
    ProposeWorkers, RolloutWorkers,
    MaxInFlight,       \* mode -> max_in_flight_candidates
    Speculative,       \* speculative_completion.enabled
    Alpha,             \* speculative_completion.alpha in percent
    Adaptive,          \* adaptive_rollout_concurrency.enabled
    MinLimit, MaxLimit, InitialLimit, IncreaseAfter

ASSUME LanesAssumption ==
    /\ Modes \subseteq {"async_pipelined", "flash_evolve"} /\ Modes # {}
    /\ Guarded \in BOOLEAN /\ DeltaMax \in Nat
    /\ ProposeWorkers \in Nat /\ RolloutWorkers \in Nat /\ \A m \in Modes : MaxInFlight[m] \in Nat \ {0}
    /\ Speculative \in BOOLEAN /\ Alpha \in 0 .. 100
    /\ Adaptive \in BOOLEAN /\ IncreaseAfter \in Nat \ {0}
    /\ MinLimit \in Nat /\ MaxLimit \in Nat /\ InitialLimit \in Nat /\ MinLimit <= MaxLimit

VARIABLE lane      \* what the tick under way does: Nothing, Fill, or the job it consumes

lvars == <<vars, lane>>

Nothing == NoJob
Fill    == <<"fill">>

-----------------------------------------------------------------------------
(* GepaAsyncPipelineState *)

Clamp(n, low, high) == Max({low, AtMost(n, high)})

NoVersion == -1

NewPipe(mode) ==
    [mode |-> mode, leases |-> << >>, proposeQ |-> <<>>, rolloutQ |-> <<>>, evalQ |-> <<>>,
     partials |-> << >>, parentPool |-> NoVersion, releases |-> {},
     limit |-> Clamp(InitialLimit, MinLimit, MaxLimit), streak |-> 0]

LanesInit ==
    /\ \E mode \in Modes : cur = NewCursor @@ [pipe |-> NewPipe(mode)]
    /\ candLog = [x \in Ids |-> Unlogged]
    /\ roundLog = << >> /\ jobs = << >> /\ frames = << >>
    /\ at = 0 /\ error = None /\ failures = 0 /\ crashes = 0
    /\ lane = Nothing

Barrier(c) == c.pipe.mode = "async_pipelined"      \* uses_generation_barrier

Cands(a) == [i \in DOMAIN a.evals |-> a.evals[i].cand]   \* candidate_ids_for_active

\* async_partial_id, and the id of a speculative release of a partial.
PartialId(a) == <<a.stage, a.gen>>
ReleaseId(id) == Append(id, "speculative")

\* async_work_item_from_active
Item(a, version, id) ==
    [partial |-> id, stage |-> a.stage, version |-> version, cands |-> Range(Cands(a))]

Partial(a, version, tail) ==
    [stage |-> a.stage, version |-> version, active |-> a, cands |-> Range(Cands(a)), tail |-> tail]

\* upsert_async_partial_from_active: the metadata of the partial survives.
Upsert(c, id, version) ==
    LET tail == id \in DOMAIN c.pipe.partials /\ c.pipe.partials[id].tail
    IN  [c EXCEPT !.pipe.partials = (id :> Partial(c.active, version, tail)) @@ @]

Drop(c, id) == [c EXCEPT !.pipe.partials = [i \in DOMAIN @ \ {id} |-> @[i]]]

\* restore_async_partial_as_active
Restore(c, id) ==
    IF id \in DOMAIN c.pipe.partials THEN [c EXCEPT !.active = c.pipe.partials[id].active] ELSE c

ClearLanes(c) ==
    [c EXCEPT !.pipe.leases = << >>, !.pipe.proposeQ = <<>>, !.pipe.rolloutQ = <<>>,
              !.pipe.evalQ = <<>>, !.pipe.partials = << >>]

\* refresh_async_pipeline_cursor_state: both are counted anew at every tick.
PoolVersion(c) == Cardinality({x \in Registered(c) : Selectable(c, x)})

Queued(c) == Range(c.pipe.rolloutQ) \cup Range(c.pipe.evalQ)
Leases(c, which) == {k \in DOMAIN c.pipe.leases : c.pipe.leases[k].lane = which}

\* async_pipeline_in_flight_candidate_count
InFlight(c) ==
    Cardinality(UNION ({c.pipe.partials[id].cands : id \in DOMAIN c.pipe.partials}
                       \cup {i.cands : i \in Queued(c)}
                       \cup {c.pipe.leases[k].cands : k \in DOMAIN c.pipe.leases}))

\* async_stage_work_pending
StagePending(c, stages) ==
    \/ \E id \in DOMAIN c.pipe.partials : c.pipe.partials[id].stage \in stages
    \/ \E i \in Queued(c) : i.stage \in stages
    \/ \E k \in DOMAIN c.pipe.leases : k[1] \in stages

NoLaneWork(c) ==
    DOMAIN c.pipe.leases = {} /\ c.pipe.proposeQ = <<>> /\ c.pipe.rolloutQ = <<>>
    /\ c.pipe.evalQ = <<>>

\* Mutant: only the budget stops the run.
StopperOnBudget(c) == TrainBudgetReached(c)

\* async_pipeline_idle, async_pipeline_stopper_satisfied
Idle(c) == NoLaneWork(c) /\ c.queue = <<>> /\ c.active = NoActive
StopperSatisfied(c) == c.gen >= MaxGenerations \/ TrainBudgetReached(c)

\* adaptive_rollout_lane_limit, without adaptive stage workers
RolloutLimit(c) ==
    LET workers == Max({RolloutWorkers, 1})
    IN  IF Adaptive THEN Max({AtMost(Clamp(c.pipe.limit, MinLimit, MaxLimit), workers), 1})
        ELSE workers

\* record_adaptive_rollout_success, record_adaptive_rollout_overload
Raised(c, n) ==
    IF n = 0 \/ ~Adaptive THEN c
    ELSE IF c.pipe.streak + n < IncreaseAfter THEN [c EXCEPT !.pipe.streak = @ + n]
    ELSE [c EXCEPT !.pipe.streak = 0,
                   !.pipe.limit = Clamp(Max({(@ * 11 + 9) \div 10, @ + 1}), MinLimit, MaxLimit)]

Lowered(c) ==
    IF ~Adaptive THEN c
    ELSE [c EXCEPT !.pipe.streak = 0, !.pipe.limit = Clamp(@ \div 2, MinLimit, MaxLimit)]

\* The cursor in memory after the writes of a handler, and the lane code's own
\* save after them.
After(c, ws) ==
    FoldLeft(LAMBDA d, w : IF w.kind = "save" THEN w.to ELSE d, c, ws)

\* queue_async_active_rollout_continuation
Continue(c, version) ==
    LET id == PartialId(c.active)
        d  == Upsert(c, id, version)
    IN  IF c.active = NoActive \/ ActiveDone(c.active) THEN [c EXCEPT !.active = NoActive]
        ELSE [d EXCEPT !.pipe.rolloutQ = Append(@, Item(c.active, version, id)),
                       !.active = NoActive]

-----------------------------------------------------------------------------
(* Speculative completion *)

CompletedRows(a) == FoldLeft(LAMBDA n, e : n + Cardinality(RowsDone(e)), 0, a.evals)
TotalRows(a)     == FoldLeft(LAMBDA n, e : n + Len(e.rows), 0, a.evals)

\* speculative_partial_exceeds_threshold for one completed candidate: its average
\* reaches the best's on train rows, or beats its parent's reference.
ExceedsThreshold(c, stage, e) ==
    LET own    == SumOver(e.cand, stage, e.scored)
        scored == Cardinality(e.scored)
        parent == c.cand[e.cand].parent
    IN  /\ scored > 0
        /\ IF stage = "candidate_full_train"
           THEN \/ c.best = None \/ ~c.cand[c.best].train
                \/ own * Max({Cardinality(TrainScored(c.best)), 1}) >= TrainSum(c.best) * scored
           ELSE /\ HasFrames(parent, "parent_minibatch_reference", e.rows)
                /\ own * Len(e.rows) > Total(parent, "parent_minibatch_reference", e.rows) * scored

\* maybe_enqueue_speculative_evaluate_item: the finished candidates of a partial
\* that is far enough along go to the evaluate lane as a partial of their own.
Release(c, id, version) ==
    LET a    == c.active
        done == SelectSeq(a.evals, LAMBDA e : e.rows # <<>> /\ EvalDone(e))
        r    == Active(a.stage, a.gen, done)
    IN  IF /\ c.pipe.mode = "flash_evolve" /\ Speculative
           /\ ~ActiveDone(a)
           /\ a.stage \in {"candidate_minibatch", "candidate_full_train"}
           /\ id \notin c.pipe.releases
           /\ CompletedRows(a) * 100 >= Alpha * TotalRows(a)
           /\ \E i \in DOMAIN done : ExceedsThreshold(c, a.stage, done[i])
        THEN [c EXCEPT !.pipe.partials =
                          [i \in DOMAIN @ |-> IF i = id THEN [@[i] EXCEPT !.tail = TRUE] ELSE @[i]]
                          @@ (ReleaseId(id) :> Partial(r, version, FALSE)),
                       !.pipe.evalQ = Append(@, Item(r, version, ReleaseId(id))),
                       !.pipe.releases = @ \cup {id}]
        ELSE c

-----------------------------------------------------------------------------
(* Consuming finished work: consume_async_lane_work *)

\* The lease of a job is turned into the pending job of the cursor.
Taken(c, k) ==
    LET le == c.pipe.leases[k]
        d  == [Restore(c, le.partial) EXCEPT !.pending = k]
    IN  IF le.lane = "rollout" THEN d
        ELSE [d EXCEPT !.pipe.parentPool = le.version, !.parent = le.parent,
                       !.gen = IF d.active = NoActive THEN @ ELSE d.active.gen]

\* Mutant: the propose queue still holds the finished proposer.
ReleasedKeepingProposal(c, k) ==
    [c EXCEPT !.pending = NoJob, !.pipe.leases = [j \in DOMAIN @ \ {k} |-> @[j]]]

\* The lease is given back; a rollout goes on in the rollout or the evaluate lane.
Released(c, k) ==
    LET le == c.pipe.leases[k]
    IN  [c EXCEPT !.pending = NoJob,
                  !.pipe.leases = [j \in DOMAIN @ \ {k} |-> @[j]],
                  !.pipe.proposeQ = SelectSeq(@, LAMBDA i : i # le.partial)]

Folded(c, k) ==
    LET le == c.pipe.leases[k]
        d  == Release(Released(c, k), le.partial, le.version)
        e  == Upsert(d, le.partial, le.version)
        i  == Item(c.active, le.version, le.partial)
    IN  IF c.active = NoActive THEN Released(c, k)
        ELSE IF ActiveDone(c.active)
        THEN [e EXCEPT !.pipe.evalQ = Append(@, i), !.active = NoActive]
        ELSE [e EXCEPT !.pipe.rolloutQ = Append(@, i), !.active = NoActive]

\* A tick with no pending job, past the seed's planning.
SeedUnplanned(c) ==
    c.phase = "SeedFullTrain" /\ c.active = NoActive
    /\ <<"seed_full_train", 0>> \notin DOMAIN c.pipe.partials

LaneTick ==
    /\ ~Ended /\ at = 0 /\ lane = Nothing /\ cur.pending = NoJob
    /\ cur.phase # "Initializing" /\ ~SeedUnplanned(cur)

\* Job ids are digests, so the first of several finished leases is any of them.
Finished(c) == {k \in DOMAIN c.pipe.leases : jobs[k].status \in {"completed", "failed"}}

\* The children of a finished rollout batch, each saved before the next one.
ChildTurns ==
    IF LaneTick
    THEN {<<Taken(cur, k), k>> : k \in {j \in Finished(cur) : IsRollout(j) /\ jobs[j].status = "completed"}}
    ELSE IF ~Ended /\ lane \in DOMAIN cur.pipe.leases /\ at < Len(lane[2]) THEN {<<cur, lane>>}
    ELSE {}

ConsumeLaneChild ==
    \E turn \in ChildTurns :
       /\ ConsumeChildFrom(turn[1])
       /\ lane' = IF error' = None THEN turn[2] ELSE Nothing

FoldLane ==
    /\ ~Ended /\ lane \in DOMAIN cur.pipe.leases /\ at = Len(lane[2])
    /\ LET c  == [cur EXCEPT !.pending = NoJob]
           ws == <<Save(c), Save(Folded(c, lane))>>
       IN  Writes(ws)
    /\ at' = 0 /\ lane' = Nothing
    /\ UNCHANGED <<frames, failures>>

ConsumeLaneProposals ==
    /\ LaneTick
    /\ \E k \in Finished(cur) :
         /\ ~IsRollout(k) /\ jobs[k].status = "completed"
         /\ LET c == Taken(cur, k)
                d == [RunTo(c, {"Proposing"}, "RolloutQueueing") EXCEPT
                        !.queue = jobs[k].result, !.pidx = 0, !.active = NoActive,
                        !.pending = NoJob, !.phase = "ProposerWaiting"]
            IN  Tick(<<Save(d), Save(Drop(Released(d, k), c.pipe.leases[k].partial))>>)
    /\ UNCHANGED lane

\* A batch that failed for good: every row fails and the partial goes on.
DegradeLane ==
    /\ LaneTick
    /\ \E k \in Finished(cur) :
         /\ IsRollout(k) /\ jobs[k].status = "failed"
         /\ LET c == Taken(cur, k)
            IN  Tick(IF Breaks(c, k) THEN <<Fail("circuit breaker")>>
                     ELSE <<Save(Folded(Degraded(c, k), k))>>)
    /\ UNCHANGED lane

-----------------------------------------------------------------------------
(* The evaluate lane *)

Settled == {"accepted", "rejected_full_train", "rejected_minibatch", "discarded_stale",
            "deferred_budget"}

\* speculative_tail_obsolete
TailObsolete(c, item) ==
    /\ item.partial \in DOMAIN c.pipe.partials /\ c.pipe.partials[item.partial].tail
    /\ item.cands # {} /\ \A x \in item.cands : c.cand[x].status \in Settled

\* stale_item_disposition
Stale(c, item) ==
    ~Barrier(c) /\ Guarded /\ PoolVersion(c) - item.version > DeltaMax

\* absorb_obsolete_speculative_tail, discard_stale_evaluate_item
Absorb(c, item) ==
    Drop([c EXCEPT !.count = @ + ScoredRows(c.active.evals), !.active = NoActive], item.partial)

Discard(c, item) ==
    LET ids == IF c.active = NoActive THEN item.cands ELSE Range(Cands(c.active))
        hit(x) == x \in ids /\ c.cand[x].status \notin
                    {"accepted", "full_train_evaluated", "rejected_full_train"}
    IN  Drop([c EXCEPT !.cand = [x \in DOMAIN @ |->
                           IF hit(x) THEN [@[x] EXCEPT !.status = "discarded_stale"] ELSE @[x]],
                       !.active = NoActive], item.partial)

\* The head of the evaluate queue, with its partial restored.
Evaluated(c) == Restore([c EXCEPT !.pipe.evalQ = Tail(@)], Head(c.pipe.evalQ).partial)

\* Its finalization saves the cursor with the partial still in it, and the lane
\* code saves it without.
FoldEvaluation(c, d) ==
    LET item == Head(c.pipe.evalQ)
    IN  IF TailObsolete(c, item) THEN Tick(ToProposerWaiting(Absorb(d, item)))
        ELSE IF Stale(c, item) THEN Tick(ToProposerWaiting(Discard(d, item)))
        ELSE IF d.active = NoActive THEN Tick(<<Fail("no active evaluation")>>)
        ELSE \E ws \in {Finalize(d)} :
                Tick(ws \o <<Save(Continue(Drop(After(d, ws), item.partial), item.version))>>)

EvaluateLane ==
    /\ LaneTick /\ Finished(cur) = {} /\ cur.pipe.evalQ # <<>>
    /\ \E d \in {Evaluated(cur)} : FoldEvaluation(cur, d)
    /\ UNCHANGED lane

-----------------------------------------------------------------------------
(* Scheduling: schedule_async_lane_transition *)

Scheduling == LaneTick /\ Finished(cur) = {} /\ cur.pipe.evalQ = <<>>

Executable(c) == {k \in DOMAIN c.pipe.leases : jobs[k].status = "queued"}
Batched(ks)  == {k \in ks : IsRollout(k)}

\* execute_async_leased_runtime_job around advance_pending_runtime_job: the
\* cursor is saved with the job in its pending slot, then without.
Held(c, k) == [Restore(c, c.pipe.leases[k].partial) EXCEPT !.pending = k]

PutBack(c, k) ==
    LET le == c.pipe.leases[k]
        d  == IF c.active = NoActive THEN c ELSE Upsert(c, le.partial, le.version)
    IN  [d EXCEPT !.pending = NoJob, !.active = NoActive]

ExecuteLaneRollouts ==
    /\ Scheduling
    /\ \E k \in Batched(Executable(cur)) : \E result \in Outcomes(k) :
         LET c  == Raised(Held(cur, k), Len(k[2]) - Lost(result))
             ws == <<Settle(k, Done(result)), Save(c), Save(PutBack(c, k))>>
         IN  /\ Writes(ws)
             /\ failures' = failures + Lost(result)
    /\ UNCHANGED <<frames, at, lane>>

\* The batch fails, for good or with a retry that is due later; the provider may
\* have signalled overload.
FailLaneRollouts ==
    /\ Scheduling
    /\ \E k \in Batched(Executable(cur)) : \E c \in {Held(cur, k), Lowered(Held(cur, k))} :
       \E status \in {"failed", "retry"} :
         LET lost == IF status = "failed" THEN Len(k[2]) ELSE 1
             ws   == <<Settle(k, [status |-> status, result |-> << >>]), Save(c),
                       Save(PutBack(c, k))>>
         IN  /\ failures + lost <= MaxFailures
             /\ failures' = failures + lost
             /\ Writes(ws)
    /\ UNCHANGED <<frames, at, lane>>

\* optimizer_job_claimable: the backoff of a retry is over.
RetryDue ==
    /\ ~Ended /\ \E k \in DOMAIN jobs : /\ jobs[k].status = "retry"
                                       /\ jobs' = [jobs EXCEPT ![k].status = "queued"]
    /\ UNCHANGED <<cur, candLog, roundLog, frames, at, error, failures, crashes, lane>>

ExecuteLaneProposer ==
    /\ Scheduling
    /\ \E k \in Executable(cur) : ~IsRollout(k) /\
         \E batch \in Batches[k[2][1]] :
           LET c == Held(cur, k)
           IN  Tick(<<Settle(k, Done(batch)), LogRound(k, "Returned"),
                      LogRound(k, IF batch = <<>> THEN "ParseFailed" ELSE "ParsedOk"),
                      LogRound(k, "Closed"), Save(c), Save(PutBack(c, k))>>)
    /\ UNCHANGED lane

\* consume_failed_runtime_job, at once or, after a crash, in the next tick.
FailLaneProposer ==
    /\ \/ /\ Scheduling /\ failures < MaxFailures /\ failures' = failures + 1
          /\ \E k \in Executable(cur) :
               LET ws == <<Settle(k, [status |-> "failed", result |-> << >>])>>
                         \o Terminalize(Held(cur, k), "Failed")
               IN  ~IsRollout(k) /\ Writes(ws)
       \/ /\ LaneTick /\ UNCHANGED failures
          /\ \E k \in Finished(cur) :
               /\ ~IsRollout(k) /\ jobs[k].status = "failed"
               /\ LET ws == Terminalize(ClearLanes(cur), "Failed") IN Writes(ws)
    /\ UNCHANGED <<frames, at, lane>>

PhaseFor(stage) ==
    CASE stage = "seed_full_train" -> "SeedFullTrain"
      [] stage \in {"parent_minibatch_reference", "candidate_minibatch"} -> "CandidateMinibatch"
      [] stage = "candidate_full_train" -> "CandidateFullTrain"
      [] OTHER -> "Heldout"

\* schedule_async_rollout_job: items whose partial is gone are skipped; when
\* nothing is left the queue stays empty for the rest of the tick.
Live(c) == {n \in DOMAIN c.pipe.rolloutQ :
              c.active # NoActive \/ c.pipe.rolloutQ[n].partial \in DOMAIN c.pipe.partials}
RolloutRoom(c) == Cardinality(Leases(c, "rollout")) < RolloutLimit(c)
CanRollout(c) == RolloutRoom(c) /\ Live(c) # {}
Skipped(c) == IF RolloutRoom(c) /\ Live(c) = {} THEN [c EXCEPT !.pipe.rolloutQ = <<>>] ELSE c

Lease(c, which, item) ==
    [lane |-> which, partial |-> item.partial, version |-> item.version, parent |-> c.parent,
     cands |-> IF which = "rollout" THEN item.cands ELSE {}]

PlanRollout(c) ==
    \E n \in {Min(Live(c))} :
    \E r \in {Restore([c EXCEPT !.pipe.rolloutQ = SubSeq(@, n + 1, Len(@))], c.pipe.rolloutQ[n].partial)} :
    \E ws \in {PlanNext([r EXCEPT !.phase = PhaseFor(r.active.stage)])} :
    \E e \in {After([r EXCEPT !.phase = PhaseFor(r.active.stage)], ws)} :
       LET item == c.pipe.rolloutQ[n]
       IN  Tick(Append(ws, Save(
             IF e.pending = NoJob THEN Continue(e, item.version)
             ELSE [Upsert(e, item.partial, item.version) EXCEPT
                     !.pipe.leases = (e.pending :> Lease(e, "rollout", item)) @@ @,
                     !.pending = NoJob, !.active = NoActive])))

\* schedule_async_candidate_minibatches
CanMinibatch(c) ==
    /\ c.queue # <<>> /\ InFlight(c) < MaxInFlight[c.pipe.mode]
    /\ ~(Barrier(c) /\ StagePending(c, {"parent_minibatch_reference", "candidate_minibatch"}))

\* The writes ws of the proposer handler, then the planned group d as a partial.
PlanMinibatches(c, ws, d) ==
    LET v    == IF d.pipe.parentPool = NoVersion THEN PoolVersion(c) ELSE d.pipe.parentPool
        id   == PartialId(d.active)
        q    == [Upsert(d, id, v) EXCEPT !.pipe.rolloutQ = Append(@, Item(d.active, v, id)),
                                         !.active = NoActive]
    IN  IF d.active = NoActive THEN ws
        ELSE ws \o <<Save(IF ~Barrier(c) /\ q.pidx >= Len(q.queue)
                          THEN [q EXCEPT !.queue = <<>>, !.pidx = 0, !.gen = c.gen + 1,
                                         !.parent = None, !.pipe.parentPool = NoVersion]
                          ELSE q)>>

\* schedule_async_proposer_job
CanPropose(c) ==
    /\ Cardinality(Leases(c, "propose")) < Max({ProposeWorkers, 1})
    /\ c.pipe.proposeQ = <<>> /\ c.queue = <<>>
    /\ c.gen < MaxGenerations /\ InFlight(c) < MaxInFlight[c.pipe.mode] /\ ~TrainBudgetReached(c)
    /\ ~(Barrier(c) /\ StagePending(c, {"parent_minibatch_reference", "candidate_minibatch",
                                        "candidate_full_train"}))

PlanProposer(c, parent) ==
    LET selection == SelectBestTrain(c)
        key == ProposerJob(c.gen, parent)
        v   == PoolVersion(c)
        a   == Active("proposer", c.gen, <<Evaluation(parent, <<>>, 0)>>)
        d   == [RunTo(c, {"Ready"}, "Proposing") EXCEPT
                  !.best = selection.best, !.parent = parent, !.pipe.parentPool = v,
                  !.phase = "ProposerWaiting", !.active = a]
        e   == Upsert(d, PartialId(a), v)
    IN  IF ~selection.ok THEN <<Fail("missing score vector")>>
        ELSE <<PlanJob(key), LogRound(key, "Requested"), LogRound(key, "Dispatched"),
               LogRound(key, "Generating"),
               Save([e EXCEPT !.active = NoActive,
                              !.pipe.proposeQ = Append(@, PartialId(a)),
                              !.pipe.leases =
                                 (key :> Lease(d, "propose", Item(a, v, PartialId(a)))) @@ @])>>

SeedPending(c) == StagePending(c, {"seed_full_train"})
Eager(c) == ~Barrier(c) /\ StagePending(c, {"candidate_full_train"})

\* The transition a scheduling tick chooses, in the order of each mode.
Choice(c) ==
    IF Barrier(c)
    THEN IF CanRollout(c) THEN "rollout"
         ELSE IF SeedPending(Skipped(c)) THEN "none"
         ELSE IF CanMinibatch(Skipped(c)) THEN "minibatch"
         ELSE IF CanPropose(Skipped(c)) THEN "propose" ELSE "none"
    ELSE IF SeedPending(c) THEN IF CanRollout(c) THEN "rollout" ELSE "none"
         ELSE IF CanMinibatch(c) THEN "minibatch"
         ELSE IF Eager(c) /\ CanPropose(c) THEN "propose"
         ELSE IF CanRollout(c) THEN "rollout"
         ELSE IF CanPropose(Skipped(c)) THEN "propose" ELSE "none"

\* A planned job is followed, in the same tick, by as many rollout jobs as fit.
Refill ==
    lane' = IF error' = None /\ crashes' = crashes /\ CanRollout(cur') THEN Fill ELSE Nothing

ScheduleRollout ==
    /\ ~Ended /\ \/ lane = Fill
                 \/ Scheduling /\ Executable(cur) = {} /\ Choice(cur) = "rollout"
    /\ PlanRollout(cur)
    /\ IF DOMAIN cur'.pipe.leases # DOMAIN cur.pipe.leases THEN Refill ELSE lane' = Nothing

ScheduleMinibatches ==
    /\ Scheduling /\ Executable(cur) = {} /\ Choice(cur) = "minibatch"
    /\ \E c \in {IF Barrier(cur) THEN Skipped(cur) ELSE cur} :
       \E ws \in {ProposerWaiting([c EXCEPT !.phase = "ProposerWaiting"])} :
       \E d \in {After(c, ws)} : Tick(PlanMinibatches(c, ws, d))
    /\ UNCHANGED lane

ScheduleProposer ==
    /\ Scheduling /\ Executable(cur) = {} /\ Choice(cur) = "propose"
    /\ \E c \in {IF Eager(cur) /\ CanPropose(cur) THEN cur ELSE Skipped(cur)} :
         \E parent \in ParentChoices(c) : Tick(PlanProposer(c, parent))
    /\ Refill

-----------------------------------------------------------------------------
(* The other ticks: advance_gepa_async_pipeline_once *)

\* plan_async_seed_full_train
PlanSeed ==
    /\ ~Ended /\ at = 0 /\ lane = Nothing /\ cur.pending = NoJob /\ SeedUnplanned(cur)
    /\ LET a == Active("seed_full_train", cur.gen, <<Evaluation(Seed, TrainRows, 0)>>)
           d == Upsert([Running(cur) EXCEPT !.active = a], PartialId(a), 0)
       IN  Tick(IF TrainCapacity(cur) < NTrain \/ Breach THEN <<Fail("budget exceeded")>>
                ELSE <<Save([d EXCEPT !.active = NoActive,
                                      !.pipe.rolloutQ = Append(@, Item(a, 0, PartialId(a)))])>>)
    /\ UNCHANGED lane

\* Nothing to consume and nothing to schedule.
Quiet == Scheduling /\ Executable(cur) = {} /\ Choice(cur) = "none"

SerialTick ==
    \/ NoLaneWork(Skipped(cur)) /\ cur.phase \in {"Heldout", "Finalizing"}
    \/ Idle(Skipped(cur)) /\ StopperSatisfied(cur)

\* The ticks of the serial pipeline: initialization, the end of the search, the
\* heldout evaluation, and a job in the pending slot.
Serial ==
    \/ AdvanceInitializing
    \/ Quiet /\ SerialTick
       /\ (AdvanceGenerationStart \/ AdvanceProposerWaiting \/ AdvanceHeldout \/ AdvanceFinalizing)
    \/ ConsumeProposals \/ ConsumeChild \/ FinishConsume \/ DegradeJob \/ JobFails

SerialLane == lane = Nothing /\ Serial /\ UNCHANGED lane

\* ExecuteRollouts with the async plan at hand.
ExecuteHeldout ==
    /\ lane = Nothing /\ Pending("queued") /\ IsRollout(cur.pending)
    /\ \E result \in Outcomes(cur.pending) :
         /\ failures' = failures + Lost(result)
         /\ jobs' = [jobs EXCEPT ![cur.pending] = Done(result)]
         /\ cur' = Raised(cur, Len(cur.pending[2]) - Lost(result))
    /\ UNCHANGED <<candLog, roundLog, frames, at, error, crashes, lane>>

AbortLanes ==
    /\ Cancellable /\ ~Ended /\ at = 0 /\ lane = Nothing
    /\ Tick(CancelPending \o Terminalize(ClearLanes(cur), "Cancelled"))
    /\ UNCHANGED lane

\* Waiting for lane capacity or completions: the tick changes nothing durable.
Waiting == Quiet /\ ~SerialTick
Noop == (Ended \/ Waiting) /\ UNCHANGED lvars

DieInLane ==
    /\ ~Ended /\ (at > 0 \/ lane # Nothing)
    /\ crashes < MaxCrashes /\ crashes' = crashes + 1
    /\ at' = 0 /\ lane' = Nothing
    /\ UNCHANGED <<cur, candLog, roundLog, jobs, frames, error, failures>>

LaneAdvance ==
    \/ PlanSeed \/ ConsumeLaneChild \/ FoldLane \/ ConsumeLaneProposals \/ DegradeLane
    \/ EvaluateLane \/ ExecuteLaneRollouts \/ FailLaneRollouts \/ ExecuteLaneProposer
    \/ FailLaneProposer \/ RetryDue \/ ScheduleRollout \/ ScheduleMinibatches \/ ScheduleProposer
    \/ SerialLane \/ ExecuteHeldout \/ AbortLanes

LanesNext == LaneAdvance \/ DieInLane \/ Noop

\* The service keeps ticking the run it holds, and the backoff of a retry ends.
RetryPending == \E k \in DOMAIN jobs : jobs[k].status = "retry"
LanesFairness == []<>(Ended \/ (Waiting /\ ~RetryPending)) \/ []<><<LaneAdvance>>_lvars

LanesSpec == LanesInit /\ [][LanesNext]_lvars /\ LanesFairness

-----------------------------------------------------------------------------
(* Properties *)

\* Type invariant.
LanesTypeOK ==
    /\ cur.phase \in Phase /\ cur.run \in RunState
    /\ Registered(cur) \subseteq Ids /\ DOMAIN cur.cand = Registered(cur)
    /\ \A x \in Registered(cur) : cur.cand[x] \in CandidateRow
    /\ DOMAIN cur.pipe.leases \subseteq DOMAIN jobs
    /\ cur.pidx \in 0 .. Len(cur.queue) /\ cur.pipe.limit \in MinLimit .. MaxLimit
    /\ lane \in {Nothing, Fill} \cup DOMAIN jobs
    /\ at \in Nat /\ failures \in 0 .. MaxFailures /\ crashes \in 0 .. MaxCrashes

\* Until a crash strands work, a tick that finds nothing to consume or schedule is
\* waiting for a retry: no combination of barrier, lease limits, in-flight limit
\* and queues makes the lanes wait for one another.
NeverStuck == Waiting => crashes > 0 \/ RetryPending

\* A partial waits in exactly one queue or lease, so that its rows are planned once
\* and it reaches the evaluate lane once.
Holders(c, id) ==
    Cardinality({n \in DOMAIN c.pipe.rolloutQ : c.pipe.rolloutQ[n].partial = id})
    + Cardinality({n \in DOMAIN c.pipe.evalQ : c.pipe.evalQ[n].partial = id})
    + Cardinality({k \in DOMAIN c.pipe.leases : c.pipe.leases[k].partial = id})

EveryPartialIsHeld ==
    ~Ended /\ crashes = 0 /\ lane = Nothing =>
        \A id \in DOMAIN cur.pipe.partials : Holders(cur, id) = 1

\* Ticked for ever and never restarted, a pipelined run ends.
LanesEnd == <>(Ended \/ crashes > 0)

\* The lanes never wait for one another, hold every partial once, and respect
\* the budget and the transition log as the synchronous run does.
LanesSound ==
    LanesTypeOK /\ NeverStuck /\ EveryPartialIsHeld /\ WithinRolloutBudget /\ LogAcceptsTheRun
=============================================================================
