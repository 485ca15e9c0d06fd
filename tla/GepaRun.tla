------------------------------- MODULE GepaRun -------------------------------
(***************************************************************************)
(* One GEPA run in service mode, sync-serial pipeline (synth_gepa/lib.rs):  *)
(* the phases a run goes through from the seed to the deployed candidate.   *)
(*                                                                          *)
(* Every tick opens the workspace, restores the run from its latest cursor  *)
(* checkpoint and runs one handler.  A handler makes a sequence of durable  *)
(* writes: transitions in the transition log (a database of its own), job   *)
(* rows, sensor frames, and cursor checkpoints, usually one at the end.     *)
(* Handlers are operators that return that sequence; a tick makes all of    *)
(* it, or a prefix when the process dies.  The statements of a job's        *)
(* execution and the lease on the run are in RuntimeEffects and RunService. *)
(***************************************************************************)
EXTENDS TransitionLog, Integers, SequencesExt

CONSTANTS
    Seed,            \* candidate id of the seed
    Payloads,        \* candidate ids of the payloads a proposer may return
    Leaky,           \* those that quote labelled training text (policy forbid)
    Batches,         \* generation -> the proposal lists a proposer may return
    IdOrder,         \* the candidate ids in ascending order
    NTrain, NMini, NHeldout,   \* rows: train_rows, minibatch_size, heldout_rows
    MaxGenerations, ProposalsPerGeneration,
    MaxRollouts,     \* max_total_rollouts of the budget ledger
    TrainLimit,      \* train_rollout_limit()
    HeldoutLimit,    \* heldout_rollout_limit(), when budgets are split
    SplitBudgets,    \* split_rollout_budgets_enabled()
    AdmissionLimit(_),  \* pipeline_candidate_admission_limit()
    Chunk,           \* async_rollout_chunk_size
    Rewards,         \* rewards of a rollout
    AcceptEqual,     \* acceptance criteria are improvement_or_equal
    DeployHeldout,   \* deployment_rule is heldout_best
    Window, MinSamples, Tolerance,  \* rollout resilience; tolerance in percent
    MaxFailures,     \* bound: rollouts that fail for good
    MaxCrashes,      \* bound: ends of the process
    Cancellable      \* whether the user may cancel the run

None   == "none"
Failed == -1        \* outcome of a rollout without a reward
NoGen  == -1
Ids    == {Seed} \cup Payloads

ASSUME GepaAssumption ==
    /\ Seed \notin Payloads /\ None \notin Ids
    /\ Leaky \subseteq Payloads
    /\ \A g \in 0 .. MaxGenerations - 1 :
         Batches[g] # {} /\ Batches[g] \subseteq Seq([payload : Payloads, parent : Ids \cup {None}])
    /\ {IdOrder[i] : i \in DOMAIN IdOrder} = Ids
    /\ NTrain \in Nat \ {0} /\ NMini \in Nat /\ NHeldout \in Nat \ {0}
    /\ MaxGenerations \in Nat /\ ProposalsPerGeneration \in Nat
    /\ MaxRollouts \in Nat /\ TrainLimit \in Nat /\ HeldoutLimit \in Nat
    /\ SplitBudgets \in BOOLEAN /\ Chunk \in Nat \ {0}
    /\ Rewards \subseteq Nat /\ Rewards # {}
    /\ AcceptEqual \in BOOLEAN /\ DeployHeldout \in BOOLEAN
    /\ Window \in Nat \ {0} /\ MinSamples \in Nat /\ Tolerance \in 0 .. 100
    /\ MaxFailures \in Nat /\ MaxCrashes \in Nat /\ Cancellable \in BOOLEAN

VARIABLES
    cur,        \* the cursor checkpoint: GepaRunState
    candLog,    \* transition log: latest state of each candidate
    roundLog,   \* transition log: latest state of each proposer round
    jobs,       \* optimizer_jobs of the run, with their stored outcome
    frames,     \* sensor_frames: <<candidate, stage, row>> -> reward
    at,         \* children of the pending job consumed by the tick under way
    error,      \* the error that ended the run request, or None
    failures, crashes

vars == <<cur, candLog, roundLog, jobs, frames, at, error, failures, crashes>>

-----------------------------------------------------------------------------
(* Loops over a sequence, as functions of how far they have come. *)

Fold(Op(_, _), base, s) ==
    LET done[n \in 0 .. Len(s)] == IF n = 0 THEN base ELSE Op(done[n - 1], s[n])
    IN  done[Len(s)]

\* The function f with v at k.
Put(f, k, v) == [x \in DOMAIN f \cup {k} |-> IF x = k THEN v ELSE f[x]]

\* The elements of s that are in S, in their order.
Keep(s, S) ==
    LET kept[n \in 0 .. Len(s)] ==
          IF n = 0 THEN <<>>
          ELSE IF s[n] \in S THEN Append(kept[n - 1], s[n]) ELSE kept[n - 1]
    IN  kept[Len(s)]

-----------------------------------------------------------------------------
(* State *)

Terminal == {"Completed", "Failed", "Cancelled"}
Phase == Terminal \cup {"Initializing", "SeedFullTrain", "GenerationStart", "ProposerWaiting",
                        "CandidateMinibatch", "CandidateFullTrain", "Heldout", "Finalizing"}
Stage == {"proposer", "seed_full_train", "parent_minibatch_reference",
          "candidate_minibatch", "candidate_full_train", "heldout"}
GroupStage == {"candidate_minibatch", "candidate_full_train", "heldout"}

\* CandidateRecord: status, parent_id, and which rewards are set; the rewards
\* themselves are in the frames.  metaGen is acceptance_metadata.generation.
CandidateRow == [status : {"registered", "rejected_leakage", "deferred_budget",
                           "rejected_minibatch", "minibatch_evaluated",
                           "full_train_evaluated", "accepted", "rejected_full_train",
                           "discarded_stale"},
                 parent : Ids \cup {None},
                 mini : BOOLEAN, train : BOOLEAN, held : BOOLEAN,
                 metaGen : Nat \cup {NoGen}]

NewCandidate(parent, gen) ==
    [status |-> "registered", parent |-> parent, mini |-> FALSE, train |-> FALSE,
     held |-> FALSE, metaGen |-> gen]

\* GepaActiveCandidateEvaluation: the rows a candidate is evaluated on.
Evaluation(x, rows, offset) ==
    [cand |-> x, rows |-> rows, scored |-> {}, failed |-> {}, offset |-> offset]

\* active_evaluation; a single evaluation has one entry.
Active(stage, gen, evals) == [stage |-> stage, gen |-> gen, evals |-> evals]
NoActive == Active("none", 0, <<>>)

NoJob == <<"none">>
RolloutJob(stage, asks) == <<stage, asks>>       \* asks: <<candidate, row>> pairs
ProposerJob(gen, parent) == <<"proposer", <<gen, parent>>>>

NewCursor ==
    [phase |-> "Initializing", gen |-> 0, queue |-> <<>>, pidx |-> 0, hidx |-> 0,
     reg |-> <<>>, cand |-> << >>, best |-> None, selected |-> None, heldoutBest |-> None,
     deployment |-> None, parent |-> None, active |-> NoActive, pending |-> NoJob,
     count |-> 0, run |-> "Ready", samples |-> <<>>]

Init ==
    /\ cur = NewCursor
    /\ candLog = [x \in Ids |-> Unlogged]
    /\ roundLog = << >>
    /\ jobs = << >>
    /\ frames = << >>
    /\ at = 0
    /\ error = None
    /\ failures = 0 /\ crashes = 0

Registered(c) == Range(c.reg)
Ended == cur.phase \in Terminal \/ error # None

-----------------------------------------------------------------------------
(* Durable writes *)

LogCand(x, to)  == [kind |-> "cand", id |-> x, to |-> to]
LogRound(k, to) == [kind |-> "round", id |-> k, to |-> to]
PlanJob(k)      == [kind |-> "job", id |-> k, to |-> None]
Save(c)         == [kind |-> "save", id |-> None, to |-> c]
Settle(k, js)   == [kind |-> "settle", id |-> k, to |-> js]
Fail(why)       == [kind |-> "fail", id |-> None, to |-> why]

Latest(log, k) == IF k \in DOMAIN log THEN log[k] ELSE Unlogged

\* plan_runtime_effect_job answers with the job of that key when there is one.
QueuedJob == [status |-> "queued", result |-> << >>]
Planned(js, k) == IF k \in DOMAIN js THEN js ELSE Put(js, k, QueuedJob)

\* One write; a transition the table refuses is the error of the tick.
Write(s, w) ==
    IF s.error # None THEN s
    ELSE CASE w.kind = "cand" ->
                IF CandidateAllowed(s.candLog[w.id], w.to)
                THEN [s EXCEPT !.candLog[w.id] = w.to]
                ELSE [s EXCEPT !.error = "illegal transition"]
           [] w.kind = "round" ->
                IF RoundAllowed(Latest(s.roundLog, w.id), w.to)
                THEN [s EXCEPT !.roundLog = Put(@, w.id, w.to)]
                ELSE [s EXCEPT !.error = "illegal transition"]
           [] w.kind = "job"  -> [s EXCEPT !.jobs = Planned(@, w.id)]
           [] w.kind = "settle" -> [s EXCEPT !.jobs[w.id] = w.to]
           [] w.kind = "save" -> [s EXCEPT !.cur = w.to]
           [] w.kind = "fail" -> [s EXCEPT !.error = w.to]

Written(ws) ==
    Fold(Write, [cur |-> cur, candLog |-> candLog, roundLog |-> roundLog,
                 jobs |-> jobs, error |-> error], ws)

Store(ws) ==
    \E s \in {Written(ws)} :
        /\ cur' = s.cur /\ candLog' = s.candLog /\ roundLog' = s.roundLog
        /\ jobs' = s.jobs /\ error' = s.error

\* A tick makes the writes of its handler; an error ends the run request
\* (terminalize_run_request_error) and leaves the cursor as it is.
Complete(ws) == Store(ws) /\ UNCHANGED crashes

\* The process dies after some of them.
Dies(ws) ==
    /\ crashes < MaxCrashes
    /\ crashes' = crashes + 1
    /\ \E n \in 0 .. Len(ws) - 1 : Store(SubSeq(ws, 1, n))

\* All of the writes, or a prefix of them and the end of the process.
Writes(ws) == \E w \in {ws} : Complete(w) \/ Dies(w)

Tick(ws) ==
    /\ Writes(ws)
    /\ UNCHANGED <<frames, at, failures>>

-----------------------------------------------------------------------------
(* Run state machine: transition_run *)

RunTo(c, from, to) == IF c.run \in from THEN [c EXCEPT !.run = to] ELSE c

\* transition_to_rollout_running
Running(c) == RunTo(RunTo(c, {"Ready", "Evaluating"}, "RolloutQueueing"),
                    {"RolloutQueueing"}, "RolloutRunning")

RolloutsFinished(c) == RunTo(c, {"RolloutRunning"}, "Evaluating")

-----------------------------------------------------------------------------
(* Budget *)

\* The rollouts of a job that were scored.
Scored(k) == {q \in DOMAIN jobs[k].result : jobs[k].result[q] # Failed}
IsRollout(k) == k[1] \notin {"proposer", "none"}

\* Rollouts the ledger has committed, and those reserved by jobs not yet run.
Spent    == Cardinality(UNION {{k} \X Scored(k) : k \in {j \in DOMAIN jobs : IsRollout(j)}})
Reserved == Cardinality(UNION {{k} \X DOMAIN k[2] : k \in
                {j \in DOMAIN jobs : IsRollout(j) /\ jobs[j].status \in {"queued", "retry"}}})

Positive(n) == IF n > 0 THEN n ELSE 0
AtMost(m, n) == IF m < n THEN m ELSE n

RemainingRollouts == Positive(MaxRollouts - Spent - Reserved)
TrainCapacity(c)  == AtMost(RemainingRollouts, Positive(TrainLimit - c.count))
HeldoutScored     == Cardinality({f \in DOMAIN frames : f[2] = "heldout"})
HeldoutCapacity   == IF SplitBudgets
                     THEN AtMost(RemainingRollouts, Positive(HeldoutLimit - HeldoutScored))
                     ELSE RemainingRollouts
Capacity(c, stage) == IF stage = "heldout" THEN HeldoutCapacity ELSE TrainCapacity(c)

TrainBudgetReached(c) == c.count >= TrainLimit

\* next_rollout_budget_breach: not even one more rollout.
Breach == RemainingRollouts < 1

-----------------------------------------------------------------------------
(* Rows and rewards *)

TrainRows   == [i \in 1 .. NTrain |-> i - 1]
HeldoutRows == [i \in 1 .. NHeldout |-> i - 1]

\* minibatch_rows, sampler ordered_epoch with its default width.
MinibatchRows(gen, index) ==
    LET size  == Max({AtMost(NMini, NTrain), 1})
        start == ((gen * Max({ProposalsPerGeneration, 1}) + index) * size) % NTrain
    IN  IF size >= NTrain THEN TrainRows
        ELSE [i \in 1 .. size |-> (start + i - 1) % NTrain]

TrainStage(x) == IF x = Seed THEN "seed_full_train" ELSE "candidate_full_train"

HasFrames(x, stage, rows) == \A r \in Range(rows) : <<x, stage, r>> \in DOMAIN frames
SumOver(x, stage, rows) == FoldSet(LAMBDA r, n : n + frames[<<x, stage, r>>], 0, rows)
Total(x, stage, rows) == SumOver(x, stage, Range(rows))

\* compare_score_vectors with margin 0, and with no criterion at all.
Accepts(new, old) == IF AcceptEqual THEN new >= old ELSE new > old
Better(new, old)  == new > old

\* train_reward as an average: the sum over the scored rows and their number.
TrainScored(x) == {r \in Range(TrainRows) : <<x, TrainStage(x), r>> \in DOMAIN frames}
TrainSum(x)    == SumOver(x, TrainStage(x), TrainScored(x))
TrainAtLeast(x, y) ==
    TrainSum(x) * Max({Cardinality(TrainScored(y)), 1})
        >= TrainSum(y) * Max({Cardinality(TrainScored(x)), 1})

\* candidate_train_selectable
Selectable(c, x) ==
    /\ c.cand[x].train /\ TrainScored(x) # {}
    /\ x = Seed \/ c.cand[x].status \in {"accepted", "full_train_evaluated"}

\* One turn of a scan in which a tie goes to the later candidate.
LaterOrBetter(b, x) ==
    IF Better(Total(b, TrainStage(b), TrainRows), Total(x, TrainStage(x), TrainRows))
    THEN b ELSE x

\* select_best_train_candidate
SelectBestTrain(c) ==
    LET pool == Keep(c.reg, {x \in Registered(c) : Selectable(c, x)})
    IN  IF Len(pool) <= 1 THEN [ok |-> TRUE, best |-> IF pool = <<>> THEN c.best ELSE pool[1]]
        ELSE IF \E x \in Range(pool) : ~HasFrames(x, TrainStage(x), TrainRows)
        THEN [ok |-> FALSE, best |-> c.best]
        ELSE [ok |-> TRUE,
              best |-> Fold(LaterOrBetter, pool[1], Tail(pool))]

-----------------------------------------------------------------------------
(* Ends of handlers *)

Or(x, y) == IF x # None THEN x ELSE y

\* settle_run_identities
SettleIdentities(c) ==
    LET selected == Or(c.selected, c.best)
        deploy   == IF DeployHeldout THEN Or(c.heldoutBest, selected)
                    ELSE Or(selected, c.heldoutBest)
    IN  [c EXCEPT !.selected = selected, !.deployment = deploy,
                  !.best = Or(deploy, Or(selected, Or(c.heldoutBest, c.best)))]

\* terminalize_gepa_run_state: the deployment identity is not saved.
Terminalize(c, phase) ==
    LET d == SettleIdentities(c)
    IN  <<Save([d EXCEPT !.phase = phase, !.deployment = c.deployment, !.pending = NoJob,
                         !.run = IF @ \in RunTerminal THEN @ ELSE phase])>>

\* Mutant: the run state machine is not told that the evaluation is over.
ToProposerWaitingSilently(c) == <<Save([c EXCEPT !.phase = "ProposerWaiting"])>>

\* move_to_proposer_waiting
ToProposerWaiting(c) ==
    <<Save([RunTo(c, {"Evaluating"}, "RolloutQueueing") EXCEPT !.phase = "ProposerWaiting"])>>

\* complete_generation_boundary
GenerationBoundary(c) ==
    <<Save([RunTo(c, {"RolloutQueueing"}, "Ready") EXCEPT
              !.phase = "GenerationStart", !.gen = @ + 1, !.pidx = 0, !.queue = <<>>,
              !.active = NoActive])>>

\* move_to_pre_heldout: the train-selected candidate is frozen.
ToPreHeldout(c) ==
    <<Save([c EXCEPT !.phase = "Heldout", !.selected = Or(@, c.best), !.hidx = 0,
                     !.active = NoActive])>>

\* move_to_finalizing
ToFinalizing(c) ==
    <<Save([RolloutsFinished(c) EXCEPT !.phase = "Finalizing", !.active = NoActive])>>

-----------------------------------------------------------------------------
(* Finalizing an evaluation whose rows are all scored or failed *)

Rows(e)     == Range(e.rows)
RowsDone(e) == e.scored \cup e.failed
EvalDone(e) == RowsDone(e) = Rows(e)
ActiveDone(a) == \A i \in DOMAIN a.evals : EvalDone(a.evals[i])
ScoredRows(evals) == FoldLeft(LAMBDA n, e : n + Cardinality(e.scored), 0, evals)

\* finalize_active_rollout_evaluation: failed rows add nothing to rollout_count.
Counted(c) == [RolloutsFinished(c) EXCEPT !.count = @ + ScoredRows(c.active.evals)]

\* finalize_seed_full_train
FinalizeSeed(c) ==
    <<LogCand(Seed, "FullTrainEvaluated"), LogCand(Seed, "Accepted"),
      Save([RunTo(c, {"Evaluating"}, "Ready") EXCEPT
              !.cand[Seed].status = "full_train_evaluated", !.cand[Seed].train = TRUE,
              !.best = Seed, !.active = NoActive, !.phase = "GenerationStart"])>>

\* finalize_parent_minibatch_reference: the evaluation stays active.
FinalizeReference(c) == ToProposerWaiting(c)

\* A loop over the candidates of a group: the cursor so far, the writes so far,
\* what it admitted to the next group, and the error that stopped it.
Loop(c) == [c |-> c, ws |-> <<>>, group |-> <<>>, rows |-> 0, error |-> None]
Stop(l, why) == [l EXCEPT !.error = why]

\* Mutant: what was admitted before in the same loop is forgotten.
FullTrainUnaffordableAlone(l) == TrainCapacity(l.c) < NTrain \/ Breach

\* The budget does not cover one more full-train evaluation.
FullTrainUnaffordable(l) == TrainCapacity(l.c) - l.rows < NTrain \/ Breach

\* One candidate of finalize_candidate_minibatch_group.  The parent's reference
\* must cover the rows, and so must the candidate's own scores.
FinalizeMinibatch(l, e) ==
    LET x     == e.cand
        own   == Total(x, "candidate_minibatch", e.rows)
        ref   == Total(l.c.cand[x].parent, "parent_minibatch_reference", e.rows)
        c1    == [l.c EXCEPT !.cand[x].mini = TRUE, !.cand[x].metaGen = NoGen]
    IN  IF l.error # None THEN l
        ELSE IF ~HasFrames(l.c.cand[x].parent, "parent_minibatch_reference", e.rows)
        THEN Stop(l, "missing parent reference")
        ELSE IF ~HasFrames(x, "candidate_minibatch", e.rows)
        THEN Stop(l, "missing score vector")
        ELSE IF ~Accepts(own, ref)
        THEN [l EXCEPT !.c = [c1 EXCEPT !.cand[x].status = "rejected_minibatch"],
                       !.ws = @ \o <<LogCand(x, "MinibatchEvaluated"),
                                     LogCand(x, "RejectedMinibatch")>>]
        ELSE IF FullTrainUnaffordable(l)
        THEN [l EXCEPT !.c = [c1 EXCEPT !.cand[x].status = "deferred_budget"],
                       !.ws = @ \o <<LogCand(x, "MinibatchEvaluated"),
                                     LogCand(x, "AcceptedMinibatch"),
                                     LogCand(x, "DeferredBudget")>>]
        ELSE [l EXCEPT !.c = [c1 EXCEPT !.cand[x].status = "minibatch_evaluated"],
                       !.ws = @ \o <<LogCand(x, "MinibatchEvaluated"),
                                     LogCand(x, "AcceptedMinibatch")>>,
                       !.group = Append(@, Evaluation(x, TrainRows, e.offset)),
                       !.rows = @ + NTrain]

FinalizeMinibatchGroup(c) ==
    LET l == Fold(FinalizeMinibatch, Loop(c), c.active.evals)
    IN  l.ws \o (IF l.error # None THEN <<Fail(l.error)>>
                 ELSE IF l.group = <<>>
                 THEN ToProposerWaiting([l.c EXCEPT !.active = NoActive])
                 ELSE <<Save([l.c EXCEPT !.active = Active("candidate_full_train", c.active.gen, l.group),
                                         !.phase = "CandidateFullTrain"])>>)

\* Mutant: the candidate has to beat its parent instead of the best.
FinalizeFullTrainAgainstParent(l, e) ==
    LET x  == e.cand
        y  == l.c.cand[x].parent
        ok == Accepts(Total(x, "candidate_full_train", TrainRows),
                      Total(y, TrainStage(y), TrainRows))
    IN  IF l.error # None THEN l
        ELSE IF ~(/\ HasFrames(x, "candidate_full_train", TrainRows)
                  /\ HasFrames(y, TrainStage(y), TrainRows))
        THEN Stop(l, "missing score vector")
        ELSE [l EXCEPT !.c = [@ EXCEPT
                         !.cand[x].status = IF ok THEN "accepted" ELSE "rejected_full_train",
                         !.cand[x].train = TRUE, !.best = IF ok THEN x ELSE @],
                       !.ws = @ \o <<LogCand(x, "FullTrainEvaluated"),
                                     LogCand(x, IF ok THEN "Accepted" ELSE "RejectedFullTrain")>>]

\* One candidate of finalize_candidate_full_train_group, against the best so far.
FinalizeFullTrain(l, e) ==
    LET x    == e.cand
        best == Or(l.c.best, Seed)
        ok   == Accepts(Total(x, "candidate_full_train", TrainRows),
                        Total(best, TrainStage(best), TrainRows))
    IN  IF l.error # None THEN l
        ELSE IF ~(/\ HasFrames(x, "candidate_full_train", TrainRows)
                  /\ HasFrames(best, TrainStage(best), TrainRows))
        THEN Stop(l, "missing score vector")
        ELSE [l EXCEPT !.c = [l.c EXCEPT
                         !.cand[x].status = IF ok THEN "accepted" ELSE "rejected_full_train",
                         !.cand[x].train = TRUE, !.cand[x].metaGen = NoGen,
                         !.best = IF ok THEN x ELSE l.c.best],
                       !.ws = @ \o <<LogCand(x, "FullTrainEvaluated"),
                                     LogCand(x, IF ok THEN "Accepted" ELSE "RejectedFullTrain")>>]

FinalizeFullTrainGroup(c) ==
    LET l == Fold(FinalizeFullTrain, Loop(c), c.active.evals)
    IN  l.ws \o (IF l.error # None THEN <<Fail(l.error)>>
                 ELSE ToProposerWaiting([l.c EXCEPT !.pidx = Len(l.c.queue),
                                                    !.active = NoActive]))

\* Mutant: a row without a score counts as heldout evidence.
FinalizeHeldoutUnchecked(l, e) ==
    IF l.error # None THEN l
    ELSE [l EXCEPT !.c = [l.c EXCEPT !.cand[e.cand].held = TRUE,
                                     !.hidx = Max({l.c.hidx, e.offset + 1})],
                   !.ws = Append(@, LogCand(e.cand, "HeldoutScored"))]

\* One candidate of finalize_heldout_candidate_group: coverage must be complete.
FinalizeHeldout(l, e) ==
    IF l.error # None THEN l
    ELSE IF e.scored # Rows(e) THEN Stop(l, "heldout coverage incomplete")
    ELSE [l EXCEPT !.c = [l.c EXCEPT !.cand[e.cand].held = TRUE,
                                     !.hidx = Max({l.c.hidx, e.offset + 1})],
                   !.ws = Append(@, LogCand(e.cand, "HeldoutScored"))]

FinalizeHeldoutGroup(c) ==
    LET l == Fold(FinalizeHeldout, Loop(c), c.active.evals)
    IN  l.ws \o (IF l.error # None THEN <<Fail(l.error)>>
                 ELSE <<Save([l.c EXCEPT !.active = NoActive, !.phase = "Heldout"])>>)

\* finalize_active_rollout_evaluation, finalize_active_rollout_group
Finalize(c) ==
    LET d == Counted(c)
    IN  CASE c.active.stage = "seed_full_train" -> FinalizeSeed(d)
          [] c.active.stage = "parent_minibatch_reference" -> FinalizeReference(d)
          [] c.active.stage = "candidate_minibatch" -> FinalizeMinibatchGroup(d)
          [] c.active.stage = "candidate_full_train" -> FinalizeFullTrainGroup(d)
          [] c.active.stage = "heldout" -> FinalizeHeldoutGroup(d)

-----------------------------------------------------------------------------
(* Planning the next batch of an evaluation *)

\* defer_active_rollout_evaluation_for_budget: the candidates whose rows are
\* done go on, the others are deferred; the status changes, the log does not.
Deferred(c, e) ==
    [c EXCEPT !.count = @ + Cardinality(e.scored),
              !.cand[e.cand].status =
                  IF c.active.stage \in {"candidate_minibatch", "candidate_full_train"}
                  THEN "deferred_budget" ELSE @]

Defer(c) ==
    LET over == {e \in Range(c.active.evals) : EvalDone(e)}
        done == Keep(c.active.evals, over)
        rest == Keep(c.active.evals, Range(c.active.evals) \ over)
        d    == Fold(Deferred, RolloutsFinished(c), rest)
    IN  IF done # <<>>
        THEN Finalize([d EXCEPT !.active.evals = done])
        ELSE ToProposerWaiting([d EXCEPT !.pidx = Len(d.queue), !.active = NoActive])

\* The state a candidate is logged in when its evaluation starts.
EvaluatingState(stage) ==
    CASE stage \in {"seed_full_train", "candidate_full_train"} -> "FullTrainEvaluating"
      [] stage = "candidate_minibatch" -> "MinibatchEvaluating"
      [] stage = "heldout" -> "HeldoutEvaluating"

StartLog(a) ==
    IF a.stage = "parent_minibatch_reference" THEN <<>>
    ELSE [i \in DOMAIN a.evals |-> LogCand(a.evals[i].cand, EvaluatingState(a.stage))]

\* The rows a candidate has left, in order, behind those of the ones before it.
MoreAsks(asks, e) ==
    LET left == Keep(e.rows, Rows(e) \ RowsDone(e))
    IN  asks \o [j \in DOMAIN left |-> <<e.cand, left[j]>>]

\* The next rows of the candidates in order, as many as a chunk holds.
NextAsks(a) ==
    LET asks == Fold(MoreAsks, <<>>, a.evals)
    IN  SubSeq(asks, 1, AtMost(Chunk, Len(asks)))

\* plan_next_rollout_batch, plan_next_rollout_group_batch
PlanNext(c) ==
    LET asks  == NextAsks(c.active)
        fresh == \A i \in DOMAIN c.active.evals : RowsDone(c.active.evals[i]) = {}
        group == c.active.stage \in GroupStage
        d     == IF fresh THEN Running(c) ELSE c
        key   == RolloutJob(c.active.stage, asks)
        start == IF fresh THEN StartLog(c.active) ELSE <<>>
    IN  IF Capacity(c, c.active.stage) < Len(asks)
        THEN IF group THEN Defer(c) ELSE start \o Defer(d)
        ELSE start \o <<PlanJob(key), Save([d EXCEPT !.pending = key])>>

\* The phases of a rollout stage: finalize it when its rows are done.
Evaluate(c) == IF ActiveDone(c.active) THEN Finalize(c) ELSE PlanNext(c)

-----------------------------------------------------------------------------
(* Handlers of the phases *)

\* initialize_gepa_run_state
InitializeRun(c) ==
    <<LogCand(Seed, "Registered"),
      Save([c EXCEPT !.reg = <<Seed>>, !.cand = Put(@, Seed, NewCandidate(None, NoGen)),
                     !.phase = "SeedFullTrain"])>>

\* advance_rollout_stage for the seed
SeedFullTrain(c) ==
    LET d == [Running(c) EXCEPT !.active =
                 Active("seed_full_train", c.gen, <<Evaluation(Seed, TrainRows, 0)>>)]
    IN  IF c.active # NoActive THEN Evaluate(c)
        ELSE IF TrainCapacity(c) < NTrain \/ Breach THEN <<Fail("budget exceeded")>>
        ELSE <<LogCand(Seed, "FullTrainEvaluating"), Save(d)>> \o PlanNext(d)

\* advance_generation_start with the parent the selector picked.
GenerationStart(c, parent) ==
    LET selection == SelectBestTrain(c)
        key == ProposerJob(c.gen, parent)
        d   == [RunTo(c, {"Ready"}, "Proposing") EXCEPT
                  !.best = selection.best, !.parent = parent, !.pending = key,
                  !.active = Active("proposer", c.gen, <<>>), !.phase = "ProposerWaiting"]
    IN  IF c.gen >= MaxGenerations \/ TrainBudgetReached(c) THEN ToPreHeldout(c)
        ELSE IF ~selection.ok THEN <<Fail("missing score vector")>>
        ELSE <<PlanJob(key), LogRound(key, "Requested"), LogRound(key, "Dispatched"),
               LogRound(key, "Generating"), Save(d)>>

\* select_proposer_parent_candidate: whatever the strategy, a train-selectable
\* candidate, and the seed when there is none.
ParentChoices(c) ==
    LET pool == {x \in Registered(c) : Selectable(c, x)}
    IN  IF pool = {} THEN {Seed} ELSE pool

\* proposal_parent_idx, current_proposal_parent_idx
ProposalParent(c, p) ==
    IF p.parent \in Registered(c) THEN p.parent
    ELSE IF c.parent \in Registered(c) THEN c.parent ELSE Or(c.best, Seed)

\* One turn of the loop of advance_proposer_waiting over the proposal queue.
\* end says how the loop is left before its end.
Admission(c) ==
    [c |-> c, ws |-> <<>>, group |-> <<>>, rows |-> 0, planned |-> {}, end |-> None,
     active |-> NoActive, next |-> c.pidx]

RegisterCandidate(l, x, parent, status) ==
    [l EXCEPT !.c = [l.c EXCEPT !.reg = Append(l.c.reg, x),
                                !.cand = Put(l.c.cand, x, [NewCandidate(parent, l.c.gen) EXCEPT
                                                             !.status = status])],
              !.ws = Append(@, LogCand(x, "Registered"))]

\* The candidate has its record: reference for the parent, or a place in the group.
AdmitToGroup(l, x, parent, index) ==
    LET rows  == MinibatchRows(l.c.gen, index)
        short == TrainCapacity(cur) - l.rows < Len(rows) \/ Breach
    IN  IF ~HasFrames(parent, "parent_minibatch_reference", rows)
        THEN IF short THEN [l EXCEPT !.end = "boundary"]
             ELSE [l EXCEPT !.end = "reference",
                            !.active = Active("parent_minibatch_reference", l.c.gen,
                                              <<Evaluation(parent, rows, index)>>)]
        ELSE IF short
        THEN [l EXCEPT !.c.cand[x].status = "deferred_budget", !.end = "deferred"]
        ELSE [l EXCEPT !.group = Append(@, Evaluation(x, rows, index)),
                       !.rows = @ + Len(rows), !.planned = @ \cup {x}]

Admit(l, index) ==
    LET p      == l.c.queue[index + 1]
        x      == p.payload
        parent == ProposalParent(l.c, p)
        known  == x \in Registered(l.c)
    IN  IF x \in l.planned THEN l
        ELSE IF known
        THEN IF /\ l.c.cand[x].status = "registered"
                /\ ~l.c.cand[x].mini /\ ~l.c.cand[x].train
             THEN AdmitToGroup(l, x, parent, index)
             ELSE [l EXCEPT !.c.best = Or(@, x)]
        ELSE IF x \in Leaky THEN RegisterCandidate([l EXCEPT !.planned = @ \cup {x}], x, parent,
                                                   "rejected_leakage")
        ELSE AdmitToGroup(RegisterCandidate(l, x, parent, "registered"), x, parent, index)

\* The loop stops at its first end, or when the group is full.
AdmitProposal(l, index) ==
    IF l.end # None \/ Len(l.group) >= AdmissionLimit(l.c) THEN l
    ELSE Admit([l EXCEPT !.next = index + 1], index)

\* advance_proposer_waiting
ProposerWaiting(c) ==
    LET all == Len(c.queue)
        l   == Fold(AdmitProposal, Admission(c), [i \in 1 .. all - c.pidx |-> c.pidx + i - 1])
        resume == IF l.end = "deferred" THEN all ELSE l.next
    IN  IF c.pidx >= all \/ TrainBudgetReached(c)
        THEN GenerationBoundary([c EXCEPT !.pidx = all])
        ELSE l.ws \o
             CASE l.end = "boundary"  -> GenerationBoundary([l.c EXCEPT !.pidx = all])
               [] l.end = "reference" -> <<Save([l.c EXCEPT !.active = l.active,
                                                           !.phase = "CandidateMinibatch"])>>
               [] OTHER ->
                    IF l.group = <<>> THEN ToProposerWaiting([l.c EXCEPT !.pidx = resume])
                    ELSE <<Save([l.c EXCEPT !.pidx = resume, !.phase = "CandidateMinibatch",
                                 !.active = Active("candidate_minibatch", c.gen, l.group)])>>

\* heldout_candidate_indices
HeldoutEligible(c, x) ==
    /\ c.cand[x].train /\ TrainScored(x) # {}
    /\ \/ x \in {c.best, Seed}
       \/ /\ c.cand[x].status = "rejected_full_train"
          /\ c.best # None /\ c.cand[c.best].train /\ TrainAtLeast(x, c.best)

HeldoutAll(c) ==
    LET pool == Keep(c.reg, {x \in Registered(c) : HeldoutEligible(c, x)})
    IN  IF pool = <<>> /\ c.best # None THEN <<c.best>> ELSE pool

\* minimum_terminal_heldout_candidate_count
MinimumHeldout(c, all) ==
    IF all = <<>> THEN 0
    ELSE IF c.best \in Range(all) /\ c.best # Seed /\ Seed \in Range(all) THEN 2 ELSE 1

\* budgeted_heldout_candidate_indices: best, seed, then by train reward and id.
BudgetedHeldout(c, all, available) ==
    LET most    == available \div NHeldout
        ahead(x) == {y \in Range(all) :
                      \/ ~TrainAtLeast(x, y)
                      \/ /\ TrainAtLeast(x, y) /\ TrainAtLeast(y, x)
                         /\ \E i, j \in DOMAIN IdOrder : i < j /\ IdOrder[i] = y /\ IdOrder[j] = x}
        ranked  == [i \in DOMAIN all |-> CHOOSE x \in Range(all) : Cardinality(ahead(x)) = i - 1]
        wish    == Keep(<<c.best, Seed>> \o ranked, Range(all))
        firsts  == {i \in DOMAIN wish : \A j \in 1 .. i - 1 : wish[j] # wish[i]}
        places  == Keep([i \in DOMAIN wish |-> i],
                        {i \in firsts : Cardinality({j \in firsts : j < i}) < most})
    IN  IF most >= Len(all) THEN all
        ELSE IF most < MinimumHeldout(c, all) \/ most = 0 THEN <<>>
        ELSE [i \in DOMAIN places |-> wish[places[i]]]

\* One turn of the scan for the winner on heldout rows: the incumbent b keeps
\* ties, unless the challenger is strictly better on train; a tie needs both
\* train vectors.
Missing == "missing"

HeldoutLeader(b, x) ==
    LET held(y)  == Total(y, "heldout", HeldoutRows)
        full(y)  == HasFrames(y, TrainStage(y), TrainRows)
        train(y) == Total(y, TrainStage(y), TrainRows)
    IN  IF b = None THEN x
        ELSE IF b \in {Missing, x} \/ Better(held(b), held(x)) THEN b
        ELSE IF Better(held(x), held(b)) THEN x
        ELSE IF ~full(b) \/ ~full(x) THEN Missing
        ELSE IF Better(train(x), train(b)) THEN x ELSE b

\* select_best_heldout_candidate
SelectBestHeldout(c, evaluated) ==
    LET pool == Keep(evaluated, {x \in Range(evaluated) : c.cand[x].held})
        inc  == Or(c.selected, c.best)
    IN  Fold(HeldoutLeader, IF inc \in Range(pool) THEN inc ELSE None, pool)

\* advance_heldout without an active evaluation
StartHeldout(c) ==
    LET all       == HeldoutAll(c)
        evaluated == Keep(all, {x \in Range(all) : c.cand[x].held})
        base      == IF evaluated # <<>> THEN evaluated ELSE all
        chosen    == IF c.hidx # 0 \/ Breach THEN base
                     ELSE BudgetedHeldout(c, all, HeldoutCapacity)
        required  == Max({Len(chosen), MinimumHeldout(c, all)}) * NHeldout
        d         == IF c.hidx = 0 THEN Running(c) ELSE c
        group     == [i \in 1 .. Len(chosen) - c.hidx |->
                        Evaluation(chosen[c.hidx + i], HeldoutRows, c.hidx + i - 1)]
        winner    == SelectBestHeldout(c, chosen)
    IN  IF base = <<>> THEN ToFinalizing(c)
        ELSE IF c.hidx = 0 /\ (chosen = <<>> \/ HeldoutCapacity < required \/ Breach)
        THEN Terminalize(c, "Failed")
        ELSE IF c.hidx >= Len(chosen)
        THEN IF winner = Missing THEN <<Fail("missing score vector")>>
             ELSE ToFinalizing([d EXCEPT !.heldoutBest = winner])
        ELSE <<Save([d EXCEPT !.active = Active("heldout", c.gen, group)])>>

Heldout(c) == IF c.active.stage = "heldout" THEN Evaluate(c) ELSE StartHeldout(c)

\* finalize_completed_gepa_run
FinalizeRun(c) ==
    LET d == SettleIdentities(c)
    IN  IF ~c.cand[Or(d.best, Seed)].held THEN Terminalize(c, "Failed")
        ELSE <<Save([d EXCEPT !.phase = "Completed",
                              !.run = IF @ \in RunTerminal THEN @ ELSE "Completed"])>>

-----------------------------------------------------------------------------
(* Ticks: advance_gepa_sync_serial_once *)

Free == ~Ended /\ at = 0 /\ cur.pending = NoJob

AdvanceInitializing == Free /\ cur.phase = "Initializing" /\ Tick(InitializeRun(cur))

AdvanceSeedFullTrain == Free /\ cur.phase = "SeedFullTrain" /\ Tick(SeedFullTrain(cur))

AdvanceGenerationStart ==
    /\ Free /\ cur.phase = "GenerationStart"
    /\ \E parent \in ParentChoices(cur) : Tick(GenerationStart(cur, parent))

AdvanceProposerWaiting == Free /\ cur.phase = "ProposerWaiting" /\ Tick(ProposerWaiting(cur))

AdvanceCandidateMinibatch == Free /\ cur.phase = "CandidateMinibatch" /\ Tick(Evaluate(cur))

AdvanceCandidateFullTrain == Free /\ cur.phase = "CandidateFullTrain" /\ Tick(Evaluate(cur))

AdvanceHeldout == Free /\ cur.phase = "Heldout" /\ Tick(Heldout(cur))

AdvanceFinalizing == Free /\ cur.phase = "Finalizing" /\ Tick(FinalizeRun(cur))

(* Ticks with a pending job: advance_pending_runtime_job *)

Pending(status) ==
    /\ ~Ended /\ at = 0
    /\ cur.pending # NoJob /\ jobs[cur.pending].status = status

\* The batch runs: each row is scored or, its own retries exhausted, fails.
Lost(result) == Cardinality({q \in DOMAIN result : result[q] = Failed})
Outcomes(k) ==
    {r \in [Range(k[2]) -> Rewards \cup {Failed}] : failures + Lost(r) <= MaxFailures}
Done(result) == [status |-> "completed", result |-> result]

ExecuteRollouts ==
    /\ Pending("queued") /\ IsRollout(cur.pending)
    /\ \E result \in Outcomes(cur.pending) :
         /\ failures' = failures + Lost(result)
         /\ jobs' = [jobs EXCEPT ![cur.pending] = Done(result)]
    /\ UNCHANGED <<cur, candLog, roundLog, frames, at, error, crashes>>

\* The proposer's turn: the outcome is stored, then the round is logged.
ExecuteProposer ==
    /\ Pending("queued") /\ ~IsRollout(cur.pending)
    /\ \E batch \in Batches[cur.gen] :
         Tick(<<Settle(cur.pending, [status |-> "completed", result |-> batch]),
                LogRound(cur.pending, "Returned"),
                LogRound(cur.pending, IF batch = <<>> THEN "ParseFailed" ELSE "ParsedOk"),
                LogRound(cur.pending, "Closed"), Save(cur)>>)

\* consume_proposer_outcome
ConsumeProposals ==
    /\ Pending("completed") /\ ~IsRollout(cur.pending)
    /\ Tick(<<Save([RunTo(cur, {"Proposing"}, "RolloutQueueing") EXCEPT
                      !.queue = jobs[cur.pending].result, !.pidx = 0, !.active = NoActive,
                      !.pending = NoJob, !.phase = "ProposerWaiting"])>>)

\* record_rollout_resilience_sample, and its circuit breaker.
Sampled(samples, failed) ==
    LET all == Append(samples, failed)
    IN  IF Len(all) > Window THEN Tail(all) ELSE all

\* Mutant: failures are counted and nothing else.
BreakerNeverTrips(samples) == FALSE

BreakerTrips(samples) ==
    /\ Len(samples) >= MinSamples
    /\ Len(SelectSeq(samples, LAMBDA f : f)) * 100 > Tolerance * Len(samples)

\* consume_rollout_outcome, consume_failed_rollout_attempt: what a child does to
\* its evaluation; a row that has its score or failure already is left alone.
Consumed(e, row, reward) ==
    IF row \in e.scored \/ (reward = Failed /\ row \in e.failed) THEN e
    ELSE IF reward = Failed THEN [e EXCEPT !.failed = @ \cup {row}]
    ELSE [e EXCEPT !.scored = @ \cup {row}]

ConsumeInto(c, q, reward) ==
    [c EXCEPT !.active.evals = [i \in DOMAIN @ |->
                 IF @[i].cand = q[1] THEN Consumed(@[i], q[2], reward) ELSE @[i]],
              !.samples = Sampled(@, reward = Failed)]

\* The children of a batch: its outcomes, then its failures.
Children(k) ==
    LET scored == {q \in Range(k[2]) : jobs[k].result[q] # Failed}
    IN  Keep(k[2], scored) \o Keep(k[2], Range(k[2]) \ scored)

Consuming ==
    /\ ~Ended
    /\ cur.pending # NoJob /\ IsRollout(cur.pending)
    /\ jobs[cur.pending].status = "completed"

\* One child of consume_succeeded_runtime_job: its frame, its sample, and a
\* checkpoint before the next child.
ConsumeChildFrom(c) ==
    LET q      == Children(c.pending)[at + 1]
        reward == jobs[c.pending].result[q]
        d      == ConsumeInto(c, q, reward)
        known  == /\ c.active.stage = c.pending[1]
                  /\ \E i \in DOMAIN c.active.evals : c.active.evals[i].cand = q[1]
    IN  /\ frames' = IF reward = Failed \/ ~known THEN frames
                     ELSE Put(frames, <<q[1], c.active.stage, q[2]>>, reward)
        /\ IF ~known \/ BreakerTrips(d.samples)
           THEN /\ error' = IF known THEN "circuit breaker" ELSE "not active"
                /\ UNCHANGED <<cur, at>>
           ELSE cur' = d /\ at' = at + 1 /\ UNCHANGED error
        /\ UNCHANGED <<candLog, roundLog, jobs, failures, crashes>>

ConsumeChild == Consuming /\ at < Len(cur.pending[2]) /\ ConsumeChildFrom(cur)

FinishConsume ==
    /\ Consuming /\ at = Len(cur.pending[2])
    /\ cur' = [cur EXCEPT !.pending = NoJob]
    /\ at' = 0
    /\ UNCHANGED <<candLog, roundLog, jobs, frames, error, failures, crashes>>

\* The process dies between two children.
DieConsuming ==
    /\ at > 0 /\ ~Ended /\ crashes < MaxCrashes
    /\ crashes' = crashes + 1
    /\ at' = 0
    /\ UNCHANGED <<cur, candLog, roundLog, jobs, frames, error, failures>>

\* Every row of a batch fails, one after the other.
FailRow(c, q) == ConsumeInto(c, q, Failed)
DegradedRows(c, asks) == Fold(FailRow, c, asks)
Degraded(c, k) == DegradedRows(c, k[2])
Breaks(c, k) ==
    \E n \in DOMAIN k[2] : BreakerTrips(DegradedRows(c, SubSeq(k[2], 1, n)).samples)

\* consume_failed_rollout_job_as_degraded: the batch itself failed, retries
\* exhausted; every row fails, without a checkpoint in between.
DegradeJob ==
    /\ \/ Pending("queued") /\ failures + Len(cur.pending[2]) <= MaxFailures
       \/ Pending("failed")
    /\ IsRollout(cur.pending)
    /\ failures' = failures + IF jobs[cur.pending].status = "queued"
                              THEN Len(cur.pending[2]) ELSE 0
    /\ jobs' = [jobs EXCEPT ![cur.pending] = [status |-> "failed", result |-> << >>]]
    /\ IF Breaks(cur, cur.pending)
       THEN error' = "circuit breaker" /\ UNCHANGED cur
       ELSE cur' = [Degraded(cur, cur.pending) EXCEPT !.pending = NoJob] /\ UNCHANGED error
    /\ UNCHANGED <<candLog, roundLog, frames, at, crashes>>

\* consume_failed_runtime_job: any other failure of a job ends the run.
JobFails ==
    /\ Pending("queued") /\ failures < MaxFailures
    /\ failures' = failures + 1
    /\ Complete(<<Settle(cur.pending, [status |-> "failed", result |-> << >>])>>
                \o Terminalize(cur, "Failed"))
    /\ UNCHANGED <<frames, at>>

(* Cancellation *)

\* terminalize_pending_runtime_work_for_abort
CancelPending ==
    IF cur.pending # NoJob /\ jobs[cur.pending].status = "queued"
    THEN <<Settle(cur.pending, [status |-> "cancelled", result |-> << >>])>> ELSE <<>>

\* terminalize_aborted_gepa_run: a tick finds its run request cancelled.
Abort ==
    /\ Cancellable /\ ~Ended /\ at = 0
    /\ Tick(CancelPending \o Terminalize(cur, "Cancelled"))

\* A tick of an ended run only refreshes its projection.
Rest == Ended /\ UNCHANGED vars

Advance ==
    \/ AdvanceInitializing \/ AdvanceSeedFullTrain \/ AdvanceGenerationStart
    \/ AdvanceProposerWaiting \/ AdvanceCandidateMinibatch \/ AdvanceCandidateFullTrain
    \/ AdvanceHeldout \/ AdvanceFinalizing
    \/ ExecuteRollouts \/ ExecuteProposer \/ ConsumeProposals
    \/ ConsumeChild \/ FinishConsume \/ DegradeJob \/ JobFails \/ Abort

Next == Advance \/ DieConsuming \/ Rest

\* The service keeps ticking the run it holds.  Advance is enabled as long as
\* the run has not ended, so this is its weak fairness.
Fairness == []<>Ended \/ []<><<Advance>>_vars

Spec == Init /\ [][Next]_vars /\ Fairness

-----------------------------------------------------------------------------
(* Properties *)

\* Type invariant.
TypeOK ==
    /\ cur.phase \in Phase
    /\ cur.gen \in 0 .. MaxGenerations + 1
    /\ cur.run \in RunState
    /\ Registered(cur) \subseteq Ids /\ DOMAIN cur.cand = Registered(cur)
    /\ \A x \in Registered(cur) : cur.cand[x] \in CandidateRow
    /\ {cur.best, cur.selected, cur.heldoutBest, cur.deployment, cur.parent}
            \subseteq Registered(cur) \cup {None}
    /\ cur.pidx \in 0 .. Len(cur.queue)
    /\ cur.pending = NoJob \/ cur.pending \in DOMAIN jobs
    /\ cur.active.stage \in Stage \cup {"none"}
    /\ candLog \in [Ids -> CandidateState \cup {Unlogged}]
    /\ \A k \in DOMAIN roundLog : roundLog[k] \in RoundState
    /\ at \in Nat /\ failures \in 0 .. MaxFailures /\ crashes \in 0 .. MaxCrashes

\* Only a candidate with complete heldout evidence is ever deployed (the guards
\* of advance_heldout, finalize_heldout_* and finalize_completed_gepa_run against
\* failed rows and tight budgets).
CompletedHasHeldout ==
    cur.phase = "Completed" =>
        /\ cur.deployment = cur.best
        /\ HasFrames(cur.best, "heldout", HeldoutRows)

\* A candidate other than the seed is deployed only next to a seed scored on the
\* same rows (minimum_heldout_count and the seed's place in the budgeted ids).  A
\* tick that died after reserving a heldout batch may cost the seed its score.
SeedCompared ==
    cur.phase = "Completed" /\ crashes = 0 => HasFrames(Seed, "heldout", HeldoutRows)

\* An evaluation is started only if the budget covers all of its rows, so a
\* started one always fits what is left of the budget and its own reservation:
\* admission in advance_proposer_waiting, finalize_candidate_minibatch_group and
\* advance_heldout subtracts what it has already admitted.
ActiveIsAffordable ==
    ~Ended =>
    LET evals   == cur.active.evals
        missing == Cardinality(UNION {{i} \X (Rows(evals[i]) \ RowsDone(evals[i])) :
                                      i \in DOMAIN evals})
        fresh   == IF ~IsRollout(cur.pending)
                   THEN {} ELSE Scored(cur.pending)
        unseen  == {q \in fresh : \E i \in DOMAIN evals :
                      evals[i].cand = q[1] /\ q[2] \in Rows(evals[i]) \ RowsDone(evals[i])}
    IN  missing <= Capacity(cur, cur.active.stage) + Reserved + Cardinality(unseen)

\* The ledger never commits or reserves more rollouts than max_total_rollouts,
\* nor the training stages more than the train limit.
WithinRolloutBudget ==
    /\ Spent + Reserved <= MaxRollouts
    /\ Cardinality({f \in DOMAIN frames : f[2] # "heldout"}) <= TrainLimit

\* The durable cursor phase and the run state machine restored with it agree,
\* whatever crash separated them.  A run that never evaluated anything, its seed
\* deferred for want of budget, reaches the end with the machine still Ready.
MachineFollowsPhase ==
    error = None =>
      CASE cur.phase \in {"Initializing", "GenerationStart"} -> cur.run = "Ready"
        [] cur.phase = "ProposerWaiting" ->
             cur.run = IF cur.active.stage = "proposer" THEN "Proposing" ELSE "RolloutQueueing"
        [] cur.phase = "Finalizing" ->
             cur.run = "Evaluating" \/ (cur.run = "Ready" /\ cur.best = None)
        [] cur.phase \in Terminal -> cur.run = cur.phase
        [] OTHER -> cur.run \in {"Ready", "RolloutQueueing", "RolloutRunning", "Evaluating"}

\* The phases never ask the log for a transition its tables refuse; only the
\* writes of a tick that died can make one refuse.
LogAcceptsTheRun == error = "illegal transition" => crashes > 0

\* While the run searches, its best candidate has the highest train reward of
\* all the candidates it ever accepted: the scan of a full-train group, which
\* compares with the best so far, and select_best_train_candidate agree.
BestLeadsOnTrain ==
    ~Ended /\ cur.best # None =>
        \A x \in Registered(cur) : Selectable(cur, x) => TrainAtLeast(cur.best, x)

\* Ticked for ever, a run ends, although a failed reference row is asked for
\* again and again: the breaker trips or the train budget runs out.
RunEnds == <>Ended

\* Well-typed, and nothing is asked for that would be refused: the rollouts are
\* within the budget, what is started is covered by what is left of it, and the
\* transitions are in the log's tables; and what is left of the budget at the end
\* is asked for such that the seed is compared.
AsksAreGranted ==
    /\ TypeOK /\ LogAcceptsTheRun
    /\ WithinRolloutBudget /\ ActiveIsAffordable /\ SeedCompared
=============================================================================
