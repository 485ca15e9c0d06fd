------------------------------- MODULE RunTables -------------------------------
(***************************************************************************)
(* The tables one GEPA run leaves in its workspace.sqlite, written row by  *)
(* row while the run advances, is killed and is opened again, and the       *)
(* report that compares them afterwards (build_run_invariant_report).       *)
(*                                                                          *)
(* A tick of the run is the list of writes its handler makes (todo), taken  *)
(* one at a time.  The process may die between any two of them: the tables, *)
(* the event file, the transition log and the saved cursor stay, what the   *)
(* process held in memory (mem) goes, and the next tick starts over from    *)
(* the cursor.  What the run evaluates is given by a script: the phases'    *)
(* own decisions are GepaRun's subject, an effect's retries are             *)
(* RuntimeEffects', here only their rows matter.                            *)
(***************************************************************************)
EXTENDS TransitionLog, Integers, SequencesExt

CONSTANTS
    Scenarios,  \* the runs considered: script, proposer turns in budget, crashes, cancel
    Rewards     \* what a full-train rollout may be worth

VARIABLES
    scn,     \* the scenario this behaviour follows
    db,      \* workspace.sqlite
    file,    \* events.jsonl and the request cache
    log,     \* transitions.sqlite: the latest state of each candidate
    cursor,  \* the latest cursor checkpoint
    mem,     \* what the process holds
    up,      \* "down", "tick", "done" or "error"
    todo,    \* the writes the current call has left
    left     \* kills left, and whether the run was cancelled

vars == <<scn, db, file, log, cursor, mem, up, todo, left>>

None == "none"
Seed == "c0"

-----------------------------------------------------------------------------
(* The schema: tables that hold one row per key are sets of keys; the ones   *)
(* whose content matters are fields of db.                                    *)

SnapshotTables   == {"resolved_run_configs", "container_contract_snapshots",
                     "prompt_program_snapshots", "taskset_snapshots", "run_limits"}
RuntimeTables    == {"runtime_effect_admissions", "budget_commits", "budget_releases"}
CandidateTables  == {"candidate_payloads", "candidate_seed_rewards", "candidate_deltas",
                     "acceptance_decisions", "frontier_cells", "plan_links"}
CacheTables      == {"cache_profiles", "cache_accesses", "materializations",
                     "evaluation_cache"}
ProgressTables   == {"usage_ledger", "stopper_states", "checkpoints"}
RolloutTables    == {"rollout_jobs", "rollouts", "rollout_events"}
ScoreTables      == {"objective_sets", "objectives", "scores", "score_vectors",
                     "pareto_comparisons"}
EvidenceTables   == {"trace_annotations", "evidence_frames", "verifier_jobs",
                     "subagent_invocations"}
ResultTables     == {"artifact_refs", "manifests"}

Tables == UNION {SnapshotTables, RuntimeTables, CandidateTables, CacheTables, ProgressTables,
                 RolloutTables, ScoreTables, EvidenceTables, ResultTables}

NoRun == [state |-> None, best |-> None, cost |-> 0, closed |-> FALSE]
NoStream == [events |-> 0, proposed |-> 0]

\* initialize: a workspace with every table and no row.
EmptyWorkspace ==
    [run       |-> NoRun,
     cands     |-> <<>>,   \* candidate_id -> parent, train and heldout reward
     frames    |-> {},     \* sensor_frames, one for each candidate, stage and example
     history   |-> <<>>,   \* optimizer_state_history, by sequence_number
     rendered  |-> <<>>,   \* rendered_optimizer_states, by sequence_number
     effects   |-> <<>>,   \* runtime_effects: status and budget_reservation_id
     resv      |-> <<>>,   \* budget_reservations: status
     jobs      |-> <<>>,   \* optimizer_jobs of effects: status and outcome
     total     |-> 0,      \* cache_profiles.total_accesses
     stream    |-> NoStream,
     rows      |-> [t \in Tables |-> {}]]

\* INSERT ... ON CONFLICT DO UPDATE of rows that are only counted.
AddRows(rows, new) ==
    [t \in Tables |-> IF t \in DOMAIN new THEN rows[t] \cup new[t] ELSE rows[t]]

With(d, new) == [d EXCEPT !.rows = AddRows(@, new)]

-----------------------------------------------------------------------------
(* What the process holds. *)

Key(f) == <<f.cand, f.stage, f.ex>>

Null == -1  \* a reward that was not measured

Blank ==
    [ready |-> FALSE, hist |-> <<>>, cands |-> <<>>, frames |-> {}, spent |-> 0, ledger |-> {},
     active |-> {}, pending |-> {}, step |-> 1, phase |-> "Running", best |-> None,
     stoppers |-> 0, accesses |-> <<>>]

MachineState(m) == IF m.hist = <<>> THEN "Created" ELSE Last(m.hist)

\* The cursor checkpoint keeps everything but the frames and the open inputs.
Saved(m) == [m EXCEPT !.ready = FALSE, !.frames = {}, !.accesses = <<>>]

\* hydrate_candidate_sensor_frames_from_workspace, and the ledger rebuilt from the frames
\* when the cursor holds none.
Restored(saved, now, frames) ==
    LET own == {f \in frames : f.cand \in DOMAIN saved.cands}
        m == [saved EXCEPT !.frames = own, !.ready = now.ready, !.accesses = now.accesses,
                           !.hist = IF saved.hist = <<>> THEN now.hist ELSE saved.hist]
    IN  IF m.ledger # {} THEN m
        ELSE [m EXCEPT !.spent = Cardinality(own), !.ledger = {Key(f) : f \in own}]

-----------------------------------------------------------------------------
(* persist_candidate_registry: one transaction. *)

FullTrain    == {"seed_full_train", "candidate_full_train"}
Split(stage) == IF stage = "heldout" THEN "heldout" ELSE "train"

\* Averages are only compared with each other: sixths, for groups of up to three.
Average(S) == (6 * MapThenSumSet(LAMBDA f : f.reward, S)) \div Cardinality(S)

\* upsert_sensor_frame_tx: of two frames with one key the later stays.
Latest(frames) ==
    {f \in frames : \A g \in frames : Key(g) = Key(f) => g.trace <= f.trace}

CandidateRows(cands, who) ==
    [candidate_payloads   |-> who,
     candidate_deltas     |-> {<<cands[c].parent, c>> : c \in {b \in who : cands[b].parent # None}},
     acceptance_decisions |-> who]

LinkRows(cands, who) ==
    LET ofAll  == {"candidate_payload", "acceptance_decision"}
        ofBorn == {"candidate_lineage", "candidate_delta"}
    IN  [plan_links |-> (ofAll \X {<<c>> : c \in who})
                        \cup (ofBorn \X {<<c>> : c \in {b \in who : cands[b].parent # None}})]

FrameRows(frames) ==
    LET keys == {Key(f) : f \in frames}
    IN  [candidate_seed_rewards |-> keys, plan_links |-> {"rollout_observation"} \X keys]

RolloutRows(frames) ==
    LET keys == {Key(f) : f \in frames}
    IN  [rollout_jobs |-> keys, rollouts |-> keys, rollout_events |-> keys]

ScoreRows(frames) ==
    [objectives |-> IF frames = {} THEN {} ELSE {"reward"}, scores |-> {Key(f) : f \in frames}]

\* The annotation's id holds the trace, the ids of the rest the frame alone.
AnnotationRows(frames) == [trace_annotations |-> {<<Key(f), f.trace>> : f \in frames}]

EvidenceRows(frames) ==
    LET keys == {Key(f) : f \in frames}
    IN  [evidence_frames      |-> keys \X {"trace", "score"},
         verifier_jobs        |-> keys,
         subagent_invocations |-> keys]

\* One frame after the other, so that every annotation is written and the last frame stays.
RecordFrames(d, frames) ==
    LET kept == Latest(frames)
        keys == {Key(f) : f \in kept}
    IN  FoldLeft(With, [d EXCEPT !.frames = {f \in @ : Key(f) \notin keys} \cup kept],
                 <<FrameRows(kept), RolloutRows(kept), ScoreRows(kept), EvidenceRows(kept),
                   AnnotationRows(frames)>>)

RecordCandidates(d, cands, who) ==
    FoldLeft(With, [d EXCEPT !.cands = [c \in who |-> cands[c]] @@ @],
             <<CandidateRows(cands, who), LinkRows(cands, who)>>)

\* rebuild_score_vectors_tx: deleted, then one vector for each candidate, split and stage.
RebuildScoreVectors(d) ==
    LET groups == {<<f.cand, Split(f.stage), f.stage>> : f \in d.frames}
    IN  [d EXCEPT !.rows.score_vectors = IF d.rows.objective_sets = {} THEN {} ELSE groups,
                  !.rows.pareto_comparisons = {}]

\* Mutant: a minibatch's vector is compared with full-train ones.
FullTrainVectorsOfAnyStage(d) == {v \in d.rows.score_vectors : v[2] = "train"}

FullTrainVectors(d) ==
    {v \in d.rows.score_vectors : v[2] = "train" /\ v[3] \in FullTrain}

Selection(d, v) == Average({f \in d.frames : f.cand = v[1] /\ f.stage = v[3]})

\* rebuild_pareto_comparisons_tx: every ordered pair of full-train vectors.
RebuildPareto(d) ==
    LET pairs == {p \in FullTrainVectors(d) \X FullTrainVectors(d) : p[1][1] # p[2][1]}
    IN  [d EXCEPT !.rows.pareto_comparisons = {<<p[1][1], p[2][1]>> : p \in pairs}]

\* rebuild_frontier_cells_tx: the candidates whose full-train vector scores highest.
RebuildFrontier(d) ==
    LET vectors == FullTrainVectors(d)
        top == {v \in vectors : \A w \in vectors : Selection(d, w) <= Selection(d, v)}
        cells == {v[1] : v \in top} \cap DOMAIN d.cands
    IN  [d EXCEPT !.rows.frontier_cells = cells,
                  !.rows.plan_links = {l \in @ : l[1] # "frontier_membership"}
                                      \cup ({"frontier_membership"} \X {<<c>> : c \in cells})]

PersistRegistry(d, m, who) ==
    RebuildFrontier(RebuildPareto(RebuildScoreVectors(
        RecordFrames(RecordCandidates(d, m.cands, who), {f \in m.frames : f.cand \in who}))))

-----------------------------------------------------------------------------
(* The report: each check compares the rows of a projection with the rows of *)
(* its source.                                                                *)

Exact(name, source, derived)   == IF source = derived THEN {} ELSE {name}
AtLeast(name, source, derived) == IF derived >= source THEN {} ELSE {name}

\* run_health_counts
Count(d, t) == Cardinality(d.rows[t])
Frames(d)   == Cardinality(d.frames)
History(d)  == Cardinality(DOMAIN d.history)
Measured(d) == {c \in DOMAIN d.cands : d.cands[c].train # Null}

TrainFrontier(d) ==
    {c \in Measured(d) : \A b \in Measured(d) : d.cands[b].train <= d.cands[c].train}

LedgerExpected(d) == Frames(d) + d.stream.proposed

RunChecks(d) == UNION {
    AtLeast("resolved_config", 1, Count(d, "resolved_run_configs")),
    AtLeast("run_limits", 1, Count(d, "run_limits")),
    Exact("admissions", Cardinality(DOMAIN d.effects), Count(d, "runtime_effect_admissions")),
    Exact("releases", Count(d, "budget_commits"), Count(d, "budget_releases")),
    Exact("cache_accesses", d.total, Count(d, "cache_accesses")),
    AtLeast("event_stream", History(d), d.stream.events),
    Exact("rendered", History(d), Cardinality(DOMAIN d.rendered)),
    Exact("usage_ledger", LedgerExpected(d), Count(d, "usage_ledger"))}

CandidateChecks(d) == LET cands == Cardinality(DOMAIN d.cands) IN UNION {
    Exact("payloads", cands, Count(d, "candidate_payloads")),
    Exact("deltas", Cardinality({c \in DOMAIN d.cands : d.cands[c].parent # None}),
          Count(d, "candidate_deltas")),
    Exact("acceptance", cands, Count(d, "acceptance_decisions")),
    AtLeast("plan_links", cands, Count(d, "plan_links")),
    Exact("frontier", Cardinality(TrainFrontier(d)), Count(d, "frontier_cells"))}

FrameChecks(d) == LET n == Frames(d) IN UNION {
    Exact("seed_rewards", n, Count(d, "candidate_seed_rewards")),
    Exact("materializations", n, Count(d, "materializations")),
    Exact("evaluation_cache",
          Cardinality({<<r[1], r[3]>> : r \in d.rows["materializations"]}),
          Count(d, "evaluation_cache")),
    Exact("rollout_jobs", n, Count(d, "rollout_jobs")),
    Exact("rollouts", n, Count(d, "rollouts")),
    AtLeast("rollout_events", Count(d, "rollouts"), Count(d, "rollout_events"))}

EvidenceChecks(d) == LET n == Frames(d) IN UNION {
    AtLeast("scores", n, Count(d, "scores")),
    Exact("score_vectors", Cardinality({<<r[1], r[2]>> : r \in d.rows["scores"]}),
          Count(d, "score_vectors")),
    Exact("trace_annotations", n, Count(d, "trace_annotations")),
    AtLeast("evidence_frames", n, Count(d, "evidence_frames")),
    Exact("verifier_jobs", n, Count(d, "verifier_jobs")),
    Exact("subagents", n, Count(d, "subagent_invocations"))}

ObjectiveChecks(d) == UNION {
    AtLeast("objectives", IF d.rows["scores"] = {} THEN 0 ELSE 1, Count(d, "objectives")),
    AtLeast("objective_set", IF d.rows["scores"] = {} THEN 0 ELSE 1,
            Count(d, "objective_sets"))}

ActiveReservations(d) == {e \in DOMAIN d.resv : d.resv[e] = "reserved"}

\* What a run that ended has one of, or two.
RequiredChecks(d) ==
    AtLeast("taskset_snapshots", 2, Count(d, "taskset_snapshots")) \cup UNION {
        AtLeast(t, 1, Count(d, t)) : t \in {"container_contract_snapshots",
            "prompt_program_snapshots", "objective_sets", "cache_profiles", "stopper_states",
            "checkpoints", "manifests"}}

TerminalChecks(d) == UNION {
    AtLeast("no_event_stream", 1, d.stream.events),
    AtLeast("no_usage_ledger", 1, Count(d, "usage_ledger")),
    Exact("reservations", 0, Cardinality(ActiveReservations(d))),
    IF d.run.state = "Completed" /\ d.run.best = None THEN {"best"} ELSE {}}

Compared(d) == RunChecks(d) \cup CandidateChecks(d) \cup FrameChecks(d) \cup EvidenceChecks(d)

\* build_run_invariant_report
Violations(d) ==
    Compared(d) \cup ObjectiveChecks(d)
        \cup (IF d.run.state \in RunTerminal THEN RequiredChecks(d) \cup TerminalChecks(d)
              ELSE {})

\* run_projection_freshness: the same pairs of counts, and one of its own.
ParetoLag(d) ==
    LET n == Count(d, "score_vectors")
    IN  AtLeast("pareto", IF n > 1 THEN n ELSE 0, Count(d, "pareto_comparisons"))

StaleProjections(d) ==
    Compared(d) \cup ParetoLag(d)
        \cup (IF d.run.state \in RunTerminal THEN RequiredChecks(d) ELSE {})

-----------------------------------------------------------------------------
(* What a call writes, in order.  Each write is one statement or one          *)
(* transaction.                                                               *)

Write(rows)        == [op |-> "write", rows |-> rows]
Row(t, r)          == Write(t :> {r})
Move(from, to)     == [op |-> "move", from |-> from, to |-> to]
Effect(e, st, own) == [op |-> "effect", e |-> e, status |-> st, linked |-> own]
Reserve(e, st)     == [op |-> "reserve", e |-> e, status |-> st]
Job(e, st)         == [op |-> "job", e |-> e, status |-> st]
Dispatch(e)        == [op |-> "dispatch", e |-> e]
Set(new)           == [op |-> "set", new |-> new]
Persist(who, new)  == [op |-> "persist", who |-> who, new |-> new]
Log(c, to)         == [op |-> "log", cand |-> c, to |-> to]
Close(st)          == [op |-> "close", state |-> st]
Save(new)          == [op |-> "save", new |-> new]
Plain(op)          == [op |-> op]

NotTerminal == RunState \ RunTerminal

\* A decision step of the script; what an evaluation is of, and what it takes.
Script       == scn.script
Step         == Script[mem.step]
Rows(s)      == UNION Range(s.batches)
EffectOf(s, rows) == [cand |-> s.cand, stage |-> s.stage, rows |-> rows, at |-> mem.step]
Proposal(s)  == [cand |-> Seed, stage |-> "proposer", rows |-> {s.gen}, at |-> mem.step]

\* breach_for_request: what is reserved and spent leaves no room for one more.  Bound: only a
\* proposer's turn meets the limits here; what does not fit of an evaluation is deferred.
Breach(e) ==
    LET charged == ActiveReservations(db) \cup db.rows["budget_commits"]
    IN  e.stage = "proposer" /\ Cardinality({f \in charged : f.stage = "proposer"}) >= scn.turns

\* record_runtime_effect_planned: an effect that has a job is only found again.
PlanEffect(e) ==
    CASE e \in DOMAIN db.jobs -> <<>>
      [] e \notin DOMAIN db.jobs /\ Breach(e) ->
            <<Effect(e, "planned", FALSE), Row("runtime_effect_admissions", <<e, "rejected">>),
              Effect(e, "rejected", FALSE), Plain("refused")>>
      [] OTHER ->
            <<Effect(e, "planned", FALSE), Row("runtime_effect_admissions", <<e, "admitted">>),
              Reserve(e, "reserved"), Job(e, "pending"), Effect(e, "planned", TRUE)>>

\* record_runtime_effect_completed
CompletionOps(e, st) ==
    <<Effect(e, st, TRUE), Reserve(e, IF st = "completed" THEN "committed" ELSE st),
      Row("budget_commits", e), Row("budget_releases", e), Job(e, st)>>

\* execute_one_pending_optimizer_job_with_progress, then the cursor.
RunEffect(e) ==
    <<Job(e, "running"), Effect(e, "running", TRUE), Dispatch(e)>> \o CompletionOps(e, "completed") \o <<Save(<<>>)>>

\* consume_rollout_outcome: a row that is scored already is skipped; the cursor is saved after
\* each row of a batch.
ConsumeRow(e, f, before) ==
    <<Row("materializations", Key(f)), Row("evaluation_cache", <<f.cand, f.ex>>),
      Save([active |-> before \cup {f}])>>

ConsumeRollouts(e) ==
    LET scored == {f.ex : f \in mem.active}
        fresh  == SetToSeq({f \in db.jobs[e].outcome : f.ex \notin scored})
    IN  FlattenSeq([i \in DOMAIN fresh |->
            ConsumeRow(e, fresh[i], mem.active \cup {fresh[j] : j \in 1..(i - 1)})])
        \o <<Save([pending |-> {}])>>

\* consume_proposer_outcome
ConsumeProposer(e) ==
    LET turn == <<e.cand, e.stage, e.at>> IN
    <<Set([spent |-> mem.spent + 1, ledger |-> mem.ledger \cup {turn}]),
      Write([evidence_frames |-> {<<turn, "proposer_output">>},
             plan_links |-> {<<"evidence_source", turn>>}]),
      Plain("proposed"), Move({"Proposing"}, "RolloutQueueing"),
      Save([pending |-> {}, step |-> mem.step + 1])>>

-----------------------------------------------------------------------------
(* The phases, reduced to the rows they leave. *)

\* advance_initializing, plan_candidate_minibatches_from_queue
RegisterOps(s) ==
    LET new == s.cand :> [parent |-> s.parent, train |-> Null, heldout |-> Null]
        reg == <<Persist({s.cand}, [cands |-> new @@ mem.cands]), Log(s.cand, "Registered")>>
    IN  IF s.cand = Seed
        THEN reg \o <<Set([stoppers |-> mem.stoppers + 1]), Row("checkpoints", "seed_registered"),
                      Save([step |-> mem.step + 1])>>
        ELSE reg \o <<Save([step |-> mem.step + 1])>>

ProposeOps(s) ==
    <<Move({"Ready"}, "Proposing")>> \o PlanEffect(Proposal(s))
        \o <<Save([pending |-> {Proposal(s)}])>>

\* record_candidate_evaluation_started_from_details: a reference starts none.
StartLog(s) ==
    CASE s.stage \in FullTrain         -> <<Log(s.cand, "FullTrainEvaluating")>>
      [] s.stage = "candidate_minibatch" -> <<Log(s.cand, "MinibatchEvaluating")>>
      [] s.stage = "heldout"           -> <<Log(s.cand, "HeldoutEvaluating")>>
      [] OTHER                         -> <<>>

\* transition_to_rollout_running
StartOps(s) ==
    IF mem.active # {} THEN <<>>
    ELSE StartLog(s) \o <<Move({"Ready", "Evaluating"}, "RolloutQueueing"),
                          Move({"RolloutQueueing"}, "RolloutRunning")>>

\* The next chunk of rows nobody scored yet.
NextBatch(s) ==
    LET scored == {f.ex : f \in mem.active}
        open   == {i \in DOMAIN s.batches : ~ s.batches[i] \subseteq scored}
    IN  CHOOSE i \in open : \A j \in open : i <= j

PlanRollouts(s) ==
    LET e == EffectOf(s, s.batches[NextBatch(s)])
    IN  StartOps(s) \o PlanEffect(e) \o <<Save([pending |-> {e}])>>

\* Mutant: the rows are paid for but not appended to the ledger.
CountedWithoutLedger(new) ==
    [spent |-> mem.spent + Cardinality(mem.active), frames |-> mem.frames \cup mem.active] @@ new

\* append_rollout_usage, and the frames moved to their candidate.
Counted(new) ==
    [spent |-> mem.spent + Cardinality(mem.active),
     ledger |-> mem.ledger \cup {Key(f) : f \in mem.active},
     frames |-> mem.frames \cup mem.active] @@ new

Reward(s) == Average(mem.active)

\* compare_score_vectors: a candidate is accepted when it beats the best.
Beats(s) == mem.best = None \/ Reward(s) > mem.cands[mem.best].train

Best(s) ==
    IF s.stage = "seed_full_train" \/ (s.stage = "candidate_full_train" /\ Beats(s))
    THEN s.cand ELSE mem.best

Measure(s) ==
    CASE s.stage \in FullTrain  -> [mem.cands EXCEPT ![s.cand].train = Reward(s)]
      [] s.stage = "heldout"    -> [mem.cands EXCEPT ![s.cand].heldout = Reward(s)]
      [] OTHER                  -> mem.cands

EvaluatedLog(s) ==
    CASE s.stage = "seed_full_train" ->
            <<Row("checkpoints", "evaluation_boundary"), Log(s.cand, "FullTrainEvaluated"),
              Log(s.cand, "Accepted"), Move({"Evaluating"}, "Ready")>>
      [] s.stage = "candidate_minibatch" ->
            <<Log(s.cand, "MinibatchEvaluated"), Log(s.cand, "AcceptedMinibatch")>>
      [] s.stage = "candidate_full_train" ->
            <<Log(s.cand, "FullTrainEvaluated"),
              Log(s.cand, IF Beats(s) THEN "Accepted" ELSE "RejectedFullTrain"),
              Move({"Evaluating"}, "RolloutQueueing")>>
      [] s.stage = "heldout" -> <<Log(s.cand, "HeldoutScored")>>
      [] OTHER               -> <<Move({"Evaluating"}, "RolloutQueueing")>>

\* finalize_active_rollout_evaluation and the stage's own finalize_*.
FinalizeStage(s) ==
    <<Move({"RolloutRunning"}, "Evaluating"),
      Persist({s.cand}, Counted([cands |-> Measure(s)])),
      Set([stoppers |-> mem.stoppers + 1])>>
    \o EvaluatedLog(s)
    \o <<Save([active |-> {}, step |-> mem.step + 1, best |-> Best(s)])>>

\* defer_active_rollout_evaluation_for_budget: what was scored is kept, the reward is not set.
DeferStage(s) ==
    <<Move({"RolloutRunning"}, "Evaluating"), Persist({s.cand}, Counted(<<>>)),
      Move({"Evaluating"}, "RolloutQueueing"),
      Save([active |-> {}, step |-> mem.step + 1])>>

EvalOps(s) ==
    IF {f.ex : f \in mem.active} = Rows(s) THEN FinalizeStage(s)
    ELSE IF NextBatch(s) > s.afford THEN DeferStage(s) ELSE PlanRollouts(s)

\* complete_generation_boundary
BoundaryOps(s) ==
    <<Move({"RolloutQueueing"}, "Ready"), Row("checkpoints", "generation_boundary"),
      Save([step |-> mem.step + 1])>>

\* terminalize_gepa_run_state
TerminalOps(st) ==
    <<Plain("ledger"), Plain("stoppers"), Plain("profile"), Move(NotTerminal, st),
      Plain("ended"), Row("manifests", "manifest"), Plain("stream"), Close(st),
      Save([phase |-> st, pending |-> {}])>>

\* finalize_completed_gepa_run
FinalizeOps ==
    IF mem.best = None \/ mem.cands[mem.best].heldout = Null THEN TerminalOps("Failed")
    ELSE <<Set([stoppers |-> mem.stoppers + 1]), Row("checkpoints", "terminal"),
           Move(NotTerminal, "Completed"), Persist(DOMAIN mem.cands, <<>>), Plain("rewrite"),
           Plain("ended"), Plain("stream"), Row("artifact_refs", "release_evidence"),
           Plain("profile"), Plain("ledger"), Plain("stoppers"), Row("manifests", "manifest"),
           Close("Completed"), Save([phase |-> "Completed"])>>

StepOps ==
    IF mem.step > Len(Script)
    THEN IF mem.phase = "Finalizing" THEN FinalizeOps
         ELSE <<Move({"RolloutRunning"}, "Evaluating"), Save([phase |-> "Finalizing"])>>
    ELSE CASE Step.kind = "register" -> RegisterOps(Step)
           [] Step.kind = "propose"  -> ProposeOps(Step)
           [] Step.kind = "boundary" -> BoundaryOps(Step)
           [] Step.kind = "eval"     -> EvalOps(Step)

\* advance_pending_runtime_job.  A job that runs is left alone; one that expired ends the run.
PendingOps(e) ==
    LET status == db.jobs[e].status IN
    CASE status \in {"pending", "retry_scheduled"} -> RunEffect(e)
      [] status = "completed" ->
            IF e.stage = "proposer" THEN ConsumeProposer(e) ELSE ConsumeRollouts(e)
      [] status = "expired" -> TerminalOps("Failed")
      [] OTHER              -> <<>>

\* ensure_step_resources: skipped while the process keeps the inputs.
InputOps ==
    IF mem.ready THEN <<>>
    ELSE <<Row("container_contract_snapshots", "contract"), Plain("load"),
           Row("prompt_program_snapshots", "program"), Row("taskset_snapshots", "train"),
           Row("taskset_snapshots", "heldout"), Row("objective_sets", "objectives"),
           Move({"Initializing", "Restoring"}, "Ready")>>

\* terminalize_pending_runtime_work_for_abort: first the job the cursor waits for, then every
\* effect that is not over.
Terminal == {"completed", "failed", "cancelled", "expired", "rejected"}

AbortPending == {e \in mem.pending : db.jobs[e].status \notin Terminal}

AbortOps(status) ==
    LET rest == {e \in DOMAIN db.effects \ AbortPending : db.effects[e].status \notin Terminal}
        over(e) == IF e \in AbortPending \/ db.effects[e].linked THEN CompletionOps(e, status)
                   ELSE <<Effect(e, status, FALSE)>>
        order == SetToSeq(AbortPending) \o SetToSeq(rest)
    IN  FlattenSeq([i \in DOMAIN order |-> over(order[i])])

-----------------------------------------------------------------------------
(* The process. *)

Init ==
    /\ scn \in Scenarios
    /\ db = EmptyWorkspace
    /\ file = [events |-> 0, proposed |-> 0, cache |-> <<>>]
    /\ log = [c \in {s.cand : s \in {t \in Range(scn.script) : t.kind = "register"}} |-> Unlogged]
    /\ cursor = <<>>
    /\ mem = Blank
    /\ up = "down"
    /\ todo = <<>>
    /\ left = [crashes |-> scn.crashes, cancel |-> FALSE]

\* open_gepa_run_context: the feed of a run nobody saved yet starts over, unless the service
\* opened it.  Bound: the service's ticks that find the job of a killed process still running,
\* which change no table but the history, are left out.
Open ==
    /\ up = "down"
    /\ scn.service /\ ~ left.cancel => \A e \in DOMAIN db.jobs : db.jobs[e].status # "running"
    /\ db' = With([db EXCEPT !.run.state = IF @ = None THEN "Created" ELSE @],
                  [resolved_run_configs |-> {"config"}, run_limits |-> {"limits"}])
    /\ file' = IF scn.service \/ cursor # <<>> THEN file
               ELSE [file EXCEPT !.events = 0, !.proposed = 0]
    /\ up' = "tick"
    /\ todo' = <<Move({"Created"}, "Initializing"), Plain("restore")>>
    /\ UNCHANGED <<scn, log, cursor, mem, left>>

\* advance_gepa_run: one step, of the phase the cursor names.
Tick ==
    /\ up = "tick"
    /\ todo = <<>>
    /\ todo' =
        IF mem.phase \in RunTerminal THEN <<Plain("return")>>
        ELSE IF left.cancel THEN AbortOps("cancelled") \o TerminalOps("Cancelled") \o <<Plain("return")>>
        ELSE IF InputOps # <<>> THEN InputOps
        ELSE (IF mem.pending # {} THEN PendingOps(CHOOSE e \in mem.pending : TRUE) ELSE StepOps)
             \o <<Plain("return")>>
    /\ UNCHANGED <<scn, db, file, log, cursor, mem, up, left>>

Doing(op) == up = "tick" /\ todo # <<>> /\ Head(todo).op = op
Op   == Head(todo)
Go   == todo' = Tail(todo) /\ UNCHANGED <<scn, left>>
Same == UNCHANGED <<file, log, cursor, mem, up>>

Updated(new) == [k \in DOMAIN mem |-> IF k \in DOMAIN new THEN new[k] ELSE mem[k]]

WriteRows ==
    /\ Doing("write")
    /\ db' = With(db, Op.rows)
    /\ Go /\ Same

SetMemory ==
    /\ Doing("set")
    /\ mem' = Updated(Op.new)
    /\ Go /\ UNCHANGED <<db, file, log, cursor, up>>

\* record_state_transition: three statements.
Recorded(k, st) ==
    <<[op |-> "history", k |-> k, state |-> st], [op |-> "row", state |-> st],
      [op |-> "rendered", k |-> k, state |-> st]>>

\* transition_run: the machine moves and the event is out before the rows are written.
Transition ==
    /\ Doing("move")
    /\ MachineState(mem) \in Op.from
    /\ RunAllowed(MachineState(mem), Op.to)
    /\ mem' = [mem EXCEPT !.hist = Append(@, Op.to)]
    /\ file' = [file EXCEPT !.events = @ + 1]
    /\ todo' = Recorded(Len(mem'.hist), Op.to) \o Tail(todo)
    /\ UNCHANGED <<scn, db, log, cursor, up, left>>

NoTransition ==
    /\ Doing("move")
    /\ MachineState(mem) \notin Op.from
    /\ Go /\ Same /\ UNCHANGED db

RecordHistory ==
    /\ Doing("history")
    /\ db' = [db EXCEPT !.history = (Op.k :> Op.state) @@ @]
    /\ Go /\ Same

RecordRow ==
    /\ Doing("row")
    /\ db' = [db EXCEPT !.run.state = Op.state]
    /\ Go /\ Same

\* record_rendered_optimizer_state: ON CONFLICT DO NOTHING.
RecordRendered ==
    /\ Doing("rendered")
    /\ db' = [db EXCEPT !.rendered = @ @@ (Op.k :> Op.state)]
    /\ Go /\ Same

\* persist_state_history
RewriteHistory ==
    /\ Doing("rewrite")
    /\ todo' = FlattenSeq([k \in DOMAIN mem.hist |-> Recorded(k, mem.hist[k])]) \o Tail(todo)
    /\ Same /\ UNCHANGED <<scn, db, left>>

\* restore_gepa_run_state
Restore ==
    /\ Doing("restore")
    /\ mem' = IF cursor = <<>> THEN mem ELSE Restored(cursor, mem, db.frames)
    /\ Go /\ UNCHANGED <<db, file, log, cursor, up>>

\* A request through the request cache: a hit, or a miss and a write.
Accessed(keys, cache) ==
    FlattenSeq([i \in DOMAIN keys |->
        IF keys[i] \in DOMAIN cache THEN <<<<keys[i], "hit">>>>
        ELSE <<<<keys[i], "miss">>, <<keys[i], "write">>>>])

Inputs == <<<<"program">>, <<"taskset">>>>

Load ==
    /\ Doing("load")
    /\ mem' = [mem EXCEPT !.ready = TRUE,
                          !.accesses = IF scn.cache THEN @ \o Accessed(Inputs, file.cache) ELSE @]
    /\ file' = IF scn.cache
               THEN [file EXCEPT !.cache = [k \in Range(Inputs) |-> [reward |-> 0, trace |-> 0]]
                                           @@ @]
               ELSE file
    /\ Go /\ UNCHANGED <<db, log, cursor, up>>

RecordEffect ==
    /\ Doing("effect")
    /\ db' = [db EXCEPT !.effects =
                 (Op.e :> [status |-> Op.status, linked |-> Op.linked]) @@ @]
    /\ Go /\ Same

\* terminalize_aborted_gepa_run: the run loop ends a run that was refused its budget.
RefusedByBudget ==
    /\ Doing("refused")
    /\ todo' = AbortOps("failed") \o TerminalOps("Failed") \o <<Plain("return")>>
    /\ Same /\ UNCHANGED <<scn, db, left>>

RecordReservation ==
    /\ Doing("reserve")
    /\ db' = [db EXCEPT !.resv = (Op.e :> Op.status) @@ @]
    /\ Go /\ Same

RecordJob ==
    /\ Doing("job")
    /\ db' = [db EXCEPT !.jobs =
                 (Op.e :> [status |-> Op.status,
                           outcome |-> IF Op.e \in DOMAIN @ THEN @[Op.e].outcome ELSE {}]) @@ @]
    /\ Go /\ Same

\* execute_dispatch: the container is asked for what the cache does not hold, and the outcome is
\* kept with the job.
Answers(e, asked, worth) ==
    {LET k == <<e.cand, x>>
     IN  [cand |-> e.cand, stage |-> e.stage, ex |-> x,
          reward |-> IF x \in asked THEN worth[x] ELSE file.cache[k].reward,
          trace  |-> IF x \in asked THEN e.at ELSE file.cache[k].trace] : x \in e.rows}

\* Only what a full-train pass is worth matters to a comparison.
Worth(e) == IF e.stage \in FullTrain THEN Rewards ELSE {CHOOSE r \in Rewards : TRUE}

Send ==
    /\ Doing("dispatch")
    /\ LET e     == Op.e
           asked == {x \in e.rows : ~ scn.cache \/ <<e.cand, x>> \notin DOMAIN file.cache}
       IN  \E worth \in [asked -> Worth(e)] :
              LET got == Answers(e, asked, worth)
              IN  /\ db' = [db EXCEPT !.jobs[e].outcome = got]
                  /\ file' = [file EXCEPT !.cache =
                        IF scn.cache
                        THEN [k \in {<<e.cand, x>> : x \in asked} |->
                                [reward |-> worth[k[2]], trace |-> e.at]] @@ @
                        ELSE @]
                  /\ mem' = [mem EXCEPT !.accesses =
                        IF scn.cache
                        THEN @ \o Accessed([i \in DOMAIN SetToSeq(e.rows) |->
                                              <<e.cand, SetToSeq(e.rows)[i]>>], file.cache)
                        ELSE @]
    /\ Go /\ UNCHANGED <<log, cursor, up>>

Proposed ==
    /\ Doing("proposed")
    /\ mem' = [mem EXCEPT !.stoppers = @ + 1]
    /\ file' = [file EXCEPT !.events = @ + 1, !.proposed = @ + 1]
    /\ Go /\ UNCHANGED <<db, log, cursor, up>>

PersistCandidates ==
    /\ Doing("persist")
    /\ mem' = Updated(Op.new)
    /\ db' = PersistRegistry(db, mem', Op.who)
    /\ Go /\ UNCHANGED <<file, log, cursor, up>>

\* record_candidate_transition
LogCandidate ==
    /\ Doing("log")
    /\ CandidateAllowed(log[Op.cand], Op.to)
    /\ log' = [log EXCEPT ![Op.cand] = Op.to]
    /\ Go /\ UNCHANGED <<db, file, cursor, mem, up>>

\* A refused transition is an error of the call, which ends the run.
LogRefused ==
    /\ Doing("log")
    /\ ~ CandidateAllowed(log[Op.cand], Op.to)
    /\ up' = "error"
    /\ todo' = <<>>
    /\ UNCHANGED <<scn, db, file, log, cursor, mem, left>>

RecordLedger ==
    /\ Doing("ledger")
    /\ db' = With(db, [usage_ledger |-> mem.ledger])
    /\ Go /\ Same

RecordStoppers ==
    /\ Doing("stoppers")
    /\ db' = With(db, [stopper_states |-> 1..mem.stoppers])
    /\ Go /\ Same

\* record_cache_profile: one transaction; an access is named by its place in the log of the
\* process that made it.
RecordProfile ==
    /\ Doing("profile")
    /\ db' = [With(db, [cache_profiles |-> {"profile"},
                        cache_accesses |-> {<<i, mem.accesses[i]>> : i \in DOMAIN mem.accesses}])
              EXCEPT !.total = Len(mem.accesses)]
    /\ Go /\ Same

EmitEnded ==
    /\ Doing("ended")
    /\ file' = [file EXCEPT !.events = @ + 1]
    /\ Go /\ UNCHANGED <<db, log, cursor, mem, up>>

RecordStream ==
    /\ Doing("stream")
    /\ db' = [db EXCEPT !.stream = [events |-> file.events, proposed |-> file.proposed]]
    /\ Go /\ Same

\* record_run_finished, record_run_failed, record_run_cancelled_result: WHERE completed_at IS
\* NULL.
CloseRun ==
    /\ Doing("close")
    /\ db' = IF db.run.closed THEN db
             ELSE [db EXCEPT !.run = [state |-> Op.state, cost |-> mem.spent, closed |-> TRUE,
                        best |-> IF mem.best = None THEN @.best ELSE mem.best]]
    /\ Go /\ Same

\* persist_gepa_run_state
SaveCursor ==
    /\ Doing("save")
    /\ mem' = Updated(Op.new)
    /\ cursor' = Saved(mem')
    /\ db' = With(db, [checkpoints |-> {"cursor"}])
    /\ Go /\ UNCHANGED <<file, log, up>>

\* The service drops the context after each tick, the run loop keeps it.
Return ==
    /\ Doing("return")
    /\ up' = IF mem.phase \in RunTerminal THEN "done" ELSE IF scn.service THEN "down" ELSE "tick"
    /\ mem' = IF up' = "tick" THEN mem ELSE Blank
    /\ Go /\ UNCHANGED <<db, file, log, cursor>>

\* SIGKILL between two writes.
Crash ==
    /\ up = "tick"
    /\ left.crashes > 0
    /\ left' = [left EXCEPT !.crashes = @ - 1]
    /\ up' = "down"
    /\ mem' = Blank
    /\ todo' = <<>>
    /\ UNCHANGED <<scn, db, file, log, cursor>>

\* recover_expired_optimizer_jobs, which only the service calls: a lease that nobody holds any
\* more passes.  Bound: one kill, so that a rollout has attempts left; a proposer has one.
Recover ==
    /\ scn.service
    /\ up = "down"
    /\ \E e \in DOMAIN db.jobs :
        /\ db.jobs[e].status = "running"
        /\ db' = [db EXCEPT !.jobs[e].status =
                     IF e.stage = "proposer" THEN "expired" ELSE "retry_scheduled"]
    /\ UNCHANGED <<scn, file, log, cursor, mem, up, todo, left>>

RequestCancel ==
    /\ scn.cancel
    /\ up = "down"
    /\ ~ left.cancel
    /\ left' = [left EXCEPT !.cancel = TRUE]
    /\ UNCHANGED <<scn, db, file, log, cursor, mem, up, todo>>

Over == up \in {"done", "error"} /\ UNCHANGED vars

Next ==
    \/ Open \/ Tick \/ WriteRows \/ SetMemory \/ Transition \/ NoTransition
    \/ RecordHistory \/ RecordRow \/ RecordRendered \/ RewriteHistory \/ Restore \/ Load
    \/ RecordEffect \/ RefusedByBudget \/ RecordReservation \/ RecordJob \/ Send \/ Proposed
    \/ PersistCandidates \/ LogCandidate \/ LogRefused
    \/ RecordLedger \/ RecordStoppers \/ RecordProfile \/ EmitEnded \/ RecordStream
    \/ CloseRun \/ SaveCursor \/ Return \/ Crash \/ Recover \/ RequestCancel \/ Over

Spec == Init /\ [][Next]_vars

-----------------------------------------------------------------------------
(* Properties *)

Killed == left.crashes < scn.crashes

\* Calls that were made and paid for: a rollout for each row, one for a proposer's turn.
Units(d) ==
    MapThenSumSet(LAMBDA e : Cardinality(e.rows),
                  {e \in DOMAIN d.jobs : d.jobs[e].status = "completed"})

\* Two batches of one candidate and stage that share a row.
Repeated(d) ==
    \E e, f \in DOMAIN d.jobs :
        e # f /\ e.cand = f.cand /\ e.stage = f.stage /\ e.rows \cap f.rows # {}

\* A full-train pass that the budget ended before its reward.
PartlyScored(d) ==
    \E f \in d.frames : f.stage \in FullTrain /\ d.cands[f.cand].train = Null

\* A kill left an effect's reservation without its job, and the next plan was refused for it.
Orphaned(d) ==
    \E e \in DOMAIN d.effects :
        {<<e, "admitted">>, <<e, "rejected">>} \subseteq d.rows["runtime_effect_admissions"]

Tolerated ==
    (IF Killed THEN {"usage_ledger", "cache_accesses"} ELSE {})
        \cup (IF Repeated(db) THEN {"trace_annotations"} ELSE {})
        \cup (IF PartlyScored(db) THEN {"frontier"} ELSE {})
        \cup (IF Orphaned(db) THEN {"admissions", "reservations"} ELSE {})

\* What a cancelled run had not reached yet.
Unreached ==
    {"no_usage_ledger", "materializations", "container_contract_snapshots",
     "prompt_program_snapshots", "taskset_snapshots", "objective_sets", "stopper_states"}

\* The report of a run that ended.  A completed run that nobody killed has no violation and no
\* stale projection but Pareto's, and its cost is exactly what its calls cost; a kill between
\* any two writes of any tick, redone from the cursor, may only leave the ledger or the
\* cache's access log off and may only overstate the cost.  A run that failed, its budget
\* spent or its heldout not measured, has a clean report too when nobody killed it; under the
\* run loop a kill may, beyond that, leave only the second admission and the reservation of
\* an effect that was refused for its own orphan.  One that was cancelled and not killed
\* misses only what it had not reached, and holds no reservation.
ReportClean ==
    up = "done" =>
        /\ cursor.phase = "Completed" =>
              /\ db.run.closed
              /\ Violations(db) \subseteq Tolerated
              /\ StaleProjections(db) \subseteq Tolerated \cup {"pareto"}
              /\ db.run.cost >= Units(db)
              /\ ~ Killed => db.run.cost = Units(db)
        /\ cursor.phase = "Failed" /\ ~ Killed => Violations(db) = {}
        /\ cursor.phase = "Failed" /\ ~ scn.service => Violations(db) \subseteq Tolerated
        /\ cursor.phase = "Cancelled" /\ ~ Killed => Violations(db) \subseteq Unreached

\* frontier_cells, rebuilt from the score vectors of the full-train frames, are at every
\* moment of a run, before and after a kill, the candidates whose stored train_reward is
\* highest: both are averages of the same frames, computed by different code.  A pass the
\* budget cut keeps its frames without a reward and is the exception.
FrontierAgrees ==
    ~ PartlyScored(db) => db.rows.frontier_cells = TrainFrontier(db)
=============================================================================
