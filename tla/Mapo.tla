------------------------------- MODULE Mapo -------------------------------
(***************************************************************************)
(* One MAPO run (crates/synth_mapo): propose, train and selection          *)
(* evaluation per generation, the champion, the paired heldout comparison, *)
(* and the artifact files, written one after another after every step.     *)
(* The run keeps its state in memory.  A crash leaves a file torn and the  *)
(* others as they were; a rerun starts from nothing in the same run_dir    *)
(* (options.resume is recorded and not acted on).  The rollouts of a group *)
(* answer by a pattern, so that means and sums over a group are real ones; *)
(* the files whose content never changes within a run are left out.        *)
(***************************************************************************)
EXTENDS Integers, Sequences, FiniteSets, FiniteSetsExt, SequencesExt, TLC

CONSTANTS
    Configs,       \* the configurations a run may be started with, each with the
                   \* patterns its rollouts answer by and the faults it meets
    Schedules      \* what discovery rollouts return: sequences of checkpoints

\* MapoConfig as far as a run depends on it; a summary is what a rollout answers.
Summary == [success : {0, 1}, reward : Int, delivered : Nat, chars : Nat]
Config ==
    [dry : BOOLEAN, attempts : Nat \ {0}, faults : BOOLEAN,
     answers : SUBSET (Seq(Summary) \ {<<>>}),
     train : Seq(Int), selSeeds : Seq(Int), selTasks : Seq(Nat), heldout : Seq(Int),
     gens : Nat, proposals : Nat, trainReps : Nat, selReps : Nat, topK : Nat,
     branch : BOOLEAN, keep : Nat, minStep : Nat, strategy : STRING, minMessages : Nat,
     heldoutReps : Nat, minPairs : Nat, minDelta : Int,
     campaign : {"none", "alem", "craftax", "dungeongrid", "overcooked"}]   \* adapter_id

ASSUME MapoAssumption ==
    /\ Configs \subseteq Config
    /\ Schedules \subseteq Seq([cp : Nat, at : Nat, reward : Int, delivered : Nat, chars : Nat])

VARIABLES
    cfg, attempt,  \* the configuration, and which run in this run_dir it is
    pc,            \* where the run is
    gen,           \* generation
    todo,          \* candidates the current loop still has to evaluate
    fresh,         \* evaluated_generation
    champ,         \* champion
    best,          \* selection_champion, NoCandidate when there is none
    reg,           \* candidates: one entry per evaluation
    cps,           \* generation_branch_checkpoints
    recs,          \* rollout counts, and the two heldout arms
    verdict,       \* heldout_comparison
    calls, made,   \* ids of the rollouts requested in this run, and how many
    pending,       \* files the current persist still has to write
    step,          \* persists begun in this run
    disk,          \* file -> its content
    ioError        \* a write failed in this run

vars == <<cfg, attempt, pc, gen, todo, fresh, champ, best, reg, cps, recs, verdict,
          calls, made, pending, step, disk, ioError>>

NoScore     == <<>>
NoCandidate == [id |-> 0, train |-> NoScore, selection |-> NoScore]

\* mapo_g<generation>_p<index>, which the seed's id sorts after.  Ids are compared
\* as text; up to ten generations and proposals that is this order.
CandidateId(generation, index) == (cfg.proposals + 1) * generation + index
SeedId      == CandidateId(cfg.gens + 1, 0)
Seed        == [NoCandidate EXCEPT !.id = SeedId]
NoVerdict   == [pairs |-> 0, passed |-> FALSE]
NoRecords   == [train |-> 0, selection |-> 0, branch |-> 0, baseline |-> <<>>, heldout |-> <<>>]
Files       == {"registry", "rollouts", "review", "comparison", "manifest", "status", "failure"}
Absent      == [kind |-> "absent", attempt |-> 0, step |-> 0]
Torn        == [kind |-> "torn", attempt |-> 0, step |-> 0]
Over        == pc \in {"done", "failed", "crashed"}

-----------------------------------------------------------------------------
(* config.rs, campaign.rs *)

HasSelection(c) == c.selSeeds # <<>> \/ c.selTasks # <<>>

HeldoutCount(adapter) == IF adapter = "alem" THEN 60 ELSE 20

\* The plan-approved search of a frozen campaign.  The manifest fixes the ids of
\* every split, so the number of different seeds and tasks.
CampaignMatches(c) ==
    c.campaign # "none" =>
      /\ c.gens = 4 /\ c.proposals = 4 /\ c.topK = 3 /\ c.trainReps = 3 /\ c.selReps = 1
      /\ Cardinality(ToSet(c.train)) = 8
      /\ Cardinality(ToSet(c.selSeeds)) + Cardinality(ToSet(c.selTasks)) = 4
      /\ {Cardinality(ToSet(c.heldout)), c.heldoutReps, c.minPairs} = {HeldoutCount(c.campaign)}

\* Mutant: selection seeds are not compared with the heldout seeds.
ValidWithSelectionLeak(c) ==
    /\ c.train # <<>> /\ c.heldout # <<>>
    /\ ToSet(c.train) \cap (ToSet(c.selSeeds) \cup ToSet(c.heldout)) = {}
    /\ c.gens > 0 /\ c.proposals > 0 /\ c.trainReps > 0
    /\ CampaignMatches(c)

\* MapoConfig::validate
Valid(c) ==
    /\ c.train # <<>> /\ c.heldout # <<>>
    /\ ToSet(c.train) \cap (ToSet(c.selSeeds) \cup ToSet(c.heldout)) = {}
    /\ ToSet(c.selSeeds) \cap ToSet(c.heldout) = {}
    /\ c.gens > 0 /\ c.proposals > 0 /\ c.trainReps > 0
    /\ HasSelection(c) => c.selReps > 0 /\ c.topK > 0
    /\ c.branch => HasSelection(c) /\ c.keep > 0 /\ c.strategy \in {"reward", "early", "late"}
    /\ CampaignMatches(c)

-----------------------------------------------------------------------------
(* A stable sort *)

\* Place i comes before j when it leads, or neither does and it stood before.
Stable(s, Leads(_, _)) ==
    {p \in (DOMAIN s) \X (DOMAIN s) :
        \/ Leads(s[p[1]], s[p[2]])
        \/ ~Leads(s[p[2]], s[p[1]]) /\ p[1] < p[2]}

\* The places of a list in a strict total order of them.
Arranged(places, before) ==
    [k \in 1 .. Cardinality(places) |->
       CHOOSE i \in places : Cardinality({j \in places : <<j, i>> \in before}) = k - 1]

-----------------------------------------------------------------------------
(* executor.rs: the cases of a group, in the order they are rolled out *)

SeedCases(seeds, reps) ==
    [i \in 1 .. reps * Len(seeds) |->
       [seed |-> seeds[((i - 1) % Len(seeds)) + 1], episode |-> (i - 1) \div Len(seeds),
        task |-> 0, from |-> 0]]

\* The seed of a task instance is the number its id ends in.
TaskSeed(task) == task % 10

TaskCases(tasks, reps) ==
    [i \in 1 .. reps * Len(tasks) |->
       LET task == tasks[((i - 1) % Len(tasks)) + 1]
       IN  [seed |-> TaskSeed(task), episode |-> (i - 1) \div Len(tasks), task |-> task, from |-> 0]]

DiscoveryCases(c) ==
    IF c.selTasks = <<>> THEN SeedCases(c.selSeeds, 1) ELSE TaskCases(c.selTasks, 1)

BranchCases(checkpoints) ==
    [i \in DOMAIN checkpoints |->
       [seed |-> checkpoints[i].seed, episode |-> i - 1, task |-> checkpoints[i].task, from |-> i]]

\* rollout_id
RolloutIds(candidate, split, group, cases) ==
    {[id |-> candidate, split |-> split, group |-> group, seed |-> cases[i].seed,
      episode |-> cases[i].episode] : i \in DOMAIN cases}

\* checkpoint_order
CheckpointBefore(a, b, strategy) ==
    LET key(x) == CASE strategy = "early" -> <<0 - x.at, x.reward>>
                    [] strategy = "late"  -> <<x.at, x.reward>>
                    [] OTHER              -> <<x.reward, x.at>>
    IN  \/ key(a)[1] > key(b)[1]
        \/ key(a)[1] = key(b)[1] /\ key(a)[2] > key(b)[2]
        \/ key(a) = key(b) /\ a.cp < b.cp

\* extract_branch_checkpoints of one discovery rollout
Extract(c, case, schedule) ==
    LET late   == {i \in DOMAIN schedule : schedule[i].at >= c.minStep}
        sorted == Arranged(late, Stable(schedule, LAMBDA a, b : CheckpointBefore(a, b, c.strategy)))
        kept(i) == schedule[sorted[i]]
    IN  [i \in 1 .. Min({c.keep, Cardinality(late)}) |->
           [seed |-> case.seed, task |-> case.task, reward |-> kept(i).reward,
            delivered |-> kept(i).delivered, chars |-> kept(i).chars]]

Minus(a, b) == IF a > b THEN a - b ELSE 0     \* saturating_sub

\* rollout_record: what a branch rollout adds to its checkpoint
Record(case, summary, checkpoints) ==
    [case      |-> case,
     success   |-> summary.success,
     reward    |-> IF case.from = 0 THEN summary.reward
                   ELSE summary.reward - checkpoints[case.from].reward,
     delivered |-> IF case.from = 0 THEN summary.delivered
                   ELSE Minus(summary.delivered, checkpoints[case.from].delivered),
     chars     |-> IF case.from = 0 THEN summary.chars
                   ELSE Minus(summary.chars, checkpoints[case.from].chars)]

Records(cases, pattern, checkpoints) ==
    [i \in DOMAIN cases |-> Record(cases[i], pattern[((i - 1) % Len(pattern)) + 1], checkpoints)]

-----------------------------------------------------------------------------
(* scoring.rs; a rate or a mean is kept as its sum times Scale over the count *)

Scale == 12

Total(records, field) == MapThenSumSet(LAMBDA i : records[i][field], DOMAIN records)

FromRollouts(records) ==
    LET n == Max({Len(records), 1})
    IN  [rate      |-> (Scale * Total(records, "success")) \div n,
         reward    |-> (Scale * Total(records, "reward")) \div n,
         chars     |-> Total(records, "chars"),
         delivered |-> Total(records, "delivered")]

\* mapo_score_better
Better(a, b) ==
    \/ a.rate > b.rate
    \/ a.rate = b.rate /\ a.reward > b.reward
    \/ a.rate = b.rate /\ a.reward = b.reward /\ a.chars < b.chars

PairKeys(records) == {[seed |-> records[i].case.seed, episode |-> records[i].case.episode] : i \in DOMAIN records}

\* records_by_pair_key, MapoHeldoutComparison::new: both arms hold the same keys, once.
Paired(baseline, champion) ==
    /\ baseline # <<>> /\ champion # <<>>
    /\ Cardinality(PairKeys(baseline)) = Len(baseline)
    /\ Cardinality(PairKeys(champion)) = Len(champion)
    /\ PairKeys(baseline) = PairKeys(champion)

\* h2_bar_passed
Verdict(c, baseline, champion) ==
    LET wins(records)  == Total(records, "success")
        chars(records) == Total(records, "chars")
        pairs == Cardinality(PairKeys(baseline))
        notWorse == /\ wins(champion) > 0 \/ wins(baseline) > 0
                    /\ (wins(champion) > 0 /\ wins(baseline) > 0) =>
                          chars(champion) * wins(baseline) <= chars(baseline) * wins(champion)
    IN  [pairs  |-> pairs,
         passed |-> /\ pairs >= c.minPairs
                    /\ 100 * (wins(champion) - wins(baseline)) >= c.minDelta * pairs
                    /\ notWorse]

-----------------------------------------------------------------------------
(* The artifact files *)

\* Mutant: the status is written first.
ArtifactOrderStatusFirst(written) ==
    <<"status", "registry", "rollouts", "review">>
       \o (IF written THEN <<"comparison">> ELSE <<>>) \o <<"manifest">>

\* The order of persist_mapo_artifacts.
ArtifactOrder(written) ==
    <<"registry", "rollouts", "review">>
       \o (IF written THEN <<"comparison">> ELSE <<>>) \o <<"manifest", "status">>

\* persist_mapo_artifacts begins; the comparison is written once there is one.
Persist(written) == pending' = ArtifactOrder(written) /\ step' = step + 1

\* The order of persist_mapo_failure_artifacts.
FailureOrder == <<"failure", "manifest", "status">>

\* What a file written now would say.
Content ==
    IF pc = "failing" THEN [kind |-> "failed", attempt |-> attempt, step |-> step]
    ELSE [kind |-> "run", attempt |-> attempt, step |-> step,
          champ |-> champ.id, rolls |-> recs.train + recs.selection + recs.branch
                                          + Len(recs.baseline) + Len(recs.heldout),
          compared |-> verdict # NoVerdict]

Fail ==
    /\ pc' = "failing" /\ pending' = FailureOrder /\ step' = step + 1
    /\ UNCHANGED <<cfg, attempt, gen, todo, fresh, champ, best, reg, cps, recs, verdict, disk, ioError>>

Running(p) == pc = p /\ pending = <<>>

Write ==
    /\ ~Over /\ pending # <<>>
    /\ disk' = [disk EXCEPT ![Head(pending)] = Content]
    /\ pending' = Tail(pending)
    /\ UNCHANGED <<cfg, attempt, pc, gen, todo, fresh, champ, best, reg, cps, recs, verdict,
                   calls, made, step, ioError>>

\* A write fails.  In persist_mapo_artifacts that ends the run; in the failure
\* artifacts it is only reported.
WriteFails ==
    /\ cfg.faults /\ ~Over /\ pending # <<>>
    /\ ioError' = TRUE
    /\ \/ disk' = [disk EXCEPT ![Head(pending)] = Torn]
       \/ UNCHANGED disk
    /\ IF pc = "failing" THEN pc' = "failed" /\ pending' = <<>> /\ UNCHANGED step
       ELSE pc' = "failing" /\ pending' = FailureOrder /\ step' = step + 1
    /\ UNCHANGED <<cfg, attempt, gen, todo, fresh, champ, best, reg, cps, recs, verdict, calls, made>>

Failed ==
    /\ Running("failing") /\ pc' = "failed"
    /\ UNCHANGED <<cfg, attempt, gen, todo, fresh, champ, best, reg, cps, recs, verdict,
                   calls, made, pending, step, disk, ioError>>

-----------------------------------------------------------------------------

Fresh ==
    /\ pc' = "start" /\ gen' = 1 /\ todo' = <<>> /\ fresh' = <<>>
    /\ champ' = Seed /\ best' = NoCandidate /\ reg' = <<Seed>> /\ cps' = <<>>
    /\ recs' = NoRecords /\ verdict' = NoVerdict
    /\ calls' = {} /\ made' = 0 /\ pending' = <<>> /\ step' = 0 /\ ioError' = FALSE

Init ==
    /\ cfg \in Configs /\ attempt = 1
    /\ pc = "start" /\ gen = 1 /\ todo = <<>> /\ fresh = <<>>
    /\ champ = Seed /\ best = NoCandidate /\ reg = <<Seed>> /\ cps = <<>>
    /\ recs = NoRecords /\ verdict = NoVerdict
    /\ calls = {} /\ made = 0 /\ pending = <<>> /\ step = 0 /\ ioError = FALSE
    /\ disk = [f \in Files |-> Absent]

\* validate, the campaign binding, the first persist
Start ==
    /\ Running("start") /\ UNCHANGED <<calls, made>>
    /\ \/ ~Valid(cfg) /\ Fail
       \/ /\ Valid(cfg)
          /\ Persist(FALSE) /\ pc' = "ready"
          /\ UNCHANGED <<cfg, attempt, gen, todo, fresh, champ, best, reg, cps, recs, verdict, disk, ioError>>

\* wait_for_container_ready; a dry run stops here.
Ready ==
    /\ Running("ready")
    /\ pc' = IF cfg.dry THEN "finish" ELSE "generation"
    /\ UNCHANGED <<cfg, attempt, gen, todo, fresh, champ, best, reg, cps, recs, verdict,
                   calls, made, pending, step, disk, ioError>>

Unreachable ==
    /\ Running("ready") /\ ~cfg.dry /\ cfg.faults /\ Fail /\ UNCHANGED <<calls, made>>

\* propose_candidates, with the champion evaluated again behind the proposals
Propose ==
    /\ Running("generation") /\ gen <= cfg.gens
    /\ todo' = Append([i \in 1 .. cfg.proposals |-> [NoCandidate EXCEPT !.id = CandidateId(gen, i)]], champ)
    /\ fresh' = <<>> /\ pc' = "train"
    /\ UNCHANGED <<cfg, attempt, gen, champ, best, reg, cps, recs, verdict,
                   calls, made, pending, step, disk, ioError>>

\* The group of rollouts that comes next: split, candidate, group name and cases.
SelectionCases ==
    IF cfg.branch THEN BranchCases(cps)
    ELSE IF cfg.selTasks = <<>> THEN SeedCases(cfg.selSeeds, cfg.selReps)
    ELSE TaskCases(cfg.selTasks, cfg.selReps)

NextGroup ==
    LET group(split, id, name, cases) == [split |-> split, id |-> id, name |-> name, cases |-> cases]
    IN  CASE pc = "train"    -> group("train", Head(todo).id, <<gen, "c", Len(todo)>>,
                                      SeedCases(cfg.train, cfg.trainReps))
          [] pc = "discover" -> group("branch_discovery", champ.id, <<gen, "d", 0>>, DiscoveryCases(cfg))
          [] pc = "select"   -> group(IF cfg.branch THEN "branch_selection" ELSE "selection",
                                      Head(todo).id, <<gen, "s", Len(todo)>>, SelectionCases)
          [] pc = "baseline" -> group("heldout_baseline", SeedId, <<0, "h", 0>>,
                                      SeedCases(cfg.heldout, cfg.heldoutReps))
          [] pc = "champion" -> group("heldout", champ.id, <<0, "h", 1>>,
                                      SeedCases(cfg.heldout, cfg.heldoutReps))

GroupDue ==
    /\ pending = <<>>
    /\ pc \in {"train", "discover", "select", "baseline", "champion"}
    /\ pc \in {"train", "select"} => todo # <<>>

Requested(group, n) ==
    /\ calls' = calls \cup RolloutIds(group.id, group.split, group.name, SubSeq(group.cases, 1, n))
    /\ made' = made + n

\* The container fails in the middle of a group: its records are lost.
GroupFails ==
    /\ GroupDue /\ cfg.faults
    /\ \E group \in {NextGroup} : \E n \in DOMAIN group.cases : Requested(group, n)
    /\ Fail

TrainEvaluated ==
    /\ GroupDue /\ pc = "train"
    /\ \E group \in {NextGroup} : \E pattern \in cfg.answers :
       \E score \in {FromRollouts(Records(group.cases, pattern, <<>>))} :
         LET evaluated == [Head(todo) EXCEPT !.train = score]
         IN  /\ Requested(group, Len(group.cases))
             /\ champ' = IF champ.train = NoScore \/ Better(score, champ.train)
                         THEN evaluated ELSE champ
             /\ fresh' = Append(fresh, evaluated) /\ reg' = Append(reg, evaluated)
             /\ recs' = [recs EXCEPT !.train = @ + Len(group.cases)]
    /\ todo' = Tail(todo) /\ Persist(FALSE)
    /\ UNCHANGED <<cfg, attempt, pc, gen, best, cps, verdict, disk, ioError>>

TrainEnds ==
    /\ Running("train") /\ todo = <<>>
    /\ pc' = CASE ~HasSelection(cfg) -> "end" [] cfg.branch -> "discover" [] OTHER -> "rank"
    /\ cps' = <<>>
    /\ UNCHANGED <<cfg, attempt, gen, todo, fresh, champ, best, reg, recs, verdict,
                   calls, made, pending, step, disk, ioError>>

\* Every discovery rollout must leave a checkpoint to branch from.
Discover ==
    /\ GroupDue /\ pc = "discover"
    /\ \E group \in {NextGroup} : \E schedule \in Schedules :
       \E found \in {[i \in DOMAIN group.cases |-> Extract(cfg, group.cases[i], schedule)]} :
         /\ Requested(group, Len(group.cases))
         /\ IF \E i \in DOMAIN found : found[i] = <<>> THEN Fail
            ELSE /\ cps' = FlattenSeq(found)
                 /\ recs' = [recs EXCEPT !.branch = @ + Len(group.cases)]
                 /\ pc' = "rank" /\ Persist(FALSE)
                 /\ UNCHANGED <<cfg, attempt, gen, todo, fresh, champ, best, reg, verdict, disk, ioError>>

\* The order of top_train_candidates: better train score, then id.
TrainBefore(a, b) ==
    Better(a.train, b.train) \/ (~Better(b.train, a.train) /\ a.id < b.id)

Top(cs, k, order) ==
    SubSeq([n \in DOMAIN cs |-> cs[Arranged(DOMAIN cs, order)[n]]], 1, Min({k, Len(cs)}))

\* Mutant: the champion has no place of its own.
TopTrainWithoutChampion(cs, k, id) == Top(cs, k, Stable(cs, TrainBefore))

\* top_train_candidates: the champion, then the best of the generation (its ids
\* are distinct).
TopTrain(cs, k, id) ==
    Top(cs, k, Stable(cs, LAMBDA a, b :
                 IF (a.id = id) = (b.id = id) THEN TrainBefore(a, b) ELSE a.id = id))

Rank ==
    /\ Running("rank")
    /\ todo' = TopTrain(fresh, cfg.topK, champ.id)
    /\ best' = NoCandidate /\ fresh' = <<>> /\ pc' = "select"
    /\ UNCHANGED <<cfg, attempt, gen, champ, reg, cps, recs, verdict,
                   calls, made, pending, step, disk, ioError>>

Eligible(score) == score.delivered >= cfg.minMessages

SelectionEvaluated ==
    /\ GroupDue /\ pc = "select"
    /\ \E group \in {NextGroup} : \E pattern \in cfg.answers :
       \E score \in {FromRollouts(Records(group.cases, pattern, cps))} :
         LET evaluated == [Head(todo) EXCEPT !.selection = score]
         IN  /\ Requested(group, Len(group.cases))
             /\ best' = IF /\ Eligible(score)
                           /\ best = NoCandidate \/ Better(score, best.selection)
                        THEN evaluated ELSE best
             /\ fresh' = Append(fresh, evaluated) /\ reg' = Append(reg, evaluated)
             /\ recs' = [recs EXCEPT !.selection = @ + Len(group.cases),
                                     !.branch = IF cfg.branch THEN @ + Len(group.cases) ELSE @]
    /\ todo' = Tail(todo) /\ Persist(FALSE)
    /\ UNCHANGED <<cfg, attempt, pc, gen, champ, cps, verdict, disk, ioError>>

SelectionEnds ==
    /\ Running("select") /\ todo = <<>> /\ UNCHANGED <<calls, made>>
    /\ IF best = NoCandidate /\ cfg.minMessages > 0 THEN Fail
       ELSE /\ champ' = IF best = NoCandidate THEN champ ELSE best
            /\ pc' = "end"
            /\ UNCHANGED <<cfg, attempt, gen, todo, fresh, best, reg, cps, recs, verdict,
                           pending, step, disk, ioError>>

GenerationEnds ==
    /\ Running("end") /\ Persist(FALSE)
    /\ pc' = "generation" /\ gen' = gen + 1
    /\ UNCHANGED <<cfg, attempt, todo, fresh, champ, best, reg, cps, recs, verdict,
                   calls, made, disk, ioError>>

SearchEnds ==
    /\ Running("generation") /\ gen > cfg.gens /\ pc' = "baseline"
    /\ UNCHANGED <<cfg, attempt, gen, todo, fresh, champ, best, reg, cps, recs, verdict,
                   calls, made, pending, step, disk, ioError>>

HeldoutBaseline ==
    /\ GroupDue /\ pc = "baseline"
    /\ \E group \in {NextGroup} : \E pattern \in cfg.answers :
         /\ Requested(group, Len(group.cases))
         /\ recs' = [recs EXCEPT !.baseline = Records(group.cases, pattern, <<>>)]
    /\ Persist(FALSE) /\ pc' = "champion"
    /\ UNCHANGED <<cfg, attempt, gen, todo, fresh, champ, best, reg, cps, verdict, disk, ioError>>

HeldoutChampion ==
    /\ GroupDue /\ pc = "champion"
    /\ \E group \in {NextGroup} : \E pattern \in cfg.answers :
       \E records \in {Records(group.cases, pattern, <<>>)} :
         /\ Requested(group, Len(group.cases))
         /\ IF ~Paired(recs.baseline, records) THEN Fail
            ELSE /\ recs' = [recs EXCEPT !.heldout = records]
                 /\ verdict' = Verdict(cfg, recs.baseline, records)
                 /\ pc' = "finish"
                 /\ UNCHANGED <<cfg, attempt, gen, todo, fresh, champ, best, reg, cps,
                                pending, step, disk, ioError>>

\* The last persist, with the result.
Finish ==
    /\ Running("finish") /\ Persist(verdict # NoVerdict) /\ pc' = "result"
    /\ UNCHANGED <<cfg, attempt, gen, todo, fresh, champ, best, reg, cps, recs, verdict,
                   calls, made, disk, ioError>>

Return ==
    /\ Running("result") /\ pc' = "done"
    /\ UNCHANGED <<cfg, attempt, gen, todo, fresh, champ, best, reg, cps, recs, verdict,
                   calls, made, pending, step, disk, ioError>>

-----------------------------------------------------------------------------

\* fs::write truncates and then writes: the file being written may be torn.
Crash ==
    /\ cfg.faults /\ ~Over /\ pc' = "crashed" /\ pending' = <<>>
    /\ \/ UNCHANGED disk
       \/ pending # <<>> /\ disk' = [disk EXCEPT ![Head(pending)] = Torn]
    /\ UNCHANGED <<cfg, attempt, gen, todo, fresh, champ, best, reg, cps, recs, verdict,
                   calls, made, step, ioError>>

\* The run is started again in the same run_dir, dry or not.
Rerun ==
    /\ Over /\ attempt < cfg.attempts        \* bound: runs started in one run_dir
    /\ attempt' = attempt + 1 /\ Fresh
    /\ \E dry \in BOOLEAN : cfg' = [cfg EXCEPT !.dry = dry]
    /\ UNCHANGED disk

Advance ==
    \/ Start \/ Ready \/ Unreachable \/ Propose \/ GroupFails \/ TrainEvaluated \/ TrainEnds
    \/ Discover \/ Rank \/ SelectionEvaluated \/ SelectionEnds \/ GenerationEnds \/ SearchEnds
    \/ HeldoutBaseline \/ HeldoutChampion \/ Finish \/ Return \/ Write \/ WriteFails \/ Failed

Next == Advance \/ Crash \/ Rerun

\* The run is one thread; nobody has to start it again.
Spec == Init /\ [][Next]_vars /\ WF_vars(Advance)

-----------------------------------------------------------------------------
(* Properties *)

(* Types; recs counts every rollout that was answered and kept.              *)
TypeOK ==
    /\ cfg.dry \in BOOLEAN /\ attempt \in 1 .. cfg.attempts
    /\ pc \in {"start", "ready", "generation", "train", "discover", "rank", "select", "end",
               "baseline", "champion", "finish", "result", "failing", "done", "failed", "crashed"}
    /\ DOMAIN disk = Files
    /\ recs.train + recs.selection + recs.branch + Len(recs.baseline) + Len(recs.heldout)
         <= made + (IF cfg.branch THEN recs.selection ELSE 0)
    /\ Len(reg) <= 1 + cfg.gens * (cfg.proposals + 1 + cfg.topK)

\* Configurations whose seeds and task seeds are distinct within their split.
Distinct(c) ==
    /\ IsInjective(c.train) /\ IsInjective(c.selSeeds) /\ IsInjective(c.heldout)
    /\ IsInjective([i \in DOMAIN c.selTasks |-> TaskSeed(c.selTasks[i])])

(* Within a run a rollout_id is requested once, although the champion is     *)
(* rolled out on the same seeds in every generation (validate does not ask   *)
(* for distinct seeds).                                                      *)
UniqueRollouts == Distinct(cfg) => Cardinality(calls) = made

(* A seed of the heldout split is never rolled out by the search, when the   *)
(* selection is by seeds (the seeds of selection tasks are not compared).    *)
HeldoutUnseen ==
    cfg.selTasks = <<>> =>
      \A x \in calls : x.seed \in ToSet(cfg.heldout) => x.split \in {"heldout", "heldout_baseline"}

(* At the end of a generation: without a selection split nothing registered  *)
(* has a better train score than the champion; with one, nobody of the       *)
(* generation that met the message floor has a better selection score, and   *)
(* the champion met it.                                                      *)
ChampionLeads ==
    pc = "end" =>
      IF HasSelection(cfg)
      THEN /\ champ.selection.delivered >= cfg.minMessages
           /\ \A i \in DOMAIN fresh : fresh[i].selection.delivered >= cfg.minMessages =>
                 ~Better(fresh[i].selection, champ.selection)
      ELSE \A i \in DOMAIN reg : reg[i].train # NoScore => ~Better(reg[i].train, champ.train)

(* The incumbent of the train stage is among those the selection compares,   *)
(* however bad its last evaluation was (top_train_candidates).               *)
ChampionDefends ==
    pc = "select" /\ todo = <<>> => \E i \in DOMAIN fresh : fresh[i].id = champ.id

(* A comparison exists only over the full product of heldout seeds and       *)
(* episodes, each pair once in both arms.                                    *)
PairsExact ==
    verdict # NoVerdict =>
      /\ verdict.pairs = Len(recs.baseline) /\ verdict.pairs = Len(recs.heldout)
      /\ PairKeys(recs.baseline) = PairKeys(recs.heldout)
      /\ verdict.pairs = Len(cfg.heldout) * cfg.heldoutReps

Older(a, b) == a.attempt < b.attempt \/ (a.attempt = b.attempt /\ a.step < b.step)

(* mapo_status.json is written last: whatever it reports, the registry, the  *)
(* rollouts and the manifest on disk are as recent, or torn, at any crash.   *)
StatusLast ==
    disk["status"].kind = "run" =>
      \A f \in {"registry", "rollouts", "review", "manifest"} :
        disk[f].kind # "torn" => ~Older(disk[f], disk["status"])

(* A status that says the comparison is written is backed by one of its own  *)
(* run.  The converse fails: after a rerun an old comparison file stays.     *)
ComparisonBacked ==
    disk["status"].kind = "run" /\ disk["status"].compared =>
      disk["comparison"].kind = "torn" \/ disk["comparison"].attempt >= disk["status"].attempt

(* A run that fails says so in the manifest and in the status, unless the    *)
(* writes themselves fail; a run that is done says what it did.              *)
OutcomeOnDisk ==
    ~ioError =>
      /\ pc = "failed" => \A f \in {"manifest", "status", "failure"} :
            disk[f].kind = "failed" /\ disk[f].attempt = attempt
      /\ pc = "done" => \A f \in {"manifest", "status", "registry", "rollouts"} :
            /\ disk[f].kind = "run" /\ disk[f].attempt = attempt
            /\ disk[f].champ = champ.id /\ disk[f].compared = ~cfg.dry

(* The heldout comparison is a fair one: exact pairs, on seeds the search    *)
(* never saw, with no rollout id requested twice.                            *)
ComparisonIsFair == TypeOK /\ UniqueRollouts /\ HeldoutUnseen /\ PairsExact

(* The champion was compared in the generation and leads it.                 *)
ChampionIsBest == ChampionLeads /\ ChampionDefends

(* Whatever crash or failed write came in between, the files never claim     *)
(* more than what was written before them.                                   *)
DiskIsTruthful == StatusLast /\ ComparisonBacked /\ OutcomeOnDisk
=============================================================================
