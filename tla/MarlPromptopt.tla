---------------------------- MODULE MarlPromptopt ----------------------------
(***************************************************************************)
(* One run of synth_marl_promptopt (runtime.rs, evaluation.rs, proposer.rs,*)
(* types.rs): load the splits, score the seed, then generations of propose,*)
(* minibatch and selection evaluation, the choice of a champion, the rest  *)
(* of the train budget, and the paired heldout comparison.  The run is one *)
(* sequential process and keeps its state in memory: a crash ends it, so   *)
(* what can go wrong is a container or proposer that fails or answers      *)
(* badly, and a budget that ends in the middle of a row's arms.            *)
(***************************************************************************)
EXTENDS MarlVariants

CONSTANTS
    Configs,       \* the configurations a run may start with
    RowArms,       \* task -> the role ablation arms its row names
    Answers,       \* variant -> the [primary, other] responses of one task's arms
    Proposals,     \* what the proposer may return: sequences of payloads
    SeedPayload,
    MayFail        \* the container and the proposer may fail

ASSUME MarlAssumption ==
    /\ MayFail \in BOOLEAN
    /\ \A c \in Configs :
         /\ c.variant \in {"coma", "ic3net", "rode", "imac"}
         /\ c.minibatch \in Nat /\ c.generations \in Nat
         /\ c.trainLimit \in Nat /\ c.heldoutLimit \in Nat
         /\ c.minRows \in Nat \ {0} /\ c.perGeneration \in Nat \ {0}   \* validate
         /\ {c.train, c.selection, c.heldout} \subseteq Seq(DOMAIN RowArms)
         /\ {c.disjoint, c.exact, c.compareSeed} \subseteq BOOLEAN
    /\ DOMAIN Answers = {"coma", "ic3net", "rode", "imac"}
    /\ \A t \in DOMAIN RowArms :      \* role_ablation::<role>, none of them twice
         IsFiniteSet(RowArms[t]) /\ RowArms[t] \cap {"primary", "channel_masked"} = {}
    /\ \A v \in DOMAIN Answers : \A x \in Answers[v] : {x.primary, x.other} \subseteq Responses
    /\ \A p \in Proposals : Len(p) \in Nat

VARIABLES
    cfg,           \* the configuration
    pc, why,       \* where the run is, and why it failed
    gen,           \* generation
    cands,         \* the candidate registry, in order of registration
    work,          \* proposals, or indices, the current loop still has to evaluate
    eval,          \* the evaluate_candidate call under way
    used,          \* BudgetLedger
    calls,         \* ids of the rollouts requested
    champion,      \* index of the champion, 0 before it is chosen
    audits,        \* the next train row of the budget audit
    paired         \* heldout evaluations made, and the tasks scored for each side

vars == <<cfg, pc, why, gen, cands, work, eval, used, calls, champion, audits, paired>>

NoEval == [stage |-> "none"]
Ended  == pc \in {"done", "failed"}

SeedId == 1000                        \* "seed" sorts after every variant's ids
CandidateId(g, payload) == 100 * g + payload

\* The elements of a sequence that are not in S, in order.
Without(s, S) ==
    LET retained[n \in 0 .. Len(s)] ==
          IF n = 0 THEN <<>>
          ELSE IF s[n] \in S THEN retained[n - 1] ELSE Append(retained[n - 1], s[n])
    IN  retained[Len(s)]

\* load_search_splits: selection tasks leave the train pool.
TrainRows(c) == Without(c.train, ToSet(c.selection))
Unique(s)    == Cardinality(ToSet(s)) = Len(s)

TrainRemaining   == IF used.train >= cfg.trainLimit THEN 0 ELSE cfg.trainLimit - used.train
HeldoutRemaining == IF used.heldout >= cfg.heldoutLimit THEN 0 ELSE cfg.heldoutLimit - used.heldout
Remaining(stage) == IF stage = "heldout" THEN HeldoutRemaining ELSE TrainRemaining

SampleRows(rows, generation, count) ==
    LET n     == Min({count, Len(rows)})
        start == (generation * n) % Len(rows)
    IN  [i \in 1 .. n |-> rows[((start + i - 1) % Len(rows)) + 1]]

The(S) == CHOOSE x \in S : TRUE      \* the element of a singleton

\* selection_basis, compare_candidates
Basis(c) == IF c.selection # <<>> THEN c.selection ELSE c.train
CompareCandidates(a, b) ==
    IF Basis(a) = <<>> \/ Basis(b) = <<>>
    THEN (IF Basis(a) # <<>> THEN 1 ELSE 0) - (IF Basis(b) # <<>> THEN 1 ELSE 0)
    ELSE Compare(cfg.variant, Basis(a), Basis(b))

ScoredIndices(cs) == {i \in DOMAIN cs : Basis(cs[i]) # <<>>}

\* nondominated_candidate_indices, ordered by id; index 1 when there is none.
Nondominated(cs) ==
    LET scored   == ScoredIndices(cs)
        frontier == {i \in scored : ~\E j \in scored \ {i} : CompareCandidates(cs[j], cs[i]) = 1}
        byId(i, j) == cs[i].id < cs[j].id \/ (cs[i].id = cs[j].id /\ i < j)
    IN  The({IF f = {} THEN <<1>> ELSE SetToSortSeq(f, byId) : f \in {frontier}})

\* Mutant: the champion is chosen by its minibatch score.
BestCandidateByTrain(cs) ==
    CHOOSE i \in DOMAIN cs : \A j \in DOMAIN cs : LexCompare(cs[j].train, cs[i].train) # 1

\* The order of max_by and sort_by: the variant's, then the smaller id.
Before(a, b) ==
    \/ CompareCandidates(a, b) = 1
    \/ CompareCandidates(a, b) = 0 /\ a.id < b.id

\* best_candidate_index: max_by keeps its maximum only while it is strictly before.
BestCandidate(cs) ==
    LET best[n \in 1 .. Len(cs)] ==
          IF n = 1 THEN 1
          ELSE The({IF Before(cs[b], cs[n]) THEN b ELSE n : b \in {best[n - 1]}})
    IN  best[Len(cs)]

\* sort_by of the generation's candidates, best first (an insertion sort at this size).
Ranked(cs, indices) ==
    LET slot(s, i) == Max({0} \cup {k \in DOMAIN s : ~Before(cs[i], cs[s[k]])}) + 1
    IN  FoldLeft(LAMBDA sorted, i : The({InsertAt(s, slot(s, i), i) : s \in {sorted}}),
                 <<>>, indices)

-----------------------------------------------------------------------------

Init ==
    /\ cfg \in Configs
    /\ pc = "load" /\ why = "none" /\ gen = 0
    /\ cands = <<>> /\ work = <<>> /\ eval = NoEval
    /\ used = [train |-> 0, heldout |-> 0, proposer |-> 0]
    /\ calls = {} /\ champion = 0 /\ audits = 0
    /\ paired = [turns |-> 0, seed |-> <<>>, champion |-> <<>>]

Fail(reason) ==
    /\ pc' = "failed" /\ why' = reason /\ eval' = NoEval
    /\ UNCHANGED <<cfg, gen, cands, work, champion, audits, paired>>

\* evaluate_candidate begins.
Evaluate(stage, index, id, rows) ==
    eval' = [stage |-> stage, index |-> index, id |-> id, rows |-> rows, batch |-> <<>>]

\* load_search_splits, fetch_rows, assert_search_splits_disjoint and the checks
\* that precede the first rollout.  The heldout ids are only counted here.
Startable(c) ==
    /\ c.selection # <<>> /\ TrainRows(c) # <<>> /\ Unique(TrainRows(c)) /\ Unique(c.selection)
    /\ c.heldout # <<>>
    /\ c.disjoint => /\ ToSet(TrainRows(c)) \cap ToSet(c.heldout) = {}
                     /\ ToSet(c.selection) \cap ToSet(c.heldout) = {}
    /\ c.compareSeed => c.heldoutLimit % 2 = 0

Load ==
    /\ pc = "load" /\ UNCHANGED <<used, calls>>
    /\ \/ ~Startable(cfg) /\ Fail("config")
       \/ MayFail /\ Startable(cfg) /\ Fail("container")
       \/ /\ Startable(cfg)
          /\ pc' = "seed"
          /\ Evaluate("seed_full_train", 1, SeedId, SampleRows(TrainRows(cfg), 0, Max({cfg.minibatch, 1})))
          /\ UNCHANGED <<cfg, why, gen, cands, work, champion, audits, paired>>

-----------------------------------------------------------------------------
(* evaluate_candidate: one row at a time *)

Evaluating == ~Ended /\ eval # NoEval
NextRow    == eval.rows[Len(eval.batch) + 1]
PrimaryOnly(stage) == stage \in {"budget_audit", "heldout"}

AllArms(task) ==
    IF PrimaryOnly(eval.stage) THEN {"primary"} ELSE EvaluationArms(cfg.variant, RowArms[task])

\* Mutant: a row whose arms exactly fit is cut as well.
AdmittedCutEarly(task) ==
    IF Cardinality(AllArms(task)) >= Remaining(eval.stage) THEN {"primary"} ELSE AllArms(task)

\* A row whose arms exceed the rest of the budget keeps its primary arm only.
Admitted(task) ==
    IF Cardinality(AllArms(task)) > Remaining(eval.stage) THEN {"primary"} ELSE AllArms(task)

\* rollout_id: the ordinal of an arm is the budget used before it.
RolloutIds(task, arms) ==
    LET order == SetToSeq(arms)
        spent == IF eval.stage = "heldout" THEN used.heldout ELSE used.train
    IN  {[id |-> eval.id, stage |-> eval.stage, task |-> task, arm |-> order[i],
          row |-> Len(eval.batch), ordinal |-> spent + i - 1] : i \in DOMAIN order}

\* admit_train, admit_heldout
Spend(n) ==
    used' = IF eval.stage = "heldout" THEN [used EXCEPT !.heldout = @ + n]
            ELSE [used EXCEPT !.train = @ + n]

RolloutRow ==
    /\ Evaluating /\ Len(eval.batch) < Len(eval.rows) /\ Remaining(eval.stage) > 0
    /\ \E arms \in {Admitted(NextRow)} : \E answer \in Answers[cfg.variant] :
         /\ Spend(Cardinality(arms))
         /\ calls' = calls \cup RolloutIds(NextRow, arms)
         /\ eval' = [eval EXCEPT !.batch = Append(@,
                       [task |-> NextRow,
                        obs  |-> [a \in arms |-> IF a = "primary" THEN answer.primary ELSE answer.other]])]
    /\ UNCHANGED <<cfg, pc, why, gen, cands, work, champion, audits, paired>>

\* The container refuses a rollout, or answers without a valid reward: at any
\* of the row's arms, the primary one being the first tried.
RolloutFails ==
    /\ Evaluating /\ MayFail
    /\ Len(eval.batch) < Len(eval.rows) /\ Remaining(eval.stage) > 0
    /\ \E tried \in SUBSET Admitted(NextRow) :
         /\ "primary" \in tried
         /\ Spend(Cardinality(tried))
         /\ calls' = calls \cup RolloutIds(NextRow, tried)
    /\ Fail("container")

BatchOver == Evaluating /\ (Len(eval.batch) = Len(eval.rows) \/ Remaining(eval.stage) = 0)

\* score_batch of a non-empty batch
ScoreFails ==
    /\ BatchOver /\ ~PrimaryOnly(eval.stage)
    /\ eval.batch # <<>> \/ eval.stage = "seed_full_train"
    /\ ~Scorable(cfg.variant, eval.batch)
    /\ Fail("score") /\ UNCHANGED <<used, calls>>

ScoredBatch(stage) ==
    /\ BatchOver /\ eval.stage = stage /\ eval.batch # <<>>
    /\ Scorable(cfg.variant, eval.batch)

SeedScored ==
    /\ ScoredBatch("seed_full_train")
    /\ cands' = <<[id |-> SeedId, gen |-> 0, payload |-> SeedPayload, parent |-> 0,
                   train |-> Score(cfg.variant, eval.batch), selection |-> <<>>]>>
    /\ pc' = "generation" /\ gen' = 1 /\ eval' = NoEval
    /\ UNCHANGED <<cfg, why, work, used, calls, champion, audits, paired>>

CandidateScored ==
    /\ ScoredBatch("candidate_minibatch")
    /\ cands' = Append(cands, [Head(work) EXCEPT !.train = Score(cfg.variant, eval.batch)])
    /\ work' = Tail(work) /\ eval' = NoEval
    /\ UNCHANGED <<cfg, pc, why, gen, used, calls, champion, audits, paired>>

SelectionScored ==
    /\ ScoredBatch("selection")
    /\ cands' = [cands EXCEPT ![eval.index].selection = Score(cfg.variant, eval.batch)]
    /\ work' = Tail(work) /\ eval' = NoEval
    /\ UNCHANGED <<cfg, pc, why, gen, used, calls, champion, audits, paired>>

-----------------------------------------------------------------------------
(* The search loop *)

Idle(p) == pc = p /\ eval = NoEval
Short   == TrainRemaining < cfg.minRows

\* decode_proposals: a proposal that changes nothing is dropped.
Decoded(parent, proposals) ==
    LET changed == Without(proposals, {parent.payload})
    IN  [i \in DOMAIN changed |->
           [id |-> CandidateId(gen, changed[i]), gen |-> gen, payload |-> changed[i],
            parent |-> parent.id, train |-> <<>>, selection |-> <<>>]]

\* The parent rotates through the frontier.
ParentIndex ==
    The({f[((gen - 1) % Len(f)) + 1] : f \in {Nondominated(cands)}})

Propose ==
    /\ Idle("generation") /\ gen <= cfg.generations /\ ~Short
    /\ \E proposals \in Proposals : \E decoded \in {Decoded(cands[ParentIndex], proposals)} :
         /\ decoded # <<>>
         /\ work' = decoded /\ pc' = "minibatch"
         /\ used' = [used EXCEPT !.proposer = @ + 1]
    /\ UNCHANGED <<cfg, why, gen, cands, eval, calls, champion, audits, paired>>

\* The proposer turn fails, or returns nothing that changes the parent.
ProposerFails ==
    /\ Idle("generation") /\ gen <= cfg.generations /\ ~Short
    /\ MayFail \/ \E proposals \in Proposals : Decoded(cands[ParentIndex], proposals) = <<>>
    /\ Fail("proposer") /\ UNCHANGED <<used, calls>>

SearchEnds ==
    /\ Idle("generation") /\ (gen > cfg.generations \/ Short)
    /\ pc' = "best"
    /\ UNCHANGED <<cfg, why, gen, cands, work, eval, used, calls, champion, audits, paired>>

EvaluateProposal ==
    /\ Idle("minibatch") /\ work # <<>> /\ ~Short
    /\ Evaluate("candidate_minibatch", Len(cands) + 1, Head(work).id,
                SampleRows(TrainRows(cfg), gen, Max({cfg.minibatch, 1})))
    /\ UNCHANGED <<cfg, pc, why, gen, cands, work, used, calls, champion, audits, paired>>

\* The generation's candidates are ranked; none registered ends the search.
MinibatchesEnd ==
    /\ Idle("minibatch") /\ (work = <<>> \/ Short)
    /\ LET fresh == SelectSeq([i \in DOMAIN cands |-> i], LAMBDA i : cands[i].gen = gen)
       IN  IF fresh = <<>> THEN pc' = "best" /\ work' = <<>>
           ELSE /\ pc' = "select"
                /\ \E order \in {Ranked(cands, fresh)} :
                     work' = SubSeq(order, 1, Min({cfg.perGeneration, Len(order)}))
    /\ UNCHANGED <<cfg, why, gen, cands, eval, used, calls, champion, audits, paired>>

EvaluateSelection ==
    /\ Idle("select") /\ work # <<>> /\ ~Short
    /\ Evaluate("selection", Head(work), cands[Head(work)].id, cfg.selection)
    /\ UNCHANGED <<cfg, pc, why, gen, cands, work, used, calls, champion, audits, paired>>

\* The generation's snapshot is written.
GenerationEnds ==
    /\ Idle("select") /\ (work = <<>> \/ Short)
    /\ pc' = "generation" /\ gen' = gen + 1 /\ work' = <<>>
    /\ UNCHANGED <<cfg, why, cands, eval, used, calls, champion, audits, paired>>

ChooseChampion ==
    /\ Idle("best")
    /\ champion' = BestCandidate(cands)
    /\ pc' = IF cfg.exact THEN "fill" ELSE "fetch"
    /\ UNCHANGED <<cfg, why, gen, cands, work, eval, used, calls, audits, paired>>

-----------------------------------------------------------------------------
(* fill_train_budget and paired_heldout *)

Cyclic(rows, n) == <<rows[(n % Len(rows)) + 1]>>

FillTrainBudget ==
    /\ Idle("fill")
    /\ IF TrainRemaining > 0
       THEN /\ Evaluate("budget_audit", champion, cands[champion].id, Cyclic(TrainRows(cfg), audits))
            /\ UNCHANGED pc
       ELSE pc' = "fetch" /\ UNCHANGED eval
    /\ UNCHANGED <<cfg, why, gen, cands, work, used, calls, champion, audits, paired>>

Audited ==
    /\ BatchOver /\ eval.stage = "budget_audit"
    /\ audits' = (audits + 1) % Len(TrainRows(cfg)) /\ eval' = NoEval
    /\ UNCHANGED <<cfg, pc, why, gen, cands, work, used, calls, champion, paired>>

\* fetch_rows of the heldout split, for the first time.
FetchHeldout ==
    /\ Idle("fetch") /\ UNCHANGED <<used, calls>>
    /\ \/ ~Unique(cfg.heldout) /\ Fail("heldout ids")
       \/ MayFail /\ Unique(cfg.heldout) /\ Fail("container")
       \/ /\ Unique(cfg.heldout) /\ pc' = "heldout"
          /\ UNCHANGED <<cfg, why, gen, cands, work, eval, champion, audits, paired>>

\* Mutant: the loop runs while any rollout is left.
PairsWhileAny == HeldoutRemaining >= 1

\* Both halves of a pair must be affordable.
PairAffordable == HeldoutRemaining >= 2

\* One row for the seed, then the same row for the champion.
ChampionTurn == paired.turns % 2 = 1

HeldoutPair ==
    /\ Idle("heldout") /\ (ChampionTurn \/ PairAffordable)
    /\ LET row == Cyclic(cfg.heldout, paired.turns \div 2)
       IN  IF ChampionTurn THEN Evaluate("heldout", champion, cands[champion].id, row)
           ELSE Evaluate("heldout", 1, SeedId, row)
    /\ UNCHANGED <<cfg, pc, why, gen, cands, work, used, calls, champion, audits, paired>>

HeldoutScored ==
    /\ BatchOver /\ eval.stage = "heldout"
    /\ LET tasks == [i \in DOMAIN eval.batch |-> eval.batch[i].task]
       IN  paired' = [turns    |-> paired.turns + 1,
                      seed     |-> IF ChampionTurn THEN paired.seed ELSE paired.seed \o tasks,
                      champion |-> IF ChampionTurn THEN paired.champion \o tasks ELSE paired.champion]
    /\ eval' = NoEval
    /\ UNCHANGED <<cfg, pc, why, gen, cands, work, used, calls, champion, audits>>

Exact == used.train = cfg.trainLimit /\ used.heldout = cfg.heldoutLimit

\* The exact budget is checked once everything is paid; then the three result
\* files are written.
Conclude ==
    /\ Idle("heldout") /\ ~ChampionTurn /\ ~PairAffordable
    /\ UNCHANGED <<used, calls>>
    /\ \/ cfg.exact /\ ~Exact /\ Fail("budget")
       \/ /\ cfg.exact => Exact
          /\ pc' = "done"
          /\ UNCHANGED <<cfg, why, gen, cands, work, eval, champion, audits, paired>>

-----------------------------------------------------------------------------

Next ==
    \/ Load \/ RolloutRow \/ RolloutFails \/ ScoreFails
    \/ SeedScored \/ CandidateScored \/ SelectionScored
    \/ Propose \/ ProposerFails \/ SearchEnds
    \/ EvaluateProposal \/ MinibatchesEnd \/ EvaluateSelection \/ GenerationEnds
    \/ ChooseChampion \/ FillTrainBudget \/ Audited
    \/ FetchHeldout \/ HeldoutPair \/ HeldoutScored \/ Conclude

Spec == Init /\ [][Next]_vars /\ WF_vars(Next)
-----------------------------------------------------------------------------
(* Properties *)

(* Types; no rollout is admitted beyond either budget (BudgetLedger).        *)
TypeOK ==
    /\ cfg \in Configs /\ champion \in 0 .. Len(cands)
    /\ pc \in {"load", "seed", "generation", "minibatch", "select", "best", "fill", "fetch",
               "heldout", "done", "failed"}
    /\ why \in {"none", "config", "container", "proposer", "score", "heldout ids", "budget"}
    /\ used.train \in 0 .. cfg.trainLimit /\ used.heldout \in 0 .. cfg.heldoutLimit

(* rollout_id never repeats, however often the same candidate meets the same *)
(* task in the same stage (the audit cycles over the train rows).            *)
UniqueRollouts == Cardinality(calls) = used.train + used.heldout

TasksOf(stages) == {r.task : r \in {x \in calls : x.stage \in stages}}

(* The splits the README calls disjoint are disjoint in what is rolled out:  *)
(* no task of the search is a heldout task when disjoint splits are required,*)
(* and a selection task never serves a minibatch or the audit.               *)
SplitsStayApart ==
    LET train == {"seed_full_train", "candidate_minibatch", "budget_audit"}
    IN  /\ TasksOf(train) \cap TasksOf({"selection"}) = {}
        /\ cfg.disjoint => TasksOf(train \cup {"selection"}) \cap TasksOf({"heldout"}) = {}

(* A finished run compared the seed and the champion on the same heldout     *)
(* tasks, as many as the heldout budget pays for.                            *)
MatchedHeldout ==
    pc = "done" => /\ paired.seed = paired.champion
                   /\ Len(paired.seed) = cfg.heldoutLimit \div 2

\* The keys on which a variant's comparison is a total preorder.
TotalKeys == CASE cfg.variant = "imac" -> 3 [] cfg.variant = "rode" -> 4 [] OTHER -> 6

(* No candidate beats the champion on the score it was selected by, as far as*)
(* the variant's order is total (imac's resource axes and rode's optional    *)
(* metrics leave some pairs incomparable, and max_by is then order dependent)*)
ChampionLeads ==
    champion # 0 =>
      \A i \in DOMAIN cands :
        LexCompare(SubSeq(Basis(cands[i]), 1, TotalKeys),
                   SubSeq(Basis(cands[champion]), 1, TotalKeys)) # 1

(* Once rollouts are paid for, a run whose heldout ids are unique and whose  *)
(* heldout budget was checked to be even fails only because the container or *)
(* the proposer failed or a batch could not be scored.                       *)
PaidRunFinishes ==
    (/\ pc = "failed" /\ used.train > 0
     /\ Unique(cfg.heldout) /\ cfg.compareSeed)
    => why \in {"container", "proposer", "score"}

\* Every response validates, the two arms of ic3net report the same messages,
\* and every row names a role.
Truthful ==
    /\ \A v \in DOMAIN Answers : \A x \in Answers[v] :
         /\ x.primary.honest /\ x.other.honest
         /\ v = "ic3net" => /\ x.primary.cost = x.other.cost
                            /\ (x.primary.extra = NoMetric) = (x.other.extra = NoMetric)
    /\ \A t \in DOMAIN RowArms : RowArms[t] # {}

(* With a container that answers every arm well, scoring fails only at the   *)
(* end of the train budget, when a row's arms no longer fitted and all but   *)
(* the primary were cut, or when there is no train budget at all.            *)
ScoreFailsOnlyWhenCut ==
    (why = "score" /\ Truthful /\ cfg.trainLimit > 0) =>
      \E t \in DOMAIN RowArms :
        TrainRemaining + 1 < Cardinality(EvaluationArms(cfg.variant, RowArms[t]))

(* What the report compares is a fair comparison: matched heldout pairs on   *)
(* tasks the search never saw, no rollout counted twice, within the budgets. *)
ComparisonIsFair == TypeOK /\ UniqueRollouts /\ SplitsStayApart /\ MatchedHeldout

(* A run that has paid for rollouts fails only for a cause outside itself.   *)
FailsOnlyForCause == PaidRunFinishes /\ ScoreFailsOnlyWhenCut
=============================================================================
