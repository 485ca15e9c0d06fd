---------------------------- MODULE MarlVariants ----------------------------
(***************************************************************************)
(* The four strategies of synth_marl_promptopt (src/variants): the arms a  *)
(* task is rolled out under, how a batch of matched arms becomes a score,  *)
(* and how two scores compare.  A response is reduced to what the orders   *)
(* read - success, reward, coordination, a cost and one optional metric -  *)
(* and to whether its receipt and required metrics survive validation.     *)
(***************************************************************************)
EXTENDS Integers, Sequences, FiniteSets, FiniteSetsExt, SequencesExt

CONSTANTS
    EnvelopeLimit,  \* imac: the largest mean cost inside the envelope
    NoMetric        \* an optional metric that is not reported (None)

ASSUME EnvelopeAssumption == EnvelopeLimit \in Nat /\ NoMetric \notin Int

\* Means are kept exact: every count that divides a sum here divides Scale.
Scale == 36

\* The arms of one task; roles are the ablation arms its row names.
EvaluationArms(variant, roles) ==
    CASE variant = "coma"   -> {"primary", "channel_masked"} \cup roles
      [] variant = "ic3net" -> {"primary", "channel_masked"}
      [] variant = "rode"   -> {"primary", "role_permuted"}
      [] variant = "imac"   -> {"primary"}

\* The metrics of a response that are read are numbers, one of them optional.
Responses == [success : Int, reward : Int, coord : Int, cost : Int,
              extra : Int \cup {NoMetric}, honest : BOOLEAN]

(* A batch is a sequence of rows [task |-> t, obs |-> [arms -> response]].   *)
Arms(row)     == DOMAIN row.obs

\* The mean of one metric of an arm over the batch; an optional metric a
\* response does not report counts as 0.
Reading(r, metric) == IF r[metric] = NoMetric THEN 0 ELSE r[metric]
MeanOf(batch, arm, metric) ==
    (Scale * SumFunction([i \in DOMAIN batch |-> Reading(batch[i].obs[arm], metric)]))
      \div Len(batch)

Honest(batch) == \A i \in DOMAIN batch : \A a \in Arms(batch[i]) : batch[i].obs[a].honest

-----------------------------------------------------------------------------
(* Scores.  score_batch fails on an empty batch, on an arm that is missing   *)
(* for a task, and on a response that does not validate.                     *)

RoleArms(row) == Arms(row) \ {"primary", "channel_masked"}

ComaScorable(batch) ==
    /\ batch # <<>> /\ Honest(batch)
    /\ \A i \in DOMAIN batch : {"primary", "channel_masked"} \subseteq Arms(batch[i])
    /\ \A i \in DOMAIN batch : RoleArms(batch[i]) # {}

\* The mean credit of one axis over the tasks that have it, factual minus
\* counterfactual.
AxisCredit(batch, axis, metric) ==
    LET tasks == {i \in DOMAIN batch : axis \in Arms(batch[i])}
        credit == [i \in tasks |-> batch[i].obs["primary"][metric] - batch[i].obs[axis][metric]]
    IN  (Scale * SumFunction(credit)) \div Cardinality(tasks)

ComaScore(batch) ==
    LET axes == (UNION {Arms(batch[i]) : i \in DOMAIN batch}) \ {"primary"}
        mean(metric) == SumFunction([x \in axes |-> AxisCredit(batch, x, metric)])
                             \div Cardinality(axes)
    IN  <<MeanOf(batch, "primary", "success"), MeanOf(batch, "primary", "reward"),
          Min({AxisCredit(batch, x, "success") : x \in axes}), mean("success"), mean("reward"),
          0 - MeanOf(batch, "primary", "cost")>>

\* The message count and the presence of congestion_events agree between the arms.
Ic3netScorable(batch) ==
    /\ batch # <<>> /\ Honest(batch)
    /\ \A i \in DOMAIN batch :
         /\ {"primary", "channel_masked"} = Arms(batch[i])
         /\ batch[i].obs["primary"].cost = batch[i].obs["channel_masked"].cost
         /\ (batch[i].obs["primary"].extra = NoMetric)
              = (batch[i].obs["channel_masked"].extra = NoMetric)

Ic3netScore(batch) ==
    LET delta(metric) ==
          MeanOf(batch, "primary", metric) - MeanOf(batch, "channel_masked", metric)
    IN  <<MeanOf(batch, "primary", "success"), MeanOf(batch, "primary", "reward"),
          Max({(delta("success") + delta("coord")) \div 2, 0}),
          0 - (MeanOf(batch, "primary", "extra") + MeanOf(batch, "primary", "cost")),
          0 - MeanOf(batch, "primary", "extra"), 0 - MeanOf(batch, "primary", "cost")>>

RodeScorable(batch) ==
    /\ batch # <<>> /\ Honest(batch)
    /\ \A i \in DOMAIN batch : {"primary", "role_permuted"} = Arms(batch[i])

\* OptionalTotal: the mean over the tasks that report the metric, if any does.
OptionalMean(batch) ==
    LET present == {i \in DOMAIN batch : batch[i].obs["primary"].extra # NoMetric}
    IN  IF present = {} THEN NoMetric
        ELSE (Scale * SumFunction([i \in present |-> batch[i].obs["primary"].extra]))
               \div Cardinality(present)

RodeScore(batch) ==
    LET delta(metric) ==
          MeanOf(batch, "primary", metric) - MeanOf(batch, "role_permuted", metric)
    IN  <<MeanOf(batch, "primary", "success"), MeanOf(batch, "primary", "reward"),
          MeanOf(batch, "primary", "coord"), (delta("success") + delta("coord")) \div 2,
          OptionalMean(batch), 0 - MeanOf(batch, "primary", "cost")>>

ImacScorable(batch) ==
    /\ batch # <<>> /\ Honest(batch)
    /\ \A i \in DOMAIN batch : Arms(batch[i]) = {"primary"}

\* An optional axis is available when every rollout reports it.
ImacScore(batch) ==
    LET all  == \A i \in DOMAIN batch : batch[i].obs["primary"].extra # NoMetric
        use  == MeanOf(batch, "primary", "cost")
        link == IF all THEN MeanOf(batch, "primary", "extra") ELSE NoMetric
        limit == Scale * EnvelopeLimit
    IN  <<MeanOf(batch, "primary", "success"), MeanOf(batch, "primary", "reward"),
          IF use <= limit /\ (all => link <= limit) THEN 1 ELSE 0, use, link>>

Scorable(variant, batch) ==
    CASE variant = "coma"   -> ComaScorable(batch)
      [] variant = "ic3net" -> Ic3netScorable(batch)
      [] variant = "rode"   -> RodeScorable(batch)
      [] variant = "imac"   -> ImacScorable(batch)

Score(variant, batch) ==
    CASE variant = "coma"   -> ComaScore(batch)
      [] variant = "ic3net" -> Ic3netScore(batch)
      [] variant = "rode"   -> RodeScore(batch)
      [] variant = "imac"   -> ImacScore(batch)

-----------------------------------------------------------------------------
(* Orders: 1 is Greater, 0 is Equal, -1 is Less.                             *)

\* total_cmp on each key in turn; a key one side does not report is skipped.
LexCompare(a, b) ==
    LET decisive == {i \in DOMAIN a : a[i] # NoMetric /\ b[i] # NoMetric /\ a[i] # b[i]}
    IN  IF decisive = {} THEN 0
        ELSE IF a[Min(decisive)] > b[Min(decisive)] THEN 1 ELSE -1

\* Outcome, reward and feasibility first, then Pareto dominance on resource use.
ImacCompare(a, b) ==
    LET leading == LexCompare(SubSeq(a, 1, 3), SubSeq(b, 1, 3))
        axes    == {i \in {4, 5} : a[i] # NoMetric}
        wins(x, y) == (\A i \in axes : x[i] <= y[i]) /\ (\E i \in axes : x[i] < y[i])
    IN  IF leading # 0 THEN leading
        ELSE IF (a[5] = NoMetric) # (b[5] = NoMetric) THEN 0
        ELSE IF wins(a, b) THEN 1
        ELSE IF wins(b, a) THEN -1
        ELSE 0

Compare(variant, a, b) == IF variant = "imac" THEN ImacCompare(a, b) ELSE LexCompare(a, b)
=============================================================================
