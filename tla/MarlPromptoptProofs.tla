------------------------ MODULE MarlPromptoptProofs ------------------------
(***************************************************************************)
(* What holds of MarlPromptopt for every set of configurations, tasks,     *)
(* arms, answers and proposals: the heldout comparison is fair, a run that *)
(* has paid for rollouts fails only for a cause outside itself, and no     *)
(* candidate is ahead of the champion.                                     *)
(*                                                                         *)
(* The invariant says what a call of evaluate_candidate may hold while it  *)
(* is under way. EvalInv: its rows come from one split, the one of the     *)
(* place the run is at. CallsInv: every rollout requested was of a task of *)
(* its stage's split, and its ordinal is below what is used of that        *)
(* budget, so the ordinals handed to the next row are fresh and no id      *)
(* repeats. PairInv: both sides of the heldout comparison walk down the    *)
(* same cyclic list, a seed turn starts only when the budget pays for both *)
(* halves, so neither half can be empty. BatchInv and CauseInv: a row has  *)
(* every arm of its task or the rest of the budget was too small for it,   *)
(* so a truthful batch that cannot be scored names its cause.              *)
(*                                                                         *)
(* LeadInv: the registry holds scored candidates, the proposals of the     *)
(* generation have no selection score yet, and nobody is ahead of the      *)
(* champion.  A score's first keys are integers, since sums and quotients  *)
(* of integers are, so being ahead on them is a strict weak order, to      *)
(* which the fold of best_candidate_index keeps whatever it compares.      *)
(***************************************************************************)
EXTENDS MarlPromptopt, TLAPS, FiniteSetTheorems, WellFoundedInduction
-----------------------------------------------------------------------------
(* Numbers and sets *)

LEMMA LeastOf == ASSUME NEW B, B \subseteq Nat, B # {}
                 PROVE  \E n \in B : \A m \in B : n <= m
  <1>1. PICK n \in B : \A m \in B : ~(<<m, n>> \in OpToRel(<, Nat))
    BY NatLessThanWellFounded, WFMin
  <1>2. \A m \in B : <<m, n>> \in OpToRel(<, Nat) <=> m < n
    BY DEF OpToRel
  <1>3. n \in Nat /\ \A m \in B : m \in Nat /\ ~(m < n)
    BY <1>1, <1>2
  <1>4. \A a, b \in Nat : ~(a < b) => b <= a
    OBVIOUS
  <1> QED BY <1>3, <1>4

\* A property of 0 that steps hold up to any bound.
LEMMA UpTo == ASSUME NEW G, NEW b \in Nat, 0 \in G,
                     \A n \in 1 .. b : n - 1 \in G => n \in G
              PROVE  \A n \in 0 .. b : n \in G
  <1> DEFINE B == {n \in 0 .. b : n \notin G}
  <1> SUFFICES ASSUME B # {} PROVE FALSE
    OBVIOUS
  <1>1. B \subseteq Nat
    OBVIOUS
  <1>2. PICK n \in B : \A m \in B : n <= m
    <2> HIDE DEF B
    <2> QED BY <1>1, LeastOf
  <1>3. n \in 1 .. b /\ n - 1 \in 0 .. b /\ ~(n <= n - 1)
    BY <1>2
  <1>4. n - 1 \in G
    BY <1>2, <1>3
  <1> QED BY <1>2, <1>3, <1>4

LEMMA ModBound == ASSUME NEW a \in Nat, NEW n \in Nat \ {0}
                  PROVE  a % n \in 0 .. n - 1 /\ (a % n) + 1 \in 1 .. n
  OBVIOUS

LEMMA MinOfTwo == ASSUME NEW a \in Nat, NEW b \in Nat
                  PROVE  /\ Min({a, b}) \in {a, b}
                         /\ Min({a, b}) <= a /\ Min({a, b}) <= b
  <1>1. \E x \in {a, b} : \A y \in {a, b} : x =< y
    <2>1. CASE a <= b BY <2>1
    <2>2. CASE ~(a <= b) BY <2>2
    <2> QED BY <2>1, <2>2
  <1> QED BY <1>1 DEF Min

LEMMA MaxOfTwo == ASSUME NEW a \in Nat, NEW b \in Nat
                  PROVE  /\ Max({a, b}) \in Nat
                         /\ a <= Max({a, b}) /\ b <= Max({a, b})
  <1>1. \E x \in {a, b} : \A y \in {a, b} : x >= y
    <2>1. CASE a >= b BY <2>1
    <2>2. CASE ~(a >= b) BY <2>2
    <2> QED BY <2>1, <2>2
  <1> QED BY <1>1 DEF Max

LEMMA SingletonElement == ASSUME NEW x PROVE The({x}) = x
  BY DEF The

\* The elements of a finite set in a sequence, each of them once.
LEMMA SetInOrder == ASSUME NEW S, IsFiniteSet(S)
                    PROVE  /\ Cardinality(S) \in Nat
                           /\ SetToSeq(S) \in [1 .. Cardinality(S) -> S]
                           /\ \A i, j \in 1 .. Cardinality(S) :
                                SetToSeq(S)[i] = SetToSeq(S)[j] => i = j
  BY FS_CardinalityType DEF ExistsBijection, Bijection, Injection, IsInjective, SetToSeq
-----------------------------------------------------------------------------
(* The train rows are those of the config without the selection tasks. *)

Tasks == DOMAIN RowArms
TrainTasks(c) == {t \in Tasks : t \notin ToSet(c.selection)}

IsWithout(k, s, S, n) ==
    k = [i \in 0 .. n |-> IF i = 0 THEN <<>>
                         ELSE IF s[i] \in S THEN k[i - 1] ELSE Append(k[i - 1], s[i])]

LEMMA WithoutExists == ASSUME NEW s, NEW S, NEW b \in Nat PROVE \E k : IsWithout(k, s, S, b)
  <1> DEFINE G == {n \in Nat : \E k : IsWithout(k, s, S, n)}
  <1>1. 0 \in G
    <2> DEFINE k == [i \in 0 .. 0 |-> <<>>]
    <2>1. k = [i \in 0 .. 0 |-> IF i = 0 THEN <<>>
                               ELSE IF s[i] \in S THEN k[i - 1] ELSE Append(k[i - 1], s[i])]
      OBVIOUS
    <2> HIDE DEF k
    <2> QED BY <2>1 DEF IsWithout
  <1>2. \A n \in 1 .. b : n - 1 \in G => n \in G
    <2> SUFFICES ASSUME NEW n \in 1 .. b, n - 1 \in G PROVE n \in G
      OBVIOUS
    <2>1. PICK k : IsWithout(k, s, S, n - 1)
      OBVIOUS
    <2> DEFINE next == IF s[n] \in S THEN k[n - 1] ELSE Append(k[n - 1], s[n])
               m == [i \in 0 .. n |-> IF i = n THEN next ELSE k[i]]
    <2>2. \A i \in 0 .. (n - 1) :
             k[i] = IF i = 0 THEN <<>> ELSE IF s[i] \in S THEN k[i - 1] ELSE Append(k[i - 1], s[i])
      BY <2>1 DEF IsWithout
    <2>3. \A i \in 0 .. n : /\ i = n => m[i] = next
                            /\ i # n => i \in 0 .. (n - 1) /\ m[i] = k[i]
                            /\ i # 0 => i - 1 \in 0 .. n /\ m[i - 1] = k[i - 1]
      OBVIOUS
    <2>4. m = [i \in 0 .. n |-> m[i]]
      OBVIOUS
    <2> HIDE DEF m
    <2>5. \A i \in 0 .. n :
             m[i] = IF i = 0 THEN <<>> ELSE IF s[i] \in S THEN m[i - 1] ELSE Append(m[i - 1], s[i])
      BY <2>2, <2>3
    <2>6. IsWithout(m, s, S, n)
      BY <2>4, <2>5 DEF IsWithout
    <2> QED BY <2>6
  <1> HIDE DEF G
  <1>3. b \in G
    BY <1>1, <1>2, UpTo
  <1> QED BY <1>3 DEF G

LEMMA WithoutIn ==
    ASSUME NEW s, Len(s) \in Nat, NEW S, NEW D, \A i \in 1 .. Len(s) : s[i] \notin S => s[i] \in D
    PROVE  Without(s, S) \in Seq(D)
  <1> DEFINE k == CHOOSE k : IsWithout(k, s, S, Len(s))
             G == {n \in Nat : k[n] \in Seq(D)}
  <1>1. Without(s, S) = k[Len(s)]
    BY DEF Without, IsWithout
  <1>2. IsWithout(k, s, S, Len(s))
    BY WithoutExists
  <1> HIDE DEF k
  <1>3. \A i \in 0 .. Len(s) :
           k[i] = IF i = 0 THEN <<>> ELSE IF s[i] \in S THEN k[i - 1] ELSE Append(k[i - 1], s[i])
    BY <1>2 DEF IsWithout
  <1>4. 0 \in G
    <2>1. 0 \in 0 .. Len(s) /\ <<>> \in Seq(D)
      OBVIOUS
    <2> QED BY <1>3, <2>1
  <1>5. \A n \in 1 .. Len(s) : n - 1 \in G => n \in G
    <2> SUFFICES ASSUME NEW n \in 1 .. Len(s), n - 1 \in G PROVE n \in G
      OBVIOUS
    <2>1. n \in 0 .. Len(s) /\ n # 0 /\ n \in Nat /\ k[n - 1] \in Seq(D)
      OBVIOUS
    <2>2. CASE s[n] \in S
      BY <1>3, <2>1, <2>2
    <2>3. CASE s[n] \notin S
      <3>1. s[n] \in D /\ k[n] = Append(k[n - 1], s[n])
        BY <1>3, <2>1, <2>3
      <3>2. Append(k[n - 1], s[n]) \in Seq(D)
        BY <2>1, <3>1
      <3> QED BY <2>1, <3>1, <3>2
    <2> QED BY <2>2, <2>3
  <1> HIDE DEF G
  <1>6. \A n \in 0 .. Len(s) : n \in G
    BY <1>4, <1>5, UpTo
  <1>7. Len(s) \in 0 .. Len(s)
    OBVIOUS
  <1> QED BY <1>1, <1>6, <1>7 DEF G

LEMMA TrainRowsApart ==
    ASSUME NEW c, c.train \in Seq(Tasks) PROVE TrainRows(c) \in Seq(TrainTasks(c))
  <1>1. Len(c.train) \in Nat /\ \A n \in 1 .. Len(c.train) : c.train[n] \in Tasks
    OBVIOUS
  <1> QED BY <1>1, WithoutIn DEF TrainRows, TrainTasks
-----------------------------------------------------------------------------
(* The champion is a candidate. *)

IsBest(k, cs, n) ==
    k = [i \in 1 .. n |->
           IF i = 1 THEN 1
           ELSE The({IF Before(cs[b], cs[i]) THEN b ELSE i : b \in {k[i - 1]}})]

LEMMA BestExists == ASSUME NEW cs, NEW l \in Nat PROVE \E k : IsBest(k, cs, l)
  <1> DEFINE G == {n \in Nat : \E k : IsBest(k, cs, n)}
  <1>1. 0 \in G
    <2> DEFINE k == [i \in 1 .. 0 |-> 1]
    <2>1. k = [i \in 1 .. 0 |->
                 IF i = 1 THEN 1
                 ELSE The({IF Before(cs[b], cs[i]) THEN b ELSE i : b \in {k[i - 1]}})]
      OBVIOUS
    <2> HIDE DEF k
    <2> QED BY <2>1 DEF IsBest
  <1>2. \A n \in 1 .. l : n - 1 \in G => n \in G
    <2> SUFFICES ASSUME NEW n \in 1 .. l, n - 1 \in G PROVE n \in G
      OBVIOUS
    <2>1. PICK k : IsBest(k, cs, n - 1)
      OBVIOUS
    <2> DEFINE next == IF n = 1 THEN 1
                       ELSE The({IF Before(cs[b], cs[n]) THEN b ELSE n : b \in {k[n - 1]}})
               m == [i \in 1 .. n |-> IF i = n THEN next ELSE k[i]]
    <2>2. \A i \in 1 .. (n - 1) :
             k[i] = IF i = 1 THEN 1
                    ELSE The({IF Before(cs[b], cs[i]) THEN b ELSE i : b \in {k[i - 1]}})
      BY <2>1 DEF IsBest
    <2>3. \A i \in 1 .. n : /\ i = n => m[i] = next
                            /\ i # n => i \in 1 .. (n - 1) /\ m[i] = k[i]
                            /\ i # 1 => i - 1 \in 1 .. n /\ m[i - 1] = k[i - 1]
      OBVIOUS
    <2>4. m = [i \in 1 .. n |-> m[i]]
      OBVIOUS
    <2> HIDE DEF m
    <2>5. \A i \in 1 .. n :
             m[i] = IF i = 1 THEN 1
                    ELSE The({IF Before(cs[b], cs[i]) THEN b ELSE i : b \in {m[i - 1]}})
      <3> SUFFICES ASSUME NEW i \in 1 .. n, i # 1
                   PROVE  m[i] = The({IF Before(cs[b], cs[i]) THEN b ELSE i : b \in {m[i - 1]}})
        BY <2>2, <2>3
      <3>1. m[i - 1] = k[i - 1]
        BY <2>3
      <3>2. m[i] = The({IF Before(cs[b], cs[i]) THEN b ELSE i : b \in {k[i - 1]}})
        <4>1. CASE i = n
          BY <2>3, <4>1
        <4>2. CASE i # n
          BY <2>3, <4>2, <2>2
        <4> QED BY <4>1, <4>2
      <3> QED BY <3>1, <3>2
    <2>6. IsBest(m, cs, n)
      BY <2>4, <2>5 DEF IsBest
    <2> QED BY <2>6
  <1> HIDE DEF G
  <1>3. l \in G
    BY <1>1, <1>2, UpTo
  <1> QED BY <1>3 DEF G

LEMMA BestIsCandidate ==
    ASSUME NEW cs, Len(cs) \in Nat \ {0} PROVE BestCandidate(cs) \in 1 .. Len(cs)
  <1> DEFINE k == CHOOSE k : IsBest(k, cs, Len(cs))
             G == {n \in Nat : n > 0 => k[n] \in 1 .. n}
  <1>1. BestCandidate(cs) = k[Len(cs)]
    BY DEF BestCandidate, IsBest
  <1>2. IsBest(k, cs, Len(cs))
    BY BestExists
  <1> HIDE DEF k
  <1>3. \A i \in 1 .. Len(cs) :
           k[i] = IF i = 1 THEN 1 ELSE IF Before(cs[k[i - 1]], cs[i]) THEN k[i - 1] ELSE i
    <2> SUFFICES ASSUME NEW i \in 1 .. Len(cs)
                 PROVE  k[i] = IF i = 1 THEN 1
                               ELSE IF Before(cs[k[i - 1]], cs[i]) THEN k[i - 1] ELSE i
      OBVIOUS
    <2>1. k[i] = IF i = 1 THEN 1
                 ELSE The({IF Before(cs[b], cs[i]) THEN b ELSE i : b \in {k[i - 1]}})
      BY <1>2 DEF IsBest
    <2>2. {IF Before(cs[b], cs[i]) THEN b ELSE i : b \in {k[i - 1]}}
            = {IF Before(cs[k[i - 1]], cs[i]) THEN k[i - 1] ELSE i}
      OBVIOUS
    <2> QED BY <2>1, <2>2, SingletonElement
  <1>4. 0 \in G
    OBVIOUS
  <1>5. \A n \in 1 .. Len(cs) : n - 1 \in G => n \in G
    <2> SUFFICES ASSUME NEW n \in 1 .. Len(cs), n - 1 \in G PROVE n \in G
      OBVIOUS
    <2>1. n # 1 => k[n - 1] \in 1 .. (n - 1)
      OBVIOUS
    <2> QED BY <1>3, <2>1
  <1>6. Len(cs) \in 0 .. Len(cs)
    OBVIOUS
  <1>7. Len(cs) \in G
    <2> HIDE DEF G
    <2> QED BY <1>4, <1>5, <1>6, UpTo
  <1> QED BY <1>1, <1>7
-----------------------------------------------------------------------------
(* The invariant *)

TrainStages == {"seed_full_train", "candidate_minibatch", "budget_audit"}
Stages      == TrainStages \cup {"selection", "heldout"}
Place == [seed_full_train |-> "seed", candidate_minibatch |-> "minibatch",
          selection |-> "select", budget_audit |-> "fill", heldout |-> "heldout"]
Pcs  == {"load", "seed", "generation", "minibatch", "select", "best", "fill", "fetch",
         "heldout", "done", "failed"}
Whys == {"none", "config", "container", "proposer", "score", "heldout ids", "budget"}

\* The tasks that an evaluation of a stage may roll out.
SplitTasks(stage) ==
    IF stage \in TrainStages THEN ToSet(TrainRows(cfg))
    ELSE IF stage = "selection" THEN ToSet(cfg.selection) ELSE ToSet(cfg.heldout)

IsSeq(s) == Len(s) \in Nat /\ s \in Seq(ToSet(s))

TypeInv ==
    /\ cfg \in Configs /\ pc \in Pcs /\ why \in Whys
    /\ used \in [train : Nat, heldout : Nat, proposer : Nat]
    /\ used.train <= cfg.trainLimit /\ used.heldout <= cfg.heldoutLimit
    /\ gen \in Nat /\ audits \in Nat
    /\ IsSeq(cands) /\ champion \in 0 .. Len(cands)
    /\ pc \notin {"load", "seed", "failed"} => Len(cands) > 0
    /\ pc \in {"load", "seed"} => champion = 0
    /\ paired \in [turns : Nat, seed : Seq(Tasks), champion : Seq(Tasks)]

\* A run that has left the checks has passed them, and only such a run pays.
StartInv ==
    /\ pc \notin {"load", "failed"} \/ calls # {} => Startable(cfg)
    /\ pc = "load" => calls = {}
    /\ pc = "load" \/ why = "config" => used.train = 0

\* The call of evaluate_candidate belongs to its place, and to one split.
IsEval(e) ==
    /\ e = [stage |-> e.stage, index |-> e.index, id |-> e.id, rows |-> e.rows, batch |-> e.batch]
    /\ e.stage \in Stages /\ pc = Place[e.stage]
    /\ e.rows \in Seq(SplitTasks(e.stage)) /\ e.rows # <<>>
    /\ IsSeq(e.batch) /\ Len(e.batch) <= Len(e.rows)
    /\ \A i \in DOMAIN e.batch : e.batch[i].task = e.rows[i]
EvalInv == eval # NoEval => IsEval(eval)

\* The ordinal of a rollout is below what is used of its budget.
CallsInv ==
    /\ IsFiniteSet(calls) /\ Cardinality(calls) = used.train + used.heldout
    /\ \A r \in calls :
         /\ r.stage \in Stages /\ r.task \in SplitTasks(r.stage) /\ r.ordinal \in Nat
         /\ r.ordinal < IF r.stage = "heldout" THEN used.heldout ELSE used.train

\* Turn by turn down the heldout tasks, the seed first.
Nth(n) == cfg.heldout[(n % Len(cfg.heldout)) + 1]
InFlight == IF eval = NoEval THEN 0 ELSE IF eval.stage = "heldout" THEN Len(eval.batch) ELSE 0
PairInv ==
    pc # "failed" =>
    /\ used.heldout = paired.turns + InFlight
    /\ Len(paired.seed) = (paired.turns + 1) \div 2
    /\ Len(paired.champion) = paired.turns \div 2
    /\ \A i \in DOMAIN paired.seed : paired.seed[i] = Nth(i - 1)
    /\ \A i \in DOMAIN paired.champion : paired.champion[i] = Nth(i - 1)
    /\ paired.turns % 2 = 1 => paired.turns + 1 <= cfg.heldoutLimit
    /\ eval # NoEval /\ eval.stage = "heldout" =>
         /\ eval.rows = <<Nth(paired.turns \div 2)>>
         /\ paired.turns % 2 = 0 => paired.turns + 2 <= cfg.heldoutLimit
    /\ pc = "done" => paired.turns % 2 = 0 /\ paired.turns + 2 > cfg.heldoutLimit

\* A row has all arms of its task, unless the end of the budget cut them.
Cut == \E t \in DOMAIN RowArms :
         TrainRemaining + 1 < Cardinality(EvaluationArms(cfg.variant, RowArms[t]))
IsAnswer(row) ==
    \E x \in Answers[cfg.variant] :
      row.obs = [a \in DOMAIN row.obs |-> IF a = "primary" THEN x.primary ELSE x.other]
WholeRow(row) == DOMAIN row.obs = EvaluationArms(cfg.variant, RowArms[row.task])
BatchInv ==
    eval # NoEval /\ ~PrimaryOnly(eval.stage) =>
    /\ \A i \in DOMAIN eval.batch : IsAnswer(eval.batch[i]) /\ (WholeRow(eval.batch[i]) \/ Cut)
    /\ eval.stage = "seed_full_train" /\ eval.batch = <<>> => used.train = 0

\* Why a run failed.
CauseInv ==
    /\ pc = "failed" <=> why # "none"
    /\ pc = "failed" => eval = NoEval
    /\ cfg.exact /\ pc \in {"fetch", "heldout"} => used.train = cfg.trainLimit
    /\ why = "heldout ids" => ~Unique(cfg.heldout)
    /\ why = "budget" => ~cfg.compareSeed
    /\ why = "score" /\ Truthful /\ cfg.trainLimit > 0 => Cut

MarlInv == TypeInv /\ StartInv /\ EvalInv /\ CallsInv /\ PairInv /\ BatchInv /\ CauseInv
-----------------------------------------------------------------------------
(* What a configuration gives, and what a step leaves alone *)

LEMMA ConfigFacts ==
    ASSUME cfg \in Configs
    PROVE  /\ cfg.variant \in {"coma", "ic3net", "rode", "imac"}
           /\ cfg.trainLimit \in Nat /\ cfg.heldoutLimit \in Nat
           /\ cfg.minibatch \in Nat /\ cfg.minRows \in Nat \ {0}
           /\ cfg.train \in Seq(Tasks) /\ cfg.selection \in Seq(Tasks) /\ cfg.heldout \in Seq(Tasks)
           /\ cfg.disjoint \in BOOLEAN /\ cfg.exact \in BOOLEAN /\ cfg.compareSeed \in BOOLEAN
  BY MarlAssumption DEF Tasks

LEMMA SplitSeq == ASSUME NEW S, NEW s \in Seq(S) PROVE s \in Seq(ToSet(s)) /\ ToSet(s) \subseteq S
  BY DEF ToSet

LEMMA SplitsTyped ==
    ASSUME cfg \in Configs
    PROVE  /\ TrainRows(cfg) \in Seq(SplitTasks("seed_full_train"))
           /\ cfg.selection \in Seq(SplitTasks("selection"))
           /\ cfg.heldout \in Seq(SplitTasks("heldout"))
           /\ \A s \in Stages : SplitTasks(s) \subseteq Tasks
           /\ \A s \in TrainStages : /\ SplitTasks(s) = SplitTasks("seed_full_train")
                                     /\ SplitTasks(s) \cap SplitTasks("selection") = {}
  <1>1. TrainRows(cfg) \in Seq(TrainTasks(cfg))
    BY ConfigFacts, TrainRowsApart
  <1>2. TrainRows(cfg) \in Seq(ToSet(TrainRows(cfg))) /\ ToSet(TrainRows(cfg)) \subseteq TrainTasks(cfg)
    BY <1>1, SplitSeq
  <1>3. /\ cfg.selection \in Seq(ToSet(cfg.selection)) /\ ToSet(cfg.selection) \subseteq Tasks
        /\ cfg.heldout \in Seq(ToSet(cfg.heldout)) /\ ToSet(cfg.heldout) \subseteq Tasks
    BY ConfigFacts, SplitSeq
  <1>4. TrainTasks(cfg) \subseteq Tasks /\ TrainTasks(cfg) \cap ToSet(cfg.selection) = {}
    BY DEF TrainTasks
  <1>5. "seed_full_train" \in TrainStages /\ "selection" \notin TrainStages /\ "heldout" \notin TrainStages
    BY DEF TrainStages
  <1> QED BY <1>2, <1>3, <1>4, <1>5 DEF SplitTasks, Stages

LEMMA SplitsKept ==
    cfg' = cfg => /\ \A s : SplitTasks(s)' = SplitTasks(s)
                  /\ \A n : Nth(n)' = Nth(n)
                  /\ (used'.train = used.train => (Cut' <=> Cut))
                  /\ \A r : IsAnswer(r)' <=> IsAnswer(r)
                  /\ \A r : WholeRow(r)' <=> WholeRow(r)
  BY DEF SplitTasks, Nth, Cut, TrainRemaining, IsAnswer, WholeRow

LEMMA StartableFacts ==
    ASSUME cfg \in Configs, Startable(cfg)
    PROVE  /\ cfg.selection # <<>> /\ TrainRows(cfg) # <<>> /\ cfg.heldout # <<>>
           /\ cfg.disjoint => \A s \in Stages \ {"heldout"} : SplitTasks(s) \cap SplitTasks("heldout") = {}
           /\ cfg.compareSeed => cfg.heldoutLimit % 2 = 0
  BY DEF TrainStages, Stages, Startable, SplitTasks

LEMMA SampleTyped ==
    ASSUME NEW S, NEW rows \in Seq(S), rows # <<>>, NEW g \in Nat, NEW n \in Nat \ {0}
    PROVE  SampleRows(rows, g, n) \in Seq(S) /\ SampleRows(rows, g, n) # <<>>
  <1> DEFINE m == Min({n, Len(rows)})
             start == (g * m) % Len(rows)
  <1>1. Len(rows) \in Nat \ {0}
    OBVIOUS
  <1>2. m \in Nat \ {0}
    BY <1>1, MinOfTwo
  <1> HIDE DEF m
  <1>3. g * m \in Nat
    BY <1>2
  <1>4. start \in Nat
    <2> DEFINE p == g * m
               l == Len(rows)
    <2>1. p \in Nat /\ l \in Nat \ {0}
      BY <1>1, <1>3
    <2> HIDE DEF p, l
    <2>2. p % l \in Nat
      BY <2>1, ModBound
    <2> QED BY <2>2 DEF p, l
  <1>5. SampleRows(rows, g, n) = [i \in 1 .. m |-> rows[((start + i - 1) % Len(rows)) + 1]]
    BY DEF SampleRows, m
  <1> HIDE DEF start
  <1>6. \A i \in 1 .. m : rows[((start + i - 1) % Len(rows)) + 1] \in S
    <2> TAKE i \in 1 .. m
    <2>1. start + i - 1 \in Nat
      BY <1>2, <1>4
    <2>2. ((start + i - 1) % Len(rows)) + 1 \in 1 .. Len(rows)
      BY <1>1, <2>1, ModBound
    <2> QED BY <2>2
  <1> DEFINE f == [i \in 1 .. m |-> rows[((start + i - 1) % Len(rows)) + 1]]
  <1>7. f \in [1 .. m -> S]
    BY <1>6
  <1> HIDE DEF f
  <1>8. f \in Seq(S) /\ Len(f) = m
    BY <1>2, <1>7
  <1>9. f # <<>>
    BY <1>2, <1>8
  <1> QED BY <1>5, <1>8, <1>9 DEF f

LEMMA NthTyped ==
    ASSUME cfg \in Configs, Startable(cfg), NEW n \in Nat
    PROVE  /\ Nth(n) \in SplitTasks("heldout")
           /\ Cyclic(cfg.heldout, n) = <<Nth(n)>>
  <1>1. Len(cfg.heldout) \in Nat \ {0} /\ cfg.heldout \in Seq(SplitTasks("heldout"))
    BY ConfigFacts, SplitsTyped, StartableFacts
  <1>2. (n % Len(cfg.heldout)) + 1 \in 1 .. Len(cfg.heldout)
    BY <1>1, ModBound
  <1> QED BY <1>1, <1>2 DEF Nth, Cyclic

LEMMA Grows == ASSUME NEW s, IsSeq(s), NEW x
               PROVE  /\ IsSeq(Append(s, x)) /\ Len(Append(s, x)) = Len(s) + 1
                      /\ DOMAIN s = 1 .. Len(s) /\ DOMAIN Append(s, x) = 1 .. (Len(s) + 1)
                      /\ \A i \in DOMAIN s : Append(s, x)[i] = s[i]
                      /\ Append(s, x)[Len(s) + 1] = x
  <1> DEFINE S == ToSet(s) \cup {x}
  <1>1. s \in Seq(S) /\ x \in S
    BY DEF IsSeq
  <1>2. Append(s, x) \in Seq(S)
    BY <1>1
  <1>3. Append(s, x) \in Seq(ToSet(Append(s, x)))
    BY <1>2, SplitSeq
  <1> HIDE DEF S
  <1> QED BY <1>1, <1>2, <1>3 DEF IsSeq

LEMMA EmptyIsSeq == IsSeq(<<>>) /\ Len(<<>>) = 0 /\ DOMAIN <<>> = {}
  BY DEF IsSeq
-----------------------------------------------------------------------------
(* Steps that neither begin nor end a call, that begin one, that end one *)

LEMMA InitSound == Init => MarlInv
  <1> SUFFICES ASSUME Init PROVE MarlInv
    OBVIOUS
  <1>1. cfg \in Configs /\ cfg.trainLimit \in Nat /\ cfg.heldoutLimit \in Nat
    BY ConfigFacts DEF Init
  <1>2. TypeInv
    BY EmptyIsSeq, <1>1 DEF Init, TypeInv, Pcs, Whys
  <1>3. StartInv /\ EvalInv /\ BatchInv /\ CauseInv
    BY DEF Init, StartInv, EvalInv, BatchInv, CauseInv
  <1>4. CallsInv
    BY FS_EmptySet DEF Init, CallsInv
  <1>5. PairInv
    BY DEF Init, PairInv, InFlight
  <1> QED BY <1>2, <1>3, <1>4, <1>5 DEF MarlInv

LEMMA NoEvalStage == NoEval.stage = "none"
  BY DEF NoEval

\* The books are as they were.
BooksKept == /\ UNCHANGED <<cfg, calls, paired>>
             /\ used'.train = used.train /\ used'.heldout = used.heldout

LEMMA CallsKept == ASSUME MarlInv, BooksKept PROVE CallsInv'
  BY SplitsKept DEF BooksKept, MarlInv, CallsInv

LEMMA StartKept ==
    ASSUME MarlInv, BooksKept, Startable(cfg), pc' # "load", why' # "config"
    PROVE  StartInv'
  BY DEF StartInv, BooksKept, Startable

LEMMA IdleStep ==
    ASSUME MarlInv, TypeInv', BooksKept, UNCHANGED <<why, eval>>, eval = NoEval,
           pc \notin {"load", "failed"}, pc' \notin {"load", "failed"},
           pc' = "done" => paired.turns % 2 = 0 /\ paired.turns + 2 > cfg.heldoutLimit,
           cfg.exact /\ pc' \in {"fetch", "heldout"} => used.train = cfg.trainLimit
    PROVE  MarlInv'
  BY StartKept, CallsKept, SplitsKept DEF MarlInv, StartInv, CauseInv, EvalInv, BatchInv, InFlight,
     BooksKept, PairInv

LEMMA BeginStep ==
    ASSUME MarlInv, TypeInv', BooksKept, why' = why, Startable(cfg), eval = NoEval,
           pc \notin {"failed"},
           NEW stage \in Stages, NEW index, NEW id, NEW rows, Evaluate(stage, index, id, rows),
           pc' = Place[stage], rows \in Seq(SplitTasks(stage)), rows # <<>>,
           stage = "seed_full_train" => used.train = 0,
           stage = "heldout" => /\ rows = <<Nth(paired.turns \div 2)>>
                                /\ cfg.exact => used.train = cfg.trainLimit
                                /\ paired.turns % 2 = 0 => paired.turns + 2 <= cfg.heldoutLimit
    PROVE  MarlInv'
  <1> DEFINE e == [stage |-> stage, index |-> index, id |-> id, rows |-> rows, batch |-> <<>>]
  <1>1. /\ eval' = e /\ eval'.stage = stage /\ eval'.index = index /\ eval'.id = id
        /\ eval'.rows = rows /\ eval'.batch = <<>>
    BY DEF Evaluate
  <1> HIDE DEF e
  <1>2. pc' \in {"seed", "minibatch", "select", "fill", "heldout"} /\ (pc' = "heldout" => stage = "heldout")
    BY DEF Place, Stages, TrainStages
  <1>3. why' # "config"
    BY DEF MarlInv, CauseInv
  <1>4. StartInv'
    BY <1>2, <1>3, StartKept
  <1>5. EvalInv'
    BY SplitsKept, <1>1, EmptyIsSeq DEF BooksKept, IsEval, e, EvalInv
  <1>6. CallsInv'
    BY CallsKept
  <1>7. PairInv'
    BY <1>1, EmptyIsSeq, <1>2, SplitsKept DEF InFlight, BooksKept, MarlInv, PairInv
  <1>8. BatchInv'
    BY <1>1, EmptyIsSeq DEF BooksKept, BatchInv
  <1>9. CauseInv'
    BY <1>2, SplitsKept DEF MarlInv, CauseInv, BooksKept
  <1> QED BY <1>4, <1>5, <1>6, <1>7, <1>8, <1>9 DEF MarlInv

LEMMA EndStep ==
    ASSUME MarlInv, TypeInv', BooksKept, why' = why, eval # NoEval, eval' = NoEval,
           eval.stage # "heldout", pc' \in {"generation", "minibatch", "select", "fill"}
    PROVE  MarlInv'
  <1>1. pc \notin {"load", "failed"} /\ pc = Place[eval.stage] /\ eval.stage \in Stages
    BY DEF MarlInv, EvalInv, IsEval, Place, Stages, TrainStages
  <1>2. StartInv'
    BY <1>1, StartKept DEF MarlInv, StartInv, CauseInv
  <1>3. EvalInv' /\ BatchInv'
    BY DEF EvalInv, BatchInv
  <1>4. CallsInv'
    BY CallsKept
  <1>5. PairInv'
    BY <1>1, SplitsKept DEF InFlight, BooksKept, MarlInv, PairInv
  <1>6. CauseInv'
    BY <1>1, SplitsKept DEF MarlInv, CauseInv, BooksKept
  <1> QED BY <1>2, <1>3, <1>4, <1>5, <1>6 DEF MarlInv

\* A failure for which there is a cause.
LEMMA FailStep ==
    ASSUME MarlInv, NEW reason \in Whys \ {"none"}, Fail(reason), CallsInv',
           used' \in [train : Nat, heldout : Nat, proposer : Nat],
           used'.train <= cfg.trainLimit, used'.heldout <= cfg.heldoutLimit,
           calls' # {} => Startable(cfg),
           reason = "config" => used'.train = 0,
           reason = "heldout ids" => ~Unique(cfg.heldout),
           reason = "budget" => ~cfg.compareSeed,
           reason = "score" /\ Truthful /\ cfg.trainLimit > 0 => Cut /\ used'.train = used.train
    PROVE  MarlInv'
  BY SplitsKept DEF Fail, MarlInv, TypeInv, Pcs, StartInv, Startable, EvalInv, BatchInv, PairInv,
     CauseInv
-----------------------------------------------------------------------------
(* A row is paid *)

LEMMA ArmsCounted ==
    ASSUME cfg \in Configs, NEW t \in Tasks
    PROVE  /\ IsFiniteSet({"primary"}) /\ Cardinality({"primary"}) = 1
           /\ IsFiniteSet(EvaluationArms(cfg.variant, RowArms[t]))
           /\ Cardinality(EvaluationArms(cfg.variant, RowArms[t])) \in Nat
           /\ Cardinality(EvaluationArms(cfg.variant, RowArms[t])) # 0
  <1> DEFINE arms == EvaluationArms(cfg.variant, RowArms[t])
  <1>1. IsFiniteSet({"primary"}) /\ Cardinality({"primary"}) = 1
    BY FS_Singleton
  <1>2. IsFiniteSet(RowArms[t])
    BY MarlAssumption DEF Tasks
  <1>3. IsFiniteSet({"primary"} \cup {"channel_masked"}) /\ IsFiniteSet({"primary"} \cup {"role_permuted"})
    BY <1>1, FS_AddElement
  <1>4. IsFiniteSet(({"primary"} \cup {"channel_masked"}) \cup RowArms[t])
    BY <1>2, <1>3, FS_Union
  <1>5. arms \in {{"primary"}, {"primary"} \cup {"channel_masked"}, {"primary"} \cup {"role_permuted"},
                  ({"primary"} \cup {"channel_masked"}) \cup RowArms[t]}
    BY ConfigFacts DEF EvaluationArms
  <1>6. IsFiniteSet(arms) /\ "primary" \in arms
    BY <1>1, <1>3, <1>4, <1>5
  <1> HIDE DEF arms
  <1>7. Cardinality(arms) \in Nat /\ Cardinality(arms) # 0
    BY <1>6, FS_CardinalityType, FS_EmptySet
  <1> QED BY <1>1, <1>6, <1>7 DEF arms

Spent(stage) == IF stage = "heldout" THEN used.heldout ELSE used.train

\* The ids of a row are new, and as many as its arms.
LEMMA IdsCounted ==
    ASSUME NEW task, NEW arms, IsFiniteSet(arms), Spent(eval.stage) \in Nat
    PROVE  /\ IsFiniteSet(RolloutIds(task, arms))
           /\ Cardinality(RolloutIds(task, arms)) = Cardinality(arms)
           /\ \A r \in RolloutIds(task, arms) :
                /\ r.stage = eval.stage /\ r.task = task
                /\ r.ordinal \in Nat /\ Spent(eval.stage) <= r.ordinal
                /\ r.ordinal < Spent(eval.stage) + Cardinality(arms)
  <1> DEFINE n == Cardinality(arms)
             order == SetToSeq(arms)
             spent == Spent(eval.stage)
             f == [i \in 1 .. n |-> [id |-> eval.id, stage |-> eval.stage, task |-> task, arm |-> order[i],
                                     row |-> Len(eval.batch), ordinal |-> spent + i - 1]]
  <1>1. n \in Nat /\ DOMAIN order = 1 .. n
    BY SetInOrder
  <1>2. RolloutIds(task, arms) = {f[i] : i \in 1 .. n}
    BY <1>1 DEF RolloutIds, Spent
  <1> HIDE DEF n, order, spent
  <1>3. spent \in Nat
    BY DEF spent
  <1>4. \A i \in 1 .. n : /\ f[i].stage = eval.stage /\ f[i].task = task
                          /\ f[i].ordinal = spent + i - 1
    OBVIOUS
  <1> DEFINE T == {f[i] : i \in 1 .. n}
  <1>5. f \in [1 .. n -> T]
    OBVIOUS
  <1>6. \A i, j \in 1 .. n : f[i] = f[j] => i = j
    <2> SUFFICES ASSUME NEW i \in 1 .. n, NEW j \in 1 .. n, f[i] = f[j] PROVE i = j
      OBVIOUS
    <2>1. spent + i - 1 = spent + j - 1
      BY <1>4
    <2> QED BY <1>3, <2>1
  <1>7. \A x \in T : \E i \in 1 .. n : f[i] = x
    OBVIOUS
  <1>8. \A x \in T : \E i \in 1 .. n : /\ x.stage = eval.stage /\ x.task = task
                                       /\ x.ordinal = spent + i - 1
    BY <1>4
  <1> HIDE DEF f, T
  <1>9. f \in Bijection(1 .. n, T)
    BY <1>5, <1>6, <1>7 DEF Bijection, Injection, Surjection, IsInjective
  <1>10. ExistsBijection(1 .. n, T)
    BY <1>9 DEF ExistsBijection
  <1>11. IsFiniteSet(1 .. n) /\ Cardinality(1 .. n) = n
    BY <1>1, FS_Interval
  <1>12. IsFiniteSet(T) /\ Cardinality(T) = n
    BY <1>10, <1>11, FS_Bijection
  <1>13. RolloutIds(task, arms) = T
    BY <1>2 DEF T
  <1>14. \A x \in T : /\ x.stage = eval.stage /\ x.task = task
                      /\ x.ordinal \in Nat /\ spent <= x.ordinal /\ x.ordinal < spent + n
    BY <1>1, <1>3, <1>8
  <1> QED BY <1>12, <1>13, <1>14 DEF n, spent

LEMMA RemainingBound ==
    ASSUME TypeInv, NEW stage
    PROVE  /\ Remaining(stage) \in Nat
           /\ stage = "heldout" => used.heldout + Remaining(stage) = cfg.heldoutLimit
           /\ stage # "heldout" => used.train + Remaining(stage) = cfg.trainLimit
  <1>1. used.train \in Nat /\ used.heldout \in Nat /\ cfg.trainLimit \in Nat /\ cfg.heldoutLimit \in Nat
    BY ConfigFacts DEF TypeInv
  <1>2. used.train <= cfg.trainLimit /\ used.heldout <= cfg.heldoutLimit
    BY DEF TypeInv
  <1>3. /\ TrainRemaining \in Nat /\ used.train + TrainRemaining = cfg.trainLimit
        /\ HeldoutRemaining \in Nat /\ used.heldout + HeldoutRemaining = cfg.heldoutLimit
    BY <1>1, <1>2 DEF TrainRemaining, HeldoutRemaining
  <1> QED BY <1>3 DEF Remaining

LEMMA RowPaid ==
    ASSUME MarlInv, eval # NoEval, Len(eval.batch) < Len(eval.rows), cfg' = cfg,
           NEW arms, IsFiniteSet(arms), Cardinality(arms) <= Remaining(eval.stage),
           Spend(Cardinality(arms)), calls' = calls \cup RolloutIds(NextRow, arms)
    PROVE  /\ CallsInv' /\ Startable(cfg)
           /\ used' \in [train : Nat, heldout : Nat, proposer : Nat]
           /\ used'.train <= cfg.trainLimit /\ used'.heldout <= cfg.heldoutLimit
           /\ eval.stage = "heldout" => /\ used'.train = used.train
                                        /\ used'.heldout = used.heldout + Cardinality(arms)
           /\ eval.stage # "heldout" => /\ used'.heldout = used.heldout
                                        /\ used'.train = used.train + Cardinality(arms)
  <1> DEFINE n == Cardinality(arms)
             ids == RolloutIds(NextRow, arms)
  <1>1. TypeInv /\ IsEval(eval) /\ CallsInv
    BY DEF MarlInv, EvalInv
  <1>2. n \in Nat
    BY FS_CardinalityType
  <1> HIDE DEF n
  <1>3. used \in [train : Nat, heldout : Nat, proposer : Nat]
    BY <1>1 DEF TypeInv
  <1>4. /\ eval.stage = "heldout" => used' = [used EXCEPT !.heldout = @ + n]
        /\ eval.stage # "heldout" => used' = [used EXCEPT !.train = @ + n]
    BY DEF Spend, n
  <1>5. /\ eval.stage = "heldout" => used'.train = used.train /\ used'.heldout = used.heldout + n
        /\ eval.stage # "heldout" => used'.heldout = used.heldout /\ used'.train = used.train + n
        /\ used' \in [train : Nat, heldout : Nat, proposer : Nat]
    BY <1>2, <1>3, <1>4
  <1>6. used'.train <= cfg.trainLimit /\ used'.heldout <= cfg.heldoutLimit
    <2>1. n <= Remaining(eval.stage) /\ cfg.trainLimit \in Nat /\ cfg.heldoutLimit \in Nat
      BY <1>1, ConfigFacts DEF n, TypeInv
    <2>2. used.train <= cfg.trainLimit /\ used.heldout <= cfg.heldoutLimit
      BY <1>1 DEF TypeInv
    <2>3. /\ Remaining(eval.stage) \in Nat
          /\ eval.stage = "heldout" => used.heldout + Remaining(eval.stage) = cfg.heldoutLimit
          /\ eval.stage # "heldout" => used.train + Remaining(eval.stage) = cfg.trainLimit
      BY <1>1, RemainingBound
    <2> QED BY <1>2, <1>3, <1>5, <2>1, <2>2, <2>3
  <1>7. Startable(cfg)
    BY <1>1 DEF IsEval, Stages, TrainStages, Place, MarlInv, StartInv
  <1>8. NextRow \in SplitTasks(eval.stage)
    BY <1>1 DEF IsEval, IsSeq, NextRow
  <1>9. Spent(eval.stage) \in Nat
    BY <1>3 DEF Spent
  <1>10. /\ IsFiniteSet(ids) /\ Cardinality(ids) = n
         /\ \A r \in ids : /\ r.stage = eval.stage /\ r.task = NextRow
                           /\ r.ordinal \in Nat /\ Spent(eval.stage) <= r.ordinal
                           /\ r.ordinal < Spent(eval.stage) + n
    BY <1>9, IdsCounted DEF n
  <1> HIDE DEF ids
  <1>11. calls' = calls \cup ids
    BY DEF ids
  <1>12. CallsInv'
    <2>1. calls \cap ids = {}
      <3> SUFFICES ASSUME NEW r \in calls, r \in ids PROVE FALSE
        OBVIOUS
      <3>1. r.ordinal \in Nat /\ r.ordinal < Spent(r.stage)
        BY <1>1 DEF CallsInv, Spent
      <3> QED BY <1>9, <1>10, <3>1
    <2>2. IsFiniteSet(calls') /\ Cardinality(calls') = Cardinality(calls) + n
      <3>1. IsFiniteSet(calls) /\ Cardinality(calls) \in Nat
        BY <1>1, FS_CardinalityType DEF CallsInv
      <3>2. /\ IsFiniteSet(calls \cup ids)
            /\ Cardinality(calls \cup ids) = Cardinality(calls) + Cardinality(ids) - Cardinality(calls \cap ids)
        BY <1>10, <3>1, FS_Union
      <3>3. Cardinality(calls \cap ids) = 0
        BY <2>1, FS_EmptySet
      <3>4. Cardinality(ids) = n
        BY <1>10
      <3>5. Cardinality(calls \cup ids) = Cardinality(calls) + n
        BY <1>2, <3>1, <3>2, <3>3, <3>4
      <3> QED BY <1>11, <3>2, <3>5
    <2>3. Cardinality(calls') = used'.train + used'.heldout
      BY <1>1, <1>2, <1>3, <1>5, <2>2 DEF CallsInv
    <2>4. ASSUME NEW r \in calls'
          PROVE  /\ r.stage \in Stages /\ r.task \in SplitTasks(r.stage) /\ r.ordinal \in Nat
                 /\ r.ordinal < IF r.stage = "heldout" THEN used'.heldout ELSE used'.train
      <3>1. CASE r \in calls
        BY <1>1, <3>1, <1>2, <1>3, <1>5 DEF CallsInv
      <3>2. CASE r \in ids
        BY <1>1, <1>5, <1>10, <3>2, <1>8 DEF IsEval, Spent
      <3> QED BY <1>11, <3>1, <3>2
    <2> QED BY <2>2, <2>3, <2>4, SplitsKept DEF CallsInv
  <1> QED BY <1>5, <1>6, <1>7, <1>12 DEF n
-----------------------------------------------------------------------------
(* The rows of a call *)

LEMMA EvalFacts ==
    ASSUME MarlInv, eval # NoEval
    PROVE  /\ TypeInv /\ IsEval(eval) /\ eval.stage \in Stages /\ pc = Place[eval.stage]
           /\ pc \notin {"load", "failed", "done"} /\ Startable(cfg) /\ why = "none"
           /\ (pc = "heldout" <=> eval.stage = "heldout")
           /\ DOMAIN eval.batch = 1 .. Len(eval.batch) /\ Len(eval.batch) \in Nat
           /\ Len(eval.rows) \in Nat /\ \A i \in 1 .. Len(eval.rows) : eval.rows[i] \in SplitTasks(eval.stage)
           /\ SplitTasks(eval.stage) \subseteq Tasks
  <1>1. TypeInv /\ IsEval(eval)
    BY DEF MarlInv, EvalInv
  <1>2. /\ pc \notin {"load", "failed", "done"} /\ eval.stage \in Stages /\ pc = Place[eval.stage]
        /\ (pc = "heldout" <=> eval.stage = "heldout")
    BY <1>1 DEF IsEval, Stages, TrainStages, Place
  <1>3. Startable(cfg) /\ why = "none"
    BY <1>2 DEF MarlInv, StartInv, CauseInv
  <1>4. IsSeq(eval.batch) /\ eval.rows \in Seq(SplitTasks(eval.stage))
    BY <1>1 DEF IsEval
  <1>5. DOMAIN eval.batch = 1 .. Len(eval.batch) /\ Len(eval.batch) \in Nat
    BY <1>4 DEF IsSeq
  <1>6. Len(eval.rows) \in Nat /\ \A i \in 1 .. Len(eval.rows) : eval.rows[i] \in SplitTasks(eval.stage)
    BY <1>4
  <1>7. SplitTasks(eval.stage) \subseteq Tasks
    BY <1>1, <1>2, SplitsTyped DEF TypeInv
  <1> QED BY <1>1, <1>2, <1>3, <1>5, <1>6, <1>7

\* What is admitted for a row can be paid; a row that is cut says so.
LEMMA AdmittedFits ==
    ASSUME MarlInv, eval # NoEval, Remaining(eval.stage) > 0, NEW t \in Tasks
    PROVE  /\ IsFiniteSet(Admitted(t)) /\ Cardinality(Admitted(t)) \in Nat \ {0}
           /\ Cardinality(Admitted(t)) <= Remaining(eval.stage)
           /\ eval.stage = "heldout" => Cardinality(Admitted(t)) = 1
           /\ ~PrimaryOnly(eval.stage) =>
                \/ Admitted(t) = EvaluationArms(cfg.variant, RowArms[t])
                \/ /\ Cardinality(EvaluationArms(cfg.variant, RowArms[t])) > TrainRemaining
                   /\ Cardinality(Admitted(t)) = 1
  <1> DEFINE arms == EvaluationArms(cfg.variant, RowArms[t])
             one == {"primary"}
  <1>1. /\ IsFiniteSet(one) /\ Cardinality(one) = 1
        /\ IsFiniteSet(arms) /\ Cardinality(arms) \in Nat /\ Cardinality(arms) # 0
    BY ArmsCounted DEF MarlInv, TypeInv
  <1>2. AllArms(t) = IF PrimaryOnly(eval.stage) THEN one ELSE arms
    BY DEF AllArms
  <1> HIDE DEF arms
  <1>3. Admitted(t) = IF Cardinality(AllArms(t)) > Remaining(eval.stage) THEN one ELSE AllArms(t)
    BY DEF Admitted
  <1>4. Remaining(eval.stage) \in Nat
    BY RemainingBound DEF MarlInv
  <1> HIDE DEF one
  <1>5. eval.stage = "heldout" => PrimaryOnly(eval.stage)
    BY DEF PrimaryOnly
  <1>6. ~PrimaryOnly(eval.stage) => Remaining(eval.stage) = TrainRemaining
    BY <1>5 DEF Remaining
  <1>7. CASE AllArms(t) = one
    BY <1>3, <1>7, <1>1, <1>2, <1>4 DEF arms
  <1>8. CASE ~PrimaryOnly(eval.stage) /\ AllArms(t) = arms
    <2>1. CASE Cardinality(arms) > Remaining(eval.stage)
      BY <1>1, <1>3, <1>4, <1>5, <1>6, <1>8, <2>1 DEF arms
    <2>2. CASE ~(Cardinality(arms) > Remaining(eval.stage))
      BY <1>3, <1>8, <2>2, <1>1, <1>4, <1>5 DEF arms
    <2> QED BY <2>1, <2>2
  <1> QED BY <1>2, <1>7, <1>8

LEMMA CutStays ==
    ASSUME MarlInv, cfg' = cfg, used'.train \in Nat, used.train <= used'.train, Cut
    PROVE  Cut'
  <1>1. /\ TrainRemaining \in Nat /\ used.train + TrainRemaining = cfg.trainLimit
        /\ used.train \in Nat /\ cfg.trainLimit \in Nat
    BY RemainingBound, ConfigFacts DEF MarlInv, TypeInv, Remaining
  <1>2. TrainRemaining' = IF used'.train >= cfg.trainLimit THEN 0 ELSE cfg.trainLimit - used'.train
    BY DEF TrainRemaining
  <1>3. TrainRemaining' \in Nat /\ TrainRemaining' <= TrainRemaining
    BY <1>1, <1>2
  <1>4. PICK t \in Tasks : TrainRemaining + 1 < Cardinality(EvaluationArms(cfg.variant, RowArms[t]))
    BY DEF Cut, Tasks
  <1>5. Cardinality(EvaluationArms(cfg.variant, RowArms[t])) \in Nat
    BY ArmsCounted DEF MarlInv, TypeInv
  <1>6. TrainRemaining' + 1 < Cardinality(EvaluationArms(cfg.variant, RowArms[t]))
    BY <1>1, <1>3, <1>4, <1>5
  <1> QED BY <1>6 DEF Cut, Tasks

LEMMA RowStep == MarlInv /\ RolloutRow => MarlInv'
  <1> SUFFICES ASSUME MarlInv, RolloutRow PROVE MarlInv'
    OBVIOUS
  <1>1. eval # NoEval /\ Len(eval.batch) < Len(eval.rows) /\ Remaining(eval.stage) > 0
    BY DEF RolloutRow, Evaluating
  <1>2. UNCHANGED <<cfg, pc, why, gen, cands, work, champion, audits, paired>>
    BY DEF RolloutRow
  <1> DEFINE t == NextRow
             arms == Admitted(t)
             l == Len(eval.batch)
  <1>3. PICK x \in Answers[cfg.variant] :
          /\ Spend(Cardinality(arms)) /\ calls' = calls \cup RolloutIds(t, arms)
          /\ eval' = [eval EXCEPT !.batch = Append(@,
                       [task |-> t, obs |-> [a \in arms |-> IF a = "primary" THEN x.primary ELSE x.other]])]
    BY DEF RolloutRow
  <1> DEFINE row == [task |-> t, obs |-> [a \in arms |-> IF a = "primary" THEN x.primary ELSE x.other]]
  <1>4. TypeInv /\ IsEval(eval) /\ Startable(cfg) /\ l \in Nat /\ DOMAIN eval.batch = 1 .. l
        /\ t \in SplitTasks(eval.stage) /\ t \in Tasks /\ t = eval.rows[l + 1]
    BY <1>1, EvalFacts DEF NextRow
  <1>5. /\ IsFiniteSet(arms) /\ Cardinality(arms) \in Nat \ {0}
        /\ Cardinality(arms) <= Remaining(eval.stage)
        /\ eval.stage = "heldout" => Cardinality(arms) = 1
        /\ ~PrimaryOnly(eval.stage) =>
             \/ arms = EvaluationArms(cfg.variant, RowArms[t])
             \/ /\ Cardinality(EvaluationArms(cfg.variant, RowArms[t])) > TrainRemaining
                /\ Cardinality(arms) = 1
    BY <1>1, <1>4, AdmittedFits
  <1>6. row.task = t /\ row.obs = [a \in arms |-> IF a = "primary" THEN x.primary ELSE x.other]
        /\ DOMAIN row.obs = arms
    OBVIOUS
  <1> HIDE DEF arms, t, row
  <1>7. /\ CallsInv'
        /\ used' \in [train : Nat, heldout : Nat, proposer : Nat]
        /\ used'.train <= cfg.trainLimit /\ used'.heldout <= cfg.heldoutLimit
        /\ eval.stage = "heldout" => /\ used'.train = used.train
                                     /\ used'.heldout = used.heldout + Cardinality(arms)
        /\ eval.stage # "heldout" => /\ used'.heldout = used.heldout
                                     /\ used'.train = used.train + Cardinality(arms)
    BY <1>1, <1>2, <1>3, <1>5, RowPaid DEF t
  <1>8. /\ eval'.stage = eval.stage /\ eval'.rows = eval.rows /\ eval'.batch = Append(eval.batch, row)
        /\ eval' = [stage |-> eval'.stage, index |-> eval'.index, id |-> eval'.id,
                    rows |-> eval'.rows, batch |-> eval'.batch]
    BY <1>3, <1>4 DEF IsEval, row
  <1>9. IsSeq(eval.batch) /\ Len(eval.batch) = l
    BY <1>4 DEF IsEval
  <1> HIDE DEF l
  <1>10. /\ IsSeq(eval'.batch) /\ Len(eval'.batch) = l + 1 /\ DOMAIN eval'.batch = 1 .. (l + 1)
         /\ \A i \in 1 .. l : eval'.batch[i] = eval.batch[i]
         /\ eval'.batch[l + 1] = row
    BY <1>4, <1>8, <1>9, Grows
  <1>11. TypeInv'
    BY <1>2, <1>4, <1>7 DEF TypeInv
  <1>12. StartInv'
    BY <1>1, <1>2, EvalFacts, <1>4 DEF StartInv, Startable
  <1>13. EvalInv'
    <2>1. \A i \in 1 .. (l + 1) : eval'.batch[i].task = eval.rows[i]
      <3> SUFFICES ASSUME NEW i \in 1 .. (l + 1) PROVE eval'.batch[i].task = eval.rows[i]
        OBVIOUS
      <3>1. CASE i = l + 1
        BY <1>4, <1>6, <1>10, <3>1
      <3>2. CASE i # l + 1
        BY <1>4, <3>2, <1>10 DEF IsEval
      <3> QED BY <3>1, <3>2
    <2>2. l + 1 <= Len(eval.rows)
      BY <1>1, <1>4, <1>9, EvalFacts
    <2>3. SplitTasks(eval.stage)' = SplitTasks(eval'.stage)
      BY <1>2 DEF SplitTasks
    <2>4. eval'.rows \in Seq(SplitTasks(eval.stage)') /\ eval'.rows # <<>> /\ pc' = Place[eval'.stage]
          /\ eval'.stage \in Stages
      BY <1>2, <1>4, <1>8, <2>3 DEF IsEval
    <2>5. IsEval(eval)'
      BY <1>8, <1>10, <2>1, <2>2, <2>4 DEF IsEval
    <2> QED BY <2>5 DEF EvalInv
  <1>14. PairInv'
    <2>1. CASE eval.stage = "heldout"
      <3>1. InFlight = l /\ InFlight' = l + 1
        BY <1>8, <2>1, NoEvalStage, <1>1, <1>9, <1>10 DEF InFlight
      <3>2. used'.heldout = used.heldout + 1 /\ used.heldout \in Nat /\ paired.turns \in Nat
        BY <1>4, <1>5, <1>7, <2>1 DEF TypeInv
      <3>3. used'.heldout = paired.turns + InFlight'
        <4>1. used.heldout = paired.turns + InFlight
          BY <1>1, EvalFacts DEF MarlInv, PairInv
        <4> QED BY <1>4, <3>1, <3>2, <4>1
      <3> QED BY <1>1, <1>2, <1>8, <3>3, SplitsKept, EvalFacts DEF MarlInv, PairInv
    <2>2. CASE eval.stage # "heldout"
      BY <1>8, <2>2, <1>1, <1>2, <1>7, SplitsKept, EvalFacts DEF InFlight, MarlInv, PairInv
    <2> QED BY <2>1, <2>2
  <1>15. BatchInv'
    <2> SUFFICES ASSUME ~PrimaryOnly(eval.stage)
                 PROVE  /\ \A i \in 1 .. (l + 1) : IsAnswer(eval.batch[i])' /\ (WholeRow(eval.batch[i])' \/ Cut')
                        /\ eval'.batch # <<>>
      BY <1>8, <1>10 DEF BatchInv, PrimaryOnly
    <2>1. used'.train = used.train + Cardinality(arms) /\ used.train \in Nat /\ used'.train \in Nat
          /\ used.train <= used'.train
      <3>1. eval.stage # "heldout" /\ used.train \in Nat
        BY <1>4 DEF PrimaryOnly, TypeInv
      <3> QED BY <1>5, <1>7, <3>1
    <2>2. Cut => Cut'
      BY <1>2, <2>1, CutStays
    <2>3. eval'.batch # <<>>
      BY <1>4, <1>10
    <2>4. ASSUME NEW i \in 1 .. l
          PROVE  IsAnswer(eval'.batch[i]) /\ (WholeRow(eval'.batch[i]) \/ Cut')
      BY <1>10, <1>1, <1>4, <2>2 DEF MarlInv, BatchInv
    <2>5. IsAnswer(row) /\ (WholeRow(row) \/ Cut')
      <3>1. IsAnswer(row)
        BY <1>6 DEF IsAnswer
      <3>2. CASE arms = EvaluationArms(cfg.variant, RowArms[t])
        BY <1>6, <3>1, <3>2 DEF WholeRow
      <3>3. CASE /\ Cardinality(EvaluationArms(cfg.variant, RowArms[t])) > TrainRemaining
                 /\ Cardinality(arms) = 1
        <4> DEFINE c == Cardinality(EvaluationArms(cfg.variant, RowArms[t]))
        <4>1. TrainRemaining' + 1 = TrainRemaining /\ TrainRemaining' \in Nat
          <5>1. /\ TrainRemaining \in Nat /\ used.train + TrainRemaining = cfg.trainLimit /\ TrainRemaining > 0
            BY <1>1, <1>4, RemainingBound DEF Remaining, PrimaryOnly
          <5>2. TrainRemaining' = IF used'.train >= cfg.trainLimit THEN 0 ELSE cfg.trainLimit - used'.train
            BY <1>2 DEF TrainRemaining
          <5>3. cfg.trainLimit \in Nat /\ used'.train = used.train + 1
            BY <1>4, <2>1, <3>3, ConfigFacts DEF TypeInv
          <5> QED BY <2>1, <5>1, <5>2, <5>3
        <4>2. c \in Nat
          BY <1>4, ArmsCounted DEF TypeInv
        <4>3. TrainRemaining' + 1 < c
          BY <3>3, <4>1, <4>2
        <4>4. Cut'
          BY <1>2, <1>4, <4>3 DEF Cut, Tasks
        <4> QED BY <3>1, <4>4
      <3> QED BY <1>5, <3>2, <3>3
    <2>6. \A i \in 1 .. (l + 1) : IsAnswer(eval'.batch[i]) /\ (WholeRow(eval'.batch[i]) \/ Cut')
      <3> SUFFICES ASSUME NEW i \in 1 .. (l + 1)
                   PROVE  IsAnswer(eval'.batch[i]) /\ (WholeRow(eval'.batch[i]) \/ Cut')
        OBVIOUS
      <3>1. i \in 1 .. l \/ i = l + 1
        BY <1>4
      <3>2. CASE i = l + 1
        BY <1>10, <3>2, <2>5
      <3> QED BY <2>4, <3>1, <3>2
    <2>7. ASSUME NEW i \in 1 .. (l + 1)
          PROVE  /\ IsAnswer(eval.batch[i])' <=> IsAnswer(eval'.batch[i])
                 /\ WholeRow(eval.batch[i])' <=> WholeRow(eval'.batch[i])
      BY <1>2 DEF IsAnswer, WholeRow
    <2> QED BY <2>3, <2>6, <2>7
  <1>16. CauseInv'
    <2>1. pc # "failed" /\ why = "none" /\ pc # "fetch" /\ (pc = "heldout" => eval.stage = "heldout")
      BY <1>1, EvalFacts DEF Place, Stages, TrainStages
    <2> QED BY <1>2, <1>7, <2>1 DEF MarlInv, CauseInv
  <1> QED BY <1>7, <1>11, <1>12, <1>13, <1>14, <1>15, <1>16 DEF MarlInv

LEMMA RowFailStep == MarlInv /\ RolloutFails => MarlInv'
  <1> SUFFICES ASSUME MarlInv, RolloutFails PROVE MarlInv'
    OBVIOUS
  <1>1. /\ eval # NoEval /\ Len(eval.batch) < Len(eval.rows) /\ Remaining(eval.stage) > 0
        /\ Fail("container")
    BY DEF RolloutFails, Evaluating
  <1>2. PICK tried \in SUBSET Admitted(NextRow) :
          /\ Spend(Cardinality(tried)) /\ calls' = calls \cup RolloutIds(NextRow, tried)
    BY DEF RolloutFails
  <1>3. IsFiniteSet(tried) /\ Cardinality(tried) <= Remaining(eval.stage)
    <2>1. NextRow \in Tasks
      BY <1>1, EvalFacts DEF NextRow
    <2>2. /\ IsFiniteSet(Admitted(NextRow)) /\ Cardinality(Admitted(NextRow)) \in Nat
          /\ Cardinality(Admitted(NextRow)) <= Remaining(eval.stage)
      BY <1>1, <2>1, AdmittedFits
    <2>3. /\ IsFiniteSet(tried) /\ Cardinality(tried) <= Cardinality(Admitted(NextRow))
      BY <2>2, FS_Subset
    <2>4. Cardinality(tried) \in Nat /\ Remaining(eval.stage) \in Nat
      BY <2>3, FS_CardinalityType, RemainingBound DEF MarlInv
    <2> QED BY <2>2, <2>3, <2>4
  <1>4. cfg' = cfg
    BY <1>1 DEF Fail
  <1>5. /\ CallsInv' /\ Startable(cfg)
        /\ used' \in [train : Nat, heldout : Nat, proposer : Nat]
        /\ used'.train <= cfg.trainLimit /\ used'.heldout <= cfg.heldoutLimit
    BY <1>1, <1>2, <1>3, <1>4, RowPaid
  <1>6. "container" \in Whys \ {"none"}
    BY DEF Whys
  <1> QED BY <1>1, <1>5, <1>6, FailStep
-----------------------------------------------------------------------------
(* The steps of the search *)

LEMMA IdleFacts ==
    ASSUME MarlInv, eval = NoEval, pc \notin {"load", "failed"}
    PROVE  /\ TypeInv /\ Startable(cfg) /\ why = "none" /\ used.heldout = paired.turns
           /\ paired.turns \in Nat /\ used.train \in Nat
  <1>1. InFlight = 0
    BY DEF InFlight
  <1>2. paired.turns \in Nat /\ used.heldout \in Nat /\ used.train \in Nat
    BY DEF MarlInv, TypeInv
  <1>3. used.heldout = paired.turns + InFlight
    BY DEF MarlInv, PairInv
  <1>4. Startable(cfg) /\ why = "none"
    BY DEF MarlInv, StartInv, CauseInv
  <1> QED BY <1>1, <1>2, <1>3, <1>4 DEF MarlInv

LEMMA LoadStep == MarlInv /\ Load => MarlInv'
  <1> SUFFICES ASSUME MarlInv, Load PROVE MarlInv'
    OBVIOUS
  <1>1. pc = "load" /\ UNCHANGED <<used, calls>> /\ TypeInv
    BY DEF Load, MarlInv
  <1>2. calls = {} /\ used.train = 0 /\ eval = NoEval /\ why = "none"
    BY <1>1 DEF MarlInv, EvalInv, IsEval, Place, Stages, TrainStages, StartInv, CauseInv
  <1>3. ASSUME NEW reason \in {"config", "container"}, Fail(reason) PROVE MarlInv'
    BY <1>1, <1>3, CallsKept, <1>2, FailStep DEF BooksKept, Fail, Whys, TypeInv
  <1>4. ASSUME Startable(cfg), pc' = "seed",
               Evaluate("seed_full_train", 1, SeedId,
                        SampleRows(TrainRows(cfg), 0, Max({cfg.minibatch, 1}))),
               UNCHANGED <<cfg, why, gen, cands, work, champion, audits, paired>>
        PROVE  MarlInv'
    <2> DEFINE rows == SampleRows(TrainRows(cfg), 0, Max({cfg.minibatch, 1}))
    <2>1. Max({cfg.minibatch, 1}) \in Nat \ {0}
      <3>1. cfg.minibatch \in Nat
        BY <1>1, ConfigFacts DEF TypeInv
      <3>2. Max({cfg.minibatch, 1}) \in Nat /\ 1 <= Max({cfg.minibatch, 1})
        BY <3>1, MaxOfTwo
      <3> QED BY <3>2
    <2>2. rows \in Seq(SplitTasks("seed_full_train")) /\ rows # <<>>
      BY <1>1, <1>4, <2>1, SplitsTyped, StartableFacts, SampleTyped DEF TypeInv
    <2> HIDE DEF rows
    <2>3. Evaluate("seed_full_train", 1, SeedId, rows)
      BY <1>4 DEF rows
    <2>4. BooksKept /\ "seed_full_train" \in Stages /\ pc' = Place["seed_full_train"]
      BY <1>1, <1>4 DEF BooksKept, Stages, TrainStages, Place
    <2>5. TypeInv'
      BY <1>1, <1>4 DEF TypeInv, Pcs
    <2> QED BY <1>1, <1>2, <1>4, <2>2, <2>3, <2>4, <2>5, BeginStep
  <1> QED BY <1>3, <1>4 DEF Load

\* Rows that have all their arms can be scored when the container is truthful.
LEMMA WholeScorable ==
    ASSUME MarlInv, Truthful, NEW batch, batch # <<>>,
           \A i \in DOMAIN batch : /\ IsAnswer(batch[i]) /\ WholeRow(batch[i])
                                   /\ batch[i].task \in Tasks
    PROVE  Scorable(cfg.variant, batch)
  <1>1. cfg.variant \in {"coma", "ic3net", "rode", "imac"} /\ cfg.variant \in DOMAIN Answers
    BY ConfigFacts, MarlAssumption DEF MarlInv, TypeInv
  <1>2. ASSUME NEW i \in DOMAIN batch
        PROVE  /\ \A a \in Arms(batch[i]) : batch[i].obs[a].honest
               /\ Arms(batch[i]) = EvaluationArms(cfg.variant, RowArms[batch[i].task])
               /\ \E x \in Answers[cfg.variant] :
                    /\ "primary" \in Arms(batch[i]) => batch[i].obs["primary"] = x.primary
                    /\ "channel_masked" \in Arms(batch[i]) => batch[i].obs["channel_masked"] = x.other
    <2>1. PICK x \in Answers[cfg.variant] :
            batch[i].obs = [a \in DOMAIN batch[i].obs |-> IF a = "primary" THEN x.primary ELSE x.other]
      BY <1>2 DEF IsAnswer
    <2>2. x.primary.honest /\ x.other.honest
      BY <1>1 DEF Truthful
    <2>3. \A a \in Arms(batch[i]) : batch[i].obs[a] = IF a = "primary" THEN x.primary ELSE x.other
      BY <2>1 DEF Arms
    <2>4. \A a \in Arms(batch[i]) : batch[i].obs[a].honest
      BY <2>2, <2>3
    <2>5. /\ "primary" \in Arms(batch[i]) => batch[i].obs["primary"] = x.primary
          /\ "channel_masked" \in Arms(batch[i]) => batch[i].obs["channel_masked"] = x.other
      BY <2>3
    <2> QED BY <1>2, <2>4, <2>5 DEF WholeRow, Arms
  <1>3. Honest(batch)
    BY <1>2 DEF Honest
  <1>4. CASE cfg.variant = "coma"
    <2>1. ASSUME NEW i \in DOMAIN batch
          PROVE  {"primary", "channel_masked"} \subseteq Arms(batch[i]) /\ RoleArms(batch[i]) # {}
      BY <1>2, <1>4, MarlAssumption DEF EvaluationArms, Truthful, Tasks, RoleArms
    <2> QED BY <1>3, <1>4, <2>1 DEF Scorable, ComaScorable
  <1>5. CASE cfg.variant = "ic3net"
    <2>1. ASSUME NEW i \in DOMAIN batch
          PROVE  /\ {"primary", "channel_masked"} = Arms(batch[i])
                 /\ batch[i].obs["primary"].cost = batch[i].obs["channel_masked"].cost
                 /\ (batch[i].obs["primary"].extra = NoMetric)
                      = (batch[i].obs["channel_masked"].extra = NoMetric)
      <3>1. Arms(batch[i]) = {"primary", "channel_masked"}
        BY <1>2, <1>5 DEF EvaluationArms
      <3>2. PICK x \in Answers["ic3net"] : /\ batch[i].obs["primary"] = x.primary
                                           /\ batch[i].obs["channel_masked"] = x.other
        BY <1>2, <1>5, <3>1
      <3>3. x.primary.cost = x.other.cost /\ (x.primary.extra = NoMetric) = (x.other.extra = NoMetric)
        BY <1>1, <1>5 DEF Truthful
      <3> QED BY <3>1, <3>2, <3>3
    <2> QED BY <1>3, <1>5, <2>1 DEF Scorable, Ic3netScorable
  <1>6. CASE cfg.variant = "rode"
    BY <1>2, <1>6, <1>3 DEF EvaluationArms, Scorable, RodeScorable
  <1>7. CASE cfg.variant = "imac"
    BY <1>2, <1>7, <1>3 DEF EvaluationArms, Scorable, ImacScorable
  <1> QED BY <1>1, <1>4, <1>5, <1>6, <1>7

LEMMA ScoreFailStep == MarlInv /\ ScoreFails => MarlInv'
  <1> SUFFICES ASSUME MarlInv, ScoreFails PROVE MarlInv'
    OBVIOUS
  <1>1. /\ eval # NoEval /\ ~PrimaryOnly(eval.stage) /\ ~Scorable(cfg.variant, eval.batch)
        /\ Len(eval.batch) = Len(eval.rows) \/ Remaining(eval.stage) = 0
        /\ eval.batch # <<>> \/ eval.stage = "seed_full_train"
        /\ Fail("score") /\ UNCHANGED <<used, calls>>
    BY DEF ScoreFails, BatchOver, Evaluating
  <1>2. BooksKept
    BY <1>1 DEF BooksKept, Fail
  <1>3. Truthful /\ cfg.trainLimit > 0 => Cut
    <2> SUFFICES ASSUME Truthful, cfg.trainLimit > 0 PROVE Cut
      OBVIOUS
    <2>1. IsEval(eval) /\ TypeInv
      BY <1>1, EvalFacts
    <2>2. eval.batch # <<>>
      <3> SUFFICES ASSUME eval.batch = <<>> PROVE FALSE
        OBVIOUS
      <3>1. used.train = 0
        BY <1>1 DEF MarlInv, BatchInv
      <3>2. Len(eval.batch) = 0 /\ Len(eval.rows) # 0
        BY <2>1, EmptyIsSeq DEF IsEval
      <3>3. eval.stage # "heldout" /\ Remaining(eval.stage) = 0
        BY <1>1, <3>2 DEF PrimaryOnly
      <3> QED BY <2>1, <3>1, <3>3, ConfigFacts, RemainingBound DEF TypeInv
    <2>3. ASSUME NEW i \in DOMAIN eval.batch PROVE eval.batch[i].task \in Tasks
      BY <1>1, <2>1, EvalFacts DEF IsEval
    <2>4. \A i \in DOMAIN eval.batch : IsAnswer(eval.batch[i]) /\ (WholeRow(eval.batch[i]) \/ Cut)
      BY <1>1 DEF MarlInv, BatchInv
    <2> QED BY <1>1, <2>2, <2>3, <2>4, WholeScorable
  <1>4. Startable(cfg) /\ TypeInv
    BY <1>1, EvalFacts
  <1>5. /\ used' \in [train : Nat, heldout : Nat, proposer : Nat]
        /\ used'.train <= cfg.trainLimit /\ used'.heldout <= cfg.heldoutLimit
        /\ used'.train = used.train
    BY <1>1, <1>4 DEF TypeInv
  <1>6. CallsInv' /\ "score" \in Whys \ {"none"}
    BY <1>2, CallsKept DEF Whys
  <1> QED BY <1>1, <1>3, <1>4, <1>5, <1>6, FailStep

LEMMA Updated == ASSUME NEW s, IsSeq(s), NEW k, NEW v
                 PROVE  /\ IsSeq([s EXCEPT ![k].selection = v])
                        /\ Len([s EXCEPT ![k].selection = v]) = Len(s)
  <1> DEFINE u == [s EXCEPT ![k].selection = v]
             T == {u[i] : i \in DOMAIN s}
  <1>1. Len(s) \in Nat /\ DOMAIN s = 1 .. Len(s) /\ s \in [1 .. Len(s) -> ToSet(s)]
    BY DEF IsSeq
  <1>2. u \in [1 .. Len(s) -> T]
    BY <1>1
  <1> HIDE DEF u, T
  <1>3. u \in Seq(T) /\ Len(u) = Len(s)
    BY <1>1, <1>2
  <1>4. u \in Seq(ToSet(u))
    BY <1>3, SplitSeq
  <1> QED BY <1>1, <1>3, <1>4 DEF IsSeq, u

LEMMA ScoredStep == MarlInv /\ (SeedScored \/ CandidateScored \/ SelectionScored \/ Audited) => MarlInv'
  <1> SUFFICES ASSUME MarlInv, SeedScored \/ CandidateScored \/ SelectionScored \/ Audited
               PROVE  MarlInv'
    OBVIOUS
  <1>1. /\ eval # NoEval /\ eval' = NoEval /\ UNCHANGED <<cfg, why, used, calls, champion, paired>>
        /\ eval.stage # "heldout"
    BY DEF SeedScored, CandidateScored, SelectionScored, Audited, ScoredBatch, BatchOver, Evaluating
  <1>2. TypeInv /\ pc = Place[eval.stage]
    BY <1>1, EvalFacts
  <1>3. BooksKept
    BY <1>1 DEF BooksKept
  <1>4. CASE SeedScored
    <2>1. cands' = <<[id |-> SeedId, gen |-> 0, payload |-> SeedPayload, parent |-> 0,
                      train |-> Score(cfg.variant, eval.batch), selection |-> <<>>]>>
          /\ pc' = "generation" /\ gen' = 1 /\ UNCHANGED <<work, audits>>
      BY <1>4 DEF SeedScored
    <2>2. IsSeq(cands') /\ Len(cands') = 1
      <3> DEFINE x == cands'[1]
      <3>1. cands' = Append(<<>>, x)
        BY <2>1
      <3> HIDE DEF x
      <3>2. IsSeq(Append(<<>>, x)) /\ Len(Append(<<>>, x)) = Len(<<>>) + 1
        BY EmptyIsSeq, Grows
      <3>3. Len(<<>>) = 0
        BY EmptyIsSeq
      <3> QED BY <3>1, <3>2, <3>3
    <2>3. champion' \in 0 .. Len(cands')
      BY <1>2, <1>4, <1>1, <2>2 DEF SeedScored, ScoredBatch, Place, TypeInv
    <2>4. TypeInv'
      BY <1>1, <1>2, <2>1, <2>2, <2>3 DEF TypeInv, Pcs
    <2> QED BY <1>1, <1>3, <2>1, <2>4, EndStep
  <1>5. CASE CandidateScored
    <2> DEFINE new == [Head(work) EXCEPT !.train = Score(cfg.variant, eval.batch)]
    <2>1. cands' = Append(cands, new) /\ UNCHANGED <<pc, gen, audits>>
      BY <1>5 DEF CandidateScored
    <2> HIDE DEF new
    <2>2. IsSeq(cands') /\ Len(cands') = Len(cands) + 1 /\ Len(cands) \in Nat
      BY <1>2, <2>1, Grows DEF TypeInv, IsSeq
    <2>3. TypeInv'
      BY <1>1, <1>2, <2>1, <2>2 DEF TypeInv
    <2>4. pc' = "minibatch"
      BY <1>2, <1>5, <2>1 DEF CandidateScored, ScoredBatch, Place
    <2> QED BY <1>1, <1>3, <2>3, <2>4, EndStep
  <1>6. CASE SelectionScored
    <2>1. cands' = [cands EXCEPT ![eval.index].selection = Score(cfg.variant, eval.batch)]
          /\ UNCHANGED <<pc, gen, audits>>
      BY <1>6 DEF SelectionScored
    <2>2. IsSeq(cands') /\ Len(cands') = Len(cands)
      BY <1>2, <2>1, Updated DEF TypeInv
    <2>3. TypeInv'
      BY <1>1, <1>2, <2>1, <2>2 DEF TypeInv
    <2>4. pc' = "select"
      BY <1>2, <1>6, <2>1 DEF SelectionScored, ScoredBatch, Place
    <2> QED BY <1>1, <1>3, <2>3, <2>4, EndStep
  <1>7. CASE Audited
    <2>1. audits' = (audits + 1) % Len(TrainRows(cfg)) /\ UNCHANGED <<pc, gen, cands>>
      BY <1>7 DEF Audited
    <2>2. audits' \in Nat
      <3>1. Len(TrainRows(cfg)) \in Nat \ {0}
        BY <1>1, <1>2, EvalFacts, SplitsTyped, StartableFacts DEF TypeInv
      <3>2. audits + 1 \in Nat
        BY <1>2 DEF TypeInv
      <3> DEFINE a == audits + 1
                 l == Len(TrainRows(cfg))
      <3>3. a \in Nat /\ l \in Nat \ {0} /\ audits' = a % l
        BY <2>1, <3>1, <3>2
      <3> HIDE DEF a, l
      <3>4. a % l \in Nat
        BY <3>3, ModBound
      <3> QED BY <3>3, <3>4
    <2>3. TypeInv'
      BY <1>1, <1>2, <2>1, <2>2 DEF TypeInv
    <2>4. pc' = "fill"
      BY <1>2, <1>7, <2>1 DEF Audited, Place
    <2> QED BY <1>1, <1>3, <2>3, <2>4, EndStep
  <1> QED BY <1>4, <1>5, <1>6, <1>7

LEMMA LoopStep ==
    MarlInv /\ (Propose \/ SearchEnds \/ MinibatchesEnd \/ GenerationEnds \/ ChooseChampion) => MarlInv'
  <1> SUFFICES ASSUME MarlInv,
                      Propose \/ SearchEnds \/ MinibatchesEnd \/ GenerationEnds \/ ChooseChampion
               PROVE  MarlInv'
    OBVIOUS
  <1>1. /\ eval = NoEval /\ eval' = eval /\ pc \in {"generation", "minibatch", "select", "best"}
        /\ UNCHANGED <<cfg, why, cands, calls, audits, paired>>
        /\ used' = used \/ used' = [used EXCEPT !.proposer = @ + 1]
    BY DEF Propose, SearchEnds, MinibatchesEnd, GenerationEnds, ChooseChampion, Idle
  <1>2. TypeInv
    BY DEF MarlInv
  <1>3. used' \in [train : Nat, heldout : Nat, proposer : Nat]
        /\ used'.train = used.train /\ used'.heldout = used.heldout
    BY <1>1, <1>2 DEF TypeInv
  <1>4. /\ pc' \in {"minibatch", "best", "select", "generation", "fill", "fetch"}
        /\ pc' = "fetch" => ~cfg.exact
    BY DEF Propose, SearchEnds, MinibatchesEnd, GenerationEnds, ChooseChampion
  <1>5. gen' \in Nat
    <2>1. gen' = gen \/ gen' = gen + 1
      BY DEF Propose, SearchEnds, MinibatchesEnd, GenerationEnds, ChooseChampion
    <2>2. gen \in Nat
      BY <1>2 DEF TypeInv
    <2> QED BY <2>1, <2>2
  <1>6. champion' \in 0 .. Len(cands)
    <2>1. CASE ChooseChampion
      BY <1>1, <1>2, <2>1, BestIsCandidate DEF TypeInv, IsSeq, ChooseChampion
    <2>2. CASE ~ChooseChampion
      BY <2>2, <1>2 DEF Propose, SearchEnds, MinibatchesEnd, GenerationEnds, ChooseChampion,
         TypeInv
    <2> QED BY <2>1, <2>2
  <1>7. TypeInv'
    BY <1>1, <1>2, <1>3, <1>4, <1>5, <1>6 DEF TypeInv, Pcs
  <1>8. BooksKept
    BY <1>1, <1>3 DEF BooksKept
  <1> QED BY <1>1, <1>4, <1>7, <1>8, IdleStep

\* A call of evaluate_candidate begins.
LEMMA CallStep ==
    MarlInv /\ (EvaluateProposal \/ EvaluateSelection) => MarlInv'
  <1> SUFFICES ASSUME MarlInv, EvaluateProposal \/ EvaluateSelection PROVE MarlInv'
    OBVIOUS
  <1>1. /\ eval = NoEval /\ UNCHANGED <<cfg, pc, why, gen, cands, work, used, calls, champion, audits, paired>>
        /\ pc \in {"minibatch", "select"}
    BY DEF EvaluateProposal, EvaluateSelection, Idle
  <1>2. TypeInv /\ Startable(cfg) /\ BooksKept
    BY <1>1, IdleFacts DEF BooksKept
  <1>3. TypeInv'
    BY <1>1, <1>2 DEF TypeInv
  <1>4. CASE EvaluateProposal
    <2> DEFINE rows == SampleRows(TrainRows(cfg), gen, Max({cfg.minibatch, 1}))
    <2>1. Max({cfg.minibatch, 1}) \in Nat \ {0}
      <3>1. cfg.minibatch \in Nat
        BY <1>2, ConfigFacts DEF TypeInv
      <3>2. Max({cfg.minibatch, 1}) \in Nat /\ 1 <= Max({cfg.minibatch, 1})
        BY <3>1, MaxOfTwo
      <3> QED BY <3>2
    <2>2. rows \in Seq(SplitTasks("seed_full_train")) /\ rows # <<>>
      BY <1>2, <2>1, SplitsTyped, StartableFacts, SampleTyped DEF TypeInv
    <2>3. "candidate_minibatch" \in TrainStages /\ "candidate_minibatch" \in Stages
      BY DEF TrainStages, Stages
    <2>4. rows \in Seq(SplitTasks("candidate_minibatch"))
      BY <1>2, <2>2, <2>3, SplitsTyped DEF TypeInv
    <2> HIDE DEF rows
    <2>5. Evaluate("candidate_minibatch", Len(cands) + 1, Head(work).id, rows)
          /\ pc' = Place["candidate_minibatch"]
      BY <1>1, <1>4 DEF rows, EvaluateProposal, Idle, Place
    <2> QED BY <1>1, <1>2, <1>3, <2>2, <2>3, <2>4, <2>5, BeginStep
  <1>5. CASE EvaluateSelection
    BY <1>2, SplitsTyped, StartableFacts, <1>1, <1>5, <1>3, BeginStep DEF TypeInv, Stages,
       EvaluateSelection, Idle, Place
  <1> QED BY <1>4, <1>5

LEMMA ProposerFailStep == MarlInv /\ ProposerFails => MarlInv'
  <1> SUFFICES ASSUME MarlInv, ProposerFails PROVE MarlInv'
    OBVIOUS
  <1>1. eval = NoEval /\ pc = "generation" /\ Fail("proposer") /\ UNCHANGED <<used, calls>>
    BY DEF ProposerFails, Idle
  <1>2. TypeInv /\ Startable(cfg)
    BY <1>1, IdleFacts
  <1>3. CallsInv' /\ "proposer" \in Whys \ {"none"}
    BY <1>1, CallsKept DEF BooksKept, Fail, Whys
  <1>4. /\ used' \in [train : Nat, heldout : Nat, proposer : Nat]
        /\ used'.train <= cfg.trainLimit /\ used'.heldout <= cfg.heldoutLimit
    BY <1>1, <1>2 DEF TypeInv
  <1> QED BY <1>1, <1>2, <1>3, <1>4, FailStep
-----------------------------------------------------------------------------
(* The rest of the budget, and the heldout pairs *)

LEMMA FillStep == MarlInv /\ FillTrainBudget => MarlInv'
  <1> SUFFICES ASSUME MarlInv, FillTrainBudget PROVE MarlInv'
    OBVIOUS
  <1>1. /\ eval = NoEval /\ pc = "fill"
        /\ UNCHANGED <<cfg, why, gen, cands, work, used, calls, champion, audits, paired>>
    BY DEF FillTrainBudget, Idle
  <1>2. TypeInv /\ Startable(cfg) /\ BooksKept
    BY <1>1, IdleFacts DEF BooksKept
  <1>3. CASE TrainRemaining > 0
    <2> DEFINE l == Len(TrainRows(cfg))
               row == TrainRows(cfg)[(audits % l) + 1]
    <2>1. /\ Evaluate("budget_audit", champion, cands[champion].id, Cyclic(TrainRows(cfg), audits))
          /\ pc' = pc
      BY <1>3 DEF FillTrainBudget
    <2>2. TrainRows(cfg) \in Seq(SplitTasks("seed_full_train")) /\ l \in Nat \ {0}
      BY <1>2, SplitsTyped, StartableFacts DEF TypeInv
    <2>3. audits \in Nat
      BY <1>2 DEF TypeInv
    <2> HIDE DEF l
    <2>4. (audits % l) + 1 \in 1 .. l
      BY <2>2, <2>3, ModBound
    <2>5. row \in SplitTasks("seed_full_train")
      BY <2>2, <2>4 DEF l
    <2>6. Cyclic(TrainRows(cfg), audits) = <<row>>
      BY DEF Cyclic, l
    <2> HIDE DEF row
    <2>7. "budget_audit" \in TrainStages /\ "budget_audit" \in Stages /\ pc' = Place["budget_audit"]
      BY <1>1, <2>1 DEF TrainStages, Stages, Place
    <2>8. <<row>> \in Seq(SplitTasks("budget_audit")) /\ <<row>> # <<>>
      BY <1>2, <2>5, <2>7, SplitsTyped DEF TypeInv
    <2>9. Evaluate("budget_audit", champion, cands[champion].id, <<row>>)
      BY <2>1, <2>6
    <2>10. TypeInv'
      BY <1>1, <1>2, <2>1 DEF TypeInv
    <2> QED BY <1>1, <1>2, <2>7, <2>8, <2>9, <2>10, BeginStep
  <1>4. CASE ~(TrainRemaining > 0)
    <2>1. pc' = "fetch" /\ eval' = eval
      BY <1>4 DEF FillTrainBudget
    <2>2. used.train = cfg.trainLimit
      <3>1. /\ TrainRemaining \in Nat /\ used.train + TrainRemaining = cfg.trainLimit
            /\ used.train \in Nat /\ cfg.trainLimit \in Nat
        BY <1>2, RemainingBound, ConfigFacts DEF TypeInv, Remaining
      <3> QED BY <1>4, <3>1
    <2>3. TypeInv'
      BY <1>1, <1>2, <2>1 DEF TypeInv, Pcs
    <2> QED BY <1>1, <1>2, <2>1, <2>2, <2>3, IdleStep
  <1> QED BY <1>3, <1>4

LEMMA FetchStep == MarlInv /\ FetchHeldout => MarlInv'
  <1> SUFFICES ASSUME MarlInv, FetchHeldout PROVE MarlInv'
    OBVIOUS
  <1>1. eval = NoEval /\ pc = "fetch" /\ UNCHANGED <<used, calls>>
    BY DEF FetchHeldout, Idle
  <1>2. TypeInv /\ Startable(cfg)
    BY <1>1, IdleFacts
  <1>3. ASSUME NEW reason \in {"heldout ids", "container"}, Fail(reason),
               reason = "heldout ids" => ~Unique(cfg.heldout)
        PROVE  MarlInv'
    BY <1>1, <1>3, CallsKept, <1>2, FailStep DEF BooksKept, Fail, Whys, TypeInv
  <1>4. ASSUME pc' = "heldout",
               UNCHANGED <<cfg, why, gen, cands, work, eval, champion, audits, paired>>
        PROVE  MarlInv'
    BY <1>1, <1>2, <1>4, IdleStep DEF TypeInv, Pcs, BooksKept, MarlInv, CauseInv
  <1> QED BY <1>3, <1>4 DEF FetchHeldout

LEMMA PairStep == MarlInv /\ HeldoutPair => MarlInv'
  <1> SUFFICES ASSUME MarlInv, HeldoutPair PROVE MarlInv'
    OBVIOUS
  <1>1. /\ eval = NoEval /\ pc = "heldout" /\ (ChampionTurn \/ PairAffordable)
        /\ UNCHANGED <<cfg, pc, why, gen, cands, work, used, calls, champion, audits, paired>>
    BY DEF HeldoutPair, Idle
  <1>2. TypeInv /\ Startable(cfg) /\ BooksKept /\ paired.turns \in Nat /\ used.heldout = paired.turns
    BY <1>1, IdleFacts DEF BooksKept
  <1>3. TypeInv'
    BY <1>1, <1>2 DEF TypeInv
  <1> DEFINE n == paired.turns \div 2
  <1>4. n \in Nat
    BY <1>2
  <1>5. Nth(n) \in SplitTasks("heldout") /\ Cyclic(cfg.heldout, n) = <<Nth(n)>>
    BY <1>2, <1>4, NthTyped DEF TypeInv
  <1>6. <<Nth(n)>> \in Seq(SplitTasks("heldout")) /\ <<Nth(n)>> # <<>>
    BY <1>5
  <1>7. "heldout" \in Stages /\ pc' = Place["heldout"]
    BY <1>1 DEF Stages, Place
  <1>8. cfg.exact => used.train = cfg.trainLimit
    BY <1>1 DEF MarlInv, CauseInv
  <1>9. paired.turns % 2 = 0 => paired.turns + 2 <= cfg.heldoutLimit
    <2>1. /\ HeldoutRemaining \in Nat /\ used.heldout + HeldoutRemaining = cfg.heldoutLimit
          /\ cfg.heldoutLimit \in Nat
      BY <1>2, RemainingBound, ConfigFacts DEF TypeInv, Remaining
    <2>2. paired.turns % 2 = 0 => HeldoutRemaining >= 2
      BY <1>1, <1>2 DEF ChampionTurn, PairAffordable
    <2> QED BY <1>2, <2>1, <2>2
  <1>10. PICK index, id : Evaluate("heldout", index, id, Cyclic(cfg.heldout, n))
    BY DEF HeldoutPair
  <1>11. Evaluate("heldout", index, id, <<Nth(n)>>)
    BY <1>5, <1>10
  <1>12. "heldout" # "seed_full_train" /\ why' = why /\ pc # "failed"
    BY <1>1
  <1> QED BY <1>1, <1>2, <1>3, <1>6, <1>7, <1>8, <1>9, <1>11, <1>12, BeginStep

LEMMA Halves ==
    ASSUME NEW n \in Nat
    PROVE  /\ n % 2 \in {0, 1} /\ n \div 2 \in Nat
           /\ n % 2 = 0 => /\ (n + 1) \div 2 = n \div 2 /\ (n + 2) \div 2 = n \div 2 + 1
                           /\ (n + 1) % 2 = 1 /\ n = 2 * (n \div 2)
           /\ n % 2 = 1 => /\ (n + 1) \div 2 = n \div 2 + 1 /\ (n + 2) \div 2 = n \div 2 + 1
                           /\ (n + 1) % 2 = 0
  OBVIOUS

\* A pair's half is scored: its one row was affordable.
LEMMA PairScoredStep == MarlInv /\ HeldoutScored => MarlInv'
  <1> SUFFICES ASSUME MarlInv, HeldoutScored PROVE MarlInv'
    OBVIOUS
  <1>1. /\ eval # NoEval /\ eval' = NoEval /\ eval.stage = "heldout"
        /\ Len(eval.batch) = Len(eval.rows) \/ Remaining("heldout") = 0
        /\ UNCHANGED <<cfg, pc, why, gen, cands, work, used, calls, champion, audits>>
    BY DEF HeldoutScored, BatchOver, Evaluating
  <1>2. TypeInv /\ IsEval(eval) /\ Startable(cfg) /\ pc = "heldout" /\ why = "none"
        /\ Len(eval.batch) \in Nat /\ DOMAIN eval.batch = 1 .. Len(eval.batch)
    BY <1>1, EvalFacts DEF Place
  <1> DEFINE n == paired.turns
             h == n \div 2
  <1>3. n \in Nat /\ paired \in [turns : Nat, seed : Seq(Tasks), champion : Seq(Tasks)]
        /\ cfg.heldoutLimit \in Nat /\ used.heldout \in Nat
    BY <1>2, ConfigFacts DEF TypeInv
  <1>4. /\ used.heldout = n + Len(eval.batch)
        /\ Len(paired.seed) = (n + 1) \div 2 /\ Len(paired.champion) = h
        /\ \A i \in DOMAIN paired.seed : paired.seed[i] = Nth(i - 1)
        /\ \A i \in DOMAIN paired.champion : paired.champion[i] = Nth(i - 1)
        /\ n % 2 = 1 => n + 1 <= cfg.heldoutLimit
        /\ eval.rows = <<Nth(h)>>
        /\ n % 2 = 0 => n + 2 <= cfg.heldoutLimit
    BY <1>1, <1>2 DEF MarlInv, PairInv, InFlight
  <1>5. Len(eval.batch) = 1
    <2>1. Len(eval.batch) <= Len(eval.rows) /\ Len(eval.rows) = 1
      BY <1>2, <1>4 DEF IsEval
    <2>2. Remaining("heldout") = 0 => used.heldout = cfg.heldoutLimit
      BY <1>2, RemainingBound, <1>3
    <2>3. n % 2 \in {0, 1}
      BY <1>3, Halves
    <2>4. Len(eval.batch) \in {0, 1}
      <3>1. \A x \in Nat : x <= 1 => x \in {0, 1}
        OBVIOUS
      <3>2. Len(eval.batch) \in Nat /\ Len(eval.batch) <= 1
        BY <1>2, <2>1
      <3> QED BY <3>1, <3>2
    <2>5. ASSUME Len(eval.batch) = 0 PROVE FALSE
      <3>1. Len(eval.batch) # Len(eval.rows)
        BY <2>1, <2>5
      <3>2. used.heldout = cfg.heldoutLimit /\ used.heldout = n
        BY <1>1, <1>3, <1>4, <2>2, <2>5, <3>1
      <3>3. cfg.heldoutLimit >= n + 1
        <4>1. CASE n % 2 = 0
          BY <1>3, <1>4, <4>1
        <4>2. CASE n % 2 = 1
          BY <1>3, <1>4, <4>2
        <4> QED BY <2>3, <4>1, <4>2
      <3> HIDE DEF n
      <3> QED BY <1>3, <3>2, <3>3
    <2> QED BY <2>4, <2>5
  <1>6. eval.batch[1].task = Nth(h)
    BY <1>2, <1>4, <1>5 DEF IsEval
  <1> DEFINE tasks == [i \in DOMAIN eval.batch |-> eval.batch[i].task]
  <1>7. /\ paired' = [turns    |-> n + 1,
                      seed     |-> IF ChampionTurn THEN paired.seed ELSE paired.seed \o tasks,
                      champion |-> IF ChampionTurn THEN paired.champion \o tasks ELSE paired.champion]
    BY DEF HeldoutScored
  <1>8. tasks = <<Nth(h)>>
    BY <1>2, <1>5, <1>6
  <1> HIDE DEF tasks
  <1>9. h \in Nat /\ Nth(h) \in Tasks
    BY <1>3, Halves, <1>2, SplitsTyped, NthTyped DEF TypeInv, Stages
  <1> DEFINE nth == Nth(h)
  <1>10. ASSUME NEW s \in Seq(Tasks), Len(s) = h, \A i \in DOMAIN s : s[i] = Nth(i - 1)
         PROVE  /\ s \o tasks \in Seq(Tasks) /\ Len(s \o tasks) = h + 1
                /\ \A i \in DOMAIN (s \o tasks) : (s \o tasks)[i] = Nth(i - 1)
    <2>1. s \o tasks \in Seq(Tasks) /\ Len(s \o tasks) = h + 1 /\ DOMAIN (s \o tasks) = 1 .. (h + 1)
      BY <1>8, <1>9, <1>10
    <2>2. ASSUME NEW i \in 1 .. (h + 1) PROVE (s \o tasks)[i] = Nth(i - 1)
      <3>1. CASE i = h + 1
        BY <1>8, <1>9, <1>10, <3>1
      <3>2. CASE i # h + 1
        BY <1>8, <1>9, <1>10, <3>2
      <3> QED BY <3>1, <3>2
    <2> QED BY <2>1, <2>2
  <1> DEFINE Sides == [turns : Nat, seed : Seq(Tasks), champion : Seq(Tasks)]
  <1>11. ASSUME n % 2 = 1 PROVE PairInv' /\ paired' \in Sides
    <2>0. paired' = [turns |-> n + 1, seed |-> paired.seed, champion |-> paired.champion \o tasks]
      BY <1>7, <1>11 DEF ChampionTurn
    <2>1. /\ paired'.turns = n + 1 /\ paired'.seed = paired.seed
          /\ paired'.champion = paired.champion \o tasks
          /\ paired' \in Sides
      <3>1. paired.champion \o tasks \in Seq(Tasks)
        BY <1>3, <1>4, <1>10
      <3>2. paired.seed \in Seq(Tasks) /\ n + 1 \in Nat
        BY <1>3
      <3> QED BY <2>0, <3>1, <3>2
    <2>2. /\ (n + 1) % 2 = 0 /\ (n + 1) \div 2 = h + 1 /\ (n + 2) \div 2 = h + 1
      BY <1>3, <1>11, Halves
    <2>3. Len(paired'.champion) = h + 1 /\ \A i \in DOMAIN paired'.champion : paired'.champion[i] = Nth(i - 1)
      <3>1. paired.champion \in Seq(Tasks)
        BY <1>3
      <3>2. /\ Len(paired.champion \o tasks) = h + 1
            /\ \A i \in DOMAIN (paired.champion \o tasks) : (paired.champion \o tasks)[i] = Nth(i - 1)
        BY <1>4, <1>10, <3>1
      <3>3. paired'.champion = paired.champion \o tasks
        BY <2>1
      <3> HIDE DEF Sides, h
      <3> QED BY <3>2, <3>3
    <2>4. Len(paired'.seed) = (paired'.turns + 1) \div 2 /\ Len(paired'.champion) = paired'.turns \div 2
          /\ paired'.turns % 2 = 0
      BY <1>3, <1>4, <2>1, <2>2, <2>3
    <2>5. PairInv'
      <3>1. used'.heldout = paired'.turns + InFlight'
        BY <1>1, <1>3, <1>4, <1>5, <2>1 DEF InFlight
      <3>2. pc' = "heldout" /\ \A k : Nth(k)' = Nth(k)
        BY <1>1, <1>2, SplitsKept
      <3> QED BY <1>1, <1>4, <2>1, <2>3, <2>4, <3>1, <3>2 DEF PairInv
    <2> QED BY <2>1, <2>5
  <1>12. ASSUME n % 2 = 0 PROVE PairInv' /\ paired' \in Sides
    <2>0. paired' = [turns |-> n + 1, seed |-> paired.seed \o tasks, champion |-> paired.champion]
      <3>1. ~ChampionTurn
        BY <1>12 DEF ChampionTurn
      <3> QED BY <1>7, <3>1
    <2>1. /\ paired'.turns = n + 1 /\ paired'.champion = paired.champion
          /\ paired'.seed = paired.seed \o tasks
      BY <2>0
    <2>2. /\ (n + 1) % 2 = 1 /\ (n + 1) \div 2 = h /\ (n + 2) \div 2 = h + 1 /\ Len(paired.seed) = h
      BY <1>3, <1>4, <1>12, Halves
    <2>3. Len(paired'.seed) = h + 1 /\ \A i \in DOMAIN paired'.seed : paired'.seed[i] = Nth(i - 1)
      <3>1. /\ paired.seed \o tasks \in Seq(Tasks) /\ Len(paired.seed \o tasks) = h + 1
            /\ \A i \in DOMAIN (paired.seed \o tasks) : (paired.seed \o tasks)[i] = Nth(i - 1)
        BY <1>3, <1>4, <1>10, <2>2
      <3> QED BY <2>1, <3>1
    <2>4. Len(paired'.seed) = (paired'.turns + 1) \div 2 /\ Len(paired'.champion) = paired'.turns \div 2
          /\ paired'.turns % 2 = 1 /\ paired'.turns + 1 <= cfg.heldoutLimit
      <3>1. (n + 1) + 1 = n + 2
        BY <1>3
      <3>2. n + 2 <= cfg.heldoutLimit
        BY <1>4, <1>12
      <3>3. Len(paired'.seed) = (paired'.turns + 1) \div 2
        BY <2>1, <2>2, <2>3, <3>1
      <3>4. Len(paired'.champion) = paired'.turns \div 2
        BY <1>4, <2>1, <2>2
      <3>5. paired'.turns % 2 = 1 /\ paired'.turns + 1 <= cfg.heldoutLimit
        BY <2>1, <2>2, <3>1, <3>2
      <3> QED BY <3>3, <3>4, <3>5
    <2>5. PairInv'
      <3>1. used'.heldout = paired'.turns + InFlight'
        BY <1>1, <1>3, <1>4, <1>5, <2>1 DEF InFlight
      <3>2. pc' = "heldout" /\ \A k : Nth(k)' = Nth(k)
        BY <1>1, <1>2, SplitsKept
      <3> QED BY <1>1, <1>4, <2>1, <2>3, <2>4, <3>1, <3>2 DEF PairInv
    <2>6. paired' \in Sides
      <3>1. paired.seed \o tasks \in Seq(Tasks)
        BY <1>3, <1>4, <1>10, <2>2
      <3>2. paired.champion \in Seq(Tasks) /\ n + 1 \in Nat
        BY <1>3
      <3> QED BY <2>0, <3>1, <3>2
    <2> HIDE DEF Sides
    <2> QED BY <2>5, <2>6
  <1>13. PairInv' /\ paired' \in Sides
    BY <1>3, Halves, <1>11, <1>12
  <1>14. TypeInv'
    BY <1>1, <1>2, <1>13 DEF TypeInv
  <1>15. StartInv' /\ EvalInv' /\ BatchInv'
    BY <1>1, <1>2 DEF MarlInv, StartInv, Startable, EvalInv, BatchInv
  <1>16. CallsInv'
    BY <1>1, SplitsKept DEF MarlInv, CallsInv
  <1>17. CauseInv'
    BY <1>1, <1>2, SplitsKept DEF MarlInv, CauseInv
  <1> QED BY <1>13, <1>14, <1>15, <1>16, <1>17 DEF MarlInv

LEMMA ConcludeStep == MarlInv /\ Conclude => MarlInv'
  <1> SUFFICES ASSUME MarlInv, Conclude PROVE MarlInv'
    OBVIOUS
  <1>1. eval = NoEval /\ pc = "heldout" /\ ~ChampionTurn /\ ~PairAffordable /\ UNCHANGED <<used, calls>>
    BY DEF Conclude, Idle
  <1>2. TypeInv /\ Startable(cfg) /\ paired.turns \in Nat /\ used.heldout = paired.turns
    BY <1>1, IdleFacts
  <1>3. /\ HeldoutRemaining \in Nat /\ used.heldout + HeldoutRemaining = cfg.heldoutLimit
        /\ cfg.heldoutLimit \in Nat
    BY <1>2, RemainingBound, ConfigFacts DEF TypeInv, Remaining
  <1>4. paired.turns % 2 = 0 /\ ~(HeldoutRemaining >= 2)
    BY <1>1, <1>2, Halves DEF ChampionTurn, PairAffordable
  <1>5. paired.turns + 2 > cfg.heldoutLimit
    BY <1>2, <1>3, <1>4
  <1>6. ASSUME cfg.exact, ~Exact, Fail("budget") PROVE MarlInv'
    <2>1. CallsInv' /\ "budget" \in Whys \ {"none"}
      BY <1>1, <1>6, CallsKept DEF BooksKept, Fail, Whys
    <2>2. /\ used' \in [train : Nat, heldout : Nat, proposer : Nat]
          /\ used'.train <= cfg.trainLimit /\ used'.heldout <= cfg.heldoutLimit
      BY <1>1, <1>2 DEF TypeInv
    <2>3. ~cfg.compareSeed
      <3> SUFFICES ASSUME cfg.compareSeed PROVE FALSE
        OBVIOUS
      <3>1. cfg.heldoutLimit % 2 = 0
        BY <1>2, StartableFacts DEF TypeInv
      <3>2. used.train = cfg.trainLimit
        BY <1>1, <1>6 DEF MarlInv, CauseInv
      <3>3. HeldoutRemaining = 0 \/ HeldoutRemaining = 1
        BY <1>3, <1>4
      <3>4. HeldoutRemaining # 1
        <4> SUFFICES ASSUME HeldoutRemaining = 1 PROVE FALSE
          OBVIOUS
        <4>1. cfg.heldoutLimit = paired.turns + 1
          BY <1>2, <1>3
        <4>2. (paired.turns + 1) % 2 = 1
          BY <1>2, <1>4, Halves
        <4> QED BY <3>1, <4>1, <4>2
      <3> QED BY <1>2, <1>3, <1>6, <3>2, <3>3, <3>4 DEF Exact
    <2> QED BY <1>1, <1>2, <1>6, <2>1, <2>2, <2>3, FailStep
  <1>7. ASSUME pc' = "done", UNCHANGED <<cfg, why, gen, cands, work, eval, champion, audits, paired>>
        PROVE  MarlInv'
    BY <1>1, <1>2, <1>7, <1>4, <1>5, IdleStep DEF TypeInv, Pcs, BooksKept
  <1> QED BY <1>6, <1>7 DEF Conclude

-----------------------------------------------------------------------------
(* The properties *)

LEMMA StutterStep == MarlInv /\ UNCHANGED vars => MarlInv'
  <1> SUFFICES ASSUME MarlInv, UNCHANGED vars PROVE MarlInv'
    OBVIOUS
  <1>1. UNCHANGED <<cfg, pc, why, gen, cands, work, eval, used, calls, champion, audits, paired>>
    BY DEF vars
  <1>2. TypeInv' /\ StartInv'
    BY <1>1 DEF MarlInv, TypeInv, StartInv, Startable
  <1>3. EvalInv'
    BY <1>1, SplitsKept DEF MarlInv, EvalInv, IsEval
  <1>4. CallsInv' /\ CauseInv'
    BY <1>1, SplitsKept DEF MarlInv, CallsInv, CauseInv
  <1>5. PairInv'
    BY <1>1, SplitsKept DEF MarlInv, PairInv, InFlight
  <1>6. BatchInv'
    BY <1>1, SplitsKept DEF MarlInv, BatchInv
  <1> QED BY <1>2, <1>3, <1>4, <1>5, <1>6 DEF MarlInv

LEMMA StepsSound == MarlInv /\ [Next]_vars => MarlInv'
  BY LoadStep, RowStep, RowFailStep, ScoreFailStep, ScoredStep, LoopStep, CallStep,
     ProposerFailStep, FillStep, FetchStep, PairStep, PairScoredStep, ConcludeStep, StutterStep
  DEF Next

LEMMA InvIsFair == MarlInv => ComparisonIsFair
  <1> SUFFICES ASSUME MarlInv PROVE ComparisonIsFair
    OBVIOUS
  <1>1. TypeInv /\ cfg.heldoutLimit \in Nat /\ cfg.trainLimit \in Nat
    BY ConfigFacts DEF MarlInv, TypeInv
  <1>2. TypeOK
    <2>1. used.train \in 0 .. cfg.trainLimit /\ used.heldout \in 0 .. cfg.heldoutLimit
      BY <1>1 DEF TypeInv
    <2>2. cfg \in Configs /\ champion \in 0 .. Len(cands) /\ pc \in Pcs /\ why \in Whys
      BY <1>1 DEF TypeInv
    <2> QED BY <2>1, <2>2 DEF TypeOK, Pcs, Whys
  <1>3. UniqueRollouts
    BY DEF MarlInv, CallsInv, UniqueRollouts
  <1>4. SplitsStayApart
    <2>1. ASSUME NEW stages, NEW t \in TasksOf(stages)
          PROVE  \E r \in calls : r.stage \in stages /\ r.task = t /\ r.stage \in Stages
                                  /\ t \in SplitTasks(r.stage) /\ Startable(cfg)
      BY <2>1 DEF TasksOf, MarlInv, CallsInv, StartInv
    <2>2. TasksOf(TrainStages) \cap TasksOf({"selection"}) = {}
      <3> SUFFICES ASSUME NEW t \in TasksOf(TrainStages), t \in TasksOf({"selection"}) PROVE FALSE
        OBVIOUS
      <3>1. t \in SplitTasks("seed_full_train") /\ t \in SplitTasks("selection")
        <4>1. PICK r \in calls : r.stage \in TrainStages /\ t \in SplitTasks(r.stage)
          BY <2>1
        <4>2. PICK q \in calls : q.stage \in {"selection"} /\ t \in SplitTasks(q.stage)
          BY <2>1
        <4>3. SplitTasks(r.stage) = SplitTasks("seed_full_train")
          BY <4>1 DEF SplitTasks, TrainStages
        <4> QED BY <4>1, <4>2, <4>3
      <3>2. "seed_full_train" \in TrainStages
        BY DEF TrainStages
      <3> QED BY <1>1, <3>1, <3>2, SplitsTyped DEF TypeInv
    <2>3. cfg.disjoint => TasksOf(TrainStages \cup {"selection"}) \cap TasksOf({"heldout"}) = {}
      <3> SUFFICES ASSUME cfg.disjoint, NEW t \in TasksOf(TrainStages \cup {"selection"}),
                          t \in TasksOf({"heldout"})
                   PROVE  FALSE
        OBVIOUS
      <3>1. Startable(cfg) /\ t \in SplitTasks("heldout")
        BY <2>1
      <3>2. PICK r \in calls : r.stage \in TrainStages \cup {"selection"} /\ t \in SplitTasks(r.stage)
        BY <2>1
      <3>3. r.stage \in Stages \ {"heldout"}
        BY <3>2 DEF Stages, TrainStages
      <3> QED BY <1>1, <3>1, <3>2, <3>3, StartableFacts DEF TypeInv
    <2> QED BY <2>2, <2>3 DEF SplitsStayApart, TrainStages
  <1>5. MatchedHeldout
    <2> SUFFICES ASSUME pc = "done"
                 PROVE  paired.seed = paired.champion /\ Len(paired.seed) = cfg.heldoutLimit \div 2
      BY DEF MatchedHeldout
    <2> DEFINE n == paired.turns
    <2>1. /\ n \in Nat /\ n % 2 = 0 /\ n + 2 > cfg.heldoutLimit
          /\ Len(paired.seed) = (n + 1) \div 2 /\ Len(paired.champion) = n \div 2
          /\ \A i \in DOMAIN paired.seed : paired.seed[i] = Nth(i - 1)
          /\ \A i \in DOMAIN paired.champion : paired.champion[i] = Nth(i - 1)
          /\ paired.seed \in Seq(Tasks) /\ paired.champion \in Seq(Tasks)
      BY <1>1 DEF MarlInv, PairInv, TypeInv
    <2>2. (n + 1) \div 2 = n \div 2 /\ n \div 2 \in Nat
      BY <2>1, Halves
    <2>3. paired.seed = paired.champion
      BY <2>1, <2>2
    <2>4. n <= cfg.heldoutLimit
      BY <1>1, EvalFacts, IdleFacts DEF TypeInv
    <2>5. cfg.heldoutLimit = n \/ cfg.heldoutLimit = n + 1
      <3>1. n \in Nat /\ cfg.heldoutLimit \in Nat /\ n + 2 > cfg.heldoutLimit /\ n <= cfg.heldoutLimit
        BY <1>1, <2>1, <2>4
      <3> HIDE DEF n
      <3> QED BY <3>1
    <2>6. Len(paired.seed) = cfg.heldoutLimit \div 2
      <3>1. Len(paired.seed) = n \div 2 /\ (n + 1) \div 2 = n \div 2
        BY <2>1, <2>2
      <3> HIDE DEF n
      <3> QED BY <2>5, <3>1
    <2> QED BY <2>3, <2>6
  <1> QED BY <1>2, <1>3, <1>4, <1>5 DEF ComparisonIsFair

LEMMA InvHasCause == MarlInv => FailsOnlyForCause
  <1> SUFFICES ASSUME MarlInv PROVE FailsOnlyForCause
    OBVIOUS
  <1>1. PaidRunFinishes
    <2>1. why \in Whys /\ used.train \in Nat
      BY DEF MarlInv, TypeInv
    <2>2. why = "config" => used.train = 0
      BY DEF MarlInv, StartInv
    <2>3. /\ pc = "failed" => why # "none"
          /\ why = "heldout ids" => ~Unique(cfg.heldout)
          /\ why = "budget" => ~cfg.compareSeed
      BY DEF MarlInv, CauseInv
    <2> SUFFICES ASSUME pc = "failed", used.train > 0, Unique(cfg.heldout), cfg.compareSeed
                 PROVE  why \in {"container", "proposer", "score"}
      BY DEF PaidRunFinishes
    <2>4. used.train # 0
      BY <2>1
    <2> QED BY <2>1, <2>2, <2>3, <2>4 DEF Whys
  <1>2. ScoreFailsOnlyWhenCut
    BY DEF MarlInv, CauseInv, ScoreFailsOnlyWhenCut, Cut
  <1> QED BY <1>1, <1>2 DEF FailsOnlyForCause

(* The heldout comparison of execute_marl_promptopt (runtime.rs) is fair for *)
(* every configuration: matched pairs, as many as the budget pays for, on    *)
(* tasks the search never rolled out when the splits must be disjoint; no    *)
(* rollout id twice; within both budgets.                                    *)
THEOREM MarlComparisonIsFair == Spec => []ComparisonIsFair
  BY InitSound, StepsSound, InvIsFair, PTL DEF Spec

(* A run that has paid for rollouts fails only because the container, the    *)
(* proposer or a batch's answers did, and with a truthful container a batch  *)
(* cannot be scored only where the end of the budget cut a row's arms.       *)
THEOREM MarlFailsForCause == Spec => []FailsOnlyForCause
  BY InitSound, StepsSound, InvHasCause, PTL DEF Spec
-----------------------------------------------------------------------------
(* Sums and least elements *)
\* it sums g over every set of at most k of the places S.
Sums(it, g, S, k) ==
    it = [s \in {t \in SUBSET S : Cardinality(t) <= k} |->
            IF s = {} THEN 0 ELSE g[CHOOSE x \in s : TRUE] + it[s \ {CHOOSE x \in s : TRUE}]]

\* A sum is defined for sets of each size: by the least counterexample.
LEMMA SumsExist ==
  ASSUME NEW g, NEW S, IsFiniteSet(S), NEW n \in Nat
  PROVE  \E it : Sums(it, g, S, n)
  <1> DEFINE T == {k \in Nat : ~\E it : Sums(it, g, S, k)}
             Upto(k) == {t \in SUBSET S : Cardinality(t) <= k}
             Of(s) == CHOOSE x \in s : TRUE
  <1> SUFFICES ASSUME T # {} PROVE FALSE
    OBVIOUS
  <1>1. PICK k \in T : \A y \in T : k <= y
    <2> T \subseteq Nat
      OBVIOUS
    <2> HIDE DEF T
    <2> QED BY LeastOf
  <1>2. \A s \in SUBSET S : IsFiniteSet(s) /\ Cardinality(s) \in Nat /\ (Cardinality(s) = 0 <=> s = {})
    BY FS_Subset, FS_CardinalityType, FS_EmptySet
  <1>3. \A s \in SUBSET S : s # {} =>
          /\ Of(s) \in s /\ s \ {Of(s)} \in SUBSET S
          /\ Cardinality(s \ {Of(s)}) = Cardinality(s) - 1
    <2> SUFFICES ASSUME NEW s \in SUBSET S, s # {}
                 PROVE  Of(s) \in s /\ Cardinality(s \ {Of(s)}) = Cardinality(s) - 1
      OBVIOUS
    <2>1. Of(s) \in s
      OBVIOUS
    <2> HIDE DEF Of
    <2> QED BY <1>2, <2>1, FS_RemoveElement
  <1> HIDE DEF Of
  <1>4. k # 0
    <2> SUFFICES ASSUME k = 0 PROVE FALSE
      OBVIOUS
    <2> DEFINE f == [s \in Upto(0) |-> 0]
    <2>1. \A s \in Upto(0) : s = {}
      BY <1>2
    <2>2. f = [s \in Upto(0) |-> IF s = {} THEN 0 ELSE g[Of(s)] + f[s \ {Of(s)}]]
      BY <2>1
    <2>3. Sums(f, g, S, 0)
      BY <2>2 DEF Sums, Of
    <2> HIDE DEF f
    <2> QED BY <1>1, <2>3
  <1>5. k \in Nat /\ k - 1 \in Nat /\ k - 1 \notin T
    BY <1>1, <1>4
  <1>6. PICK f : Sums(f, g, S, k - 1)
    BY <1>5
  <1>7. \A s \in Upto(k - 1) : f[s] = IF s = {} THEN 0 ELSE g[Of(s)] + f[s \ {Of(s)}]
    BY <1>6 DEF Sums, Of
  <1> DEFINE h == [s \in Upto(k) |-> IF s = {} THEN 0 ELSE g[Of(s)] + f[s \ {Of(s)}]]
  <1>8. ASSUME NEW s \in Upto(k), s # {} PROVE f[s \ {Of(s)}] = h[s \ {Of(s)}]
    <2> DEFINE r == s \ {Of(s)}
    <2>1. r \in SUBSET S /\ Cardinality(r) = Cardinality(s) - 1 /\ Cardinality(s) \in Nat
      BY <1>2, <1>3, <1>8
    <2> HIDE DEF r
    <2>2. r \in Upto(k - 1) /\ r \in Upto(k)
      BY <1>5, <2>1
    <2>3. h[r] = f[r]
      BY <1>7, <2>2
    <2> QED BY <2>3 DEF r
  <1>9. h = [s \in Upto(k) |-> IF s = {} THEN 0 ELSE g[Of(s)] + h[s \ {Of(s)}]]
    BY <1>8
  <1> HIDE DEF h
  <1>10. Sums(h, g, S, k)
    BY <1>9 DEF Sums, Of
  <1> QED BY <1>1, <1>10

\* A sum of integers is an integer.
LEMMA SumIsInteger ==
  ASSUME NEW S, IsFiniteSet(S), NEW g, DOMAIN g = S, \A i \in S : g[i] \in Int
  PROVE  SumFunction(g) \in Int
  <1> DEFINE Of(s) == CHOOSE x \in s : TRUE
             P(it) == it = [s \in SUBSET S |-> IF s = {} THEN 0 ELSE g[Of(s)] + it[s \ {Of(s)}]]
             f == CHOOSE it : P(it)
  <1>1. SumFunction(g) = f[S]
    BY DEF SumFunction, SumFunctionOnSet, FoldFunctionOnSet, MapThenFoldSet
  <1>2. \A s \in SUBSET S : IsFiniteSet(s) /\ Cardinality(s) \in Nat /\ Cardinality(s) <= Cardinality(S)
                           /\ (Cardinality(s) = 0 <=> s = {})
    BY FS_Subset, FS_CardinalityType, FS_EmptySet
  <1>3. \E it : P(it)
    <2>1. PICK it : Sums(it, g, S, Cardinality(S))
      BY SumsExist, FS_CardinalityType
    <2>2. {t \in SUBSET S : Cardinality(t) <= Cardinality(S)} = SUBSET S
      BY <1>2
    <2>3. P(it)
      BY <2>1, <2>2 DEF Sums
    <2> HIDE DEF P
    <2> QED BY <2>3
  <1>4. P(f)
    <2> HIDE DEF P
    <2> QED BY <1>3
  <1> HIDE DEF f
  <1>5. \A s \in SUBSET S : s # {} =>
          /\ Of(s) \in s /\ s \ {Of(s)} \in SUBSET S
          /\ Cardinality(s \ {Of(s)}) = Cardinality(s) - 1
    <2> SUFFICES ASSUME NEW s \in SUBSET S, s # {}
                 PROVE  Of(s) \in s /\ Cardinality(s \ {Of(s)}) = Cardinality(s) - 1
      OBVIOUS
    <2>1. Of(s) \in s
      OBVIOUS
    <2> HIDE DEF Of
    <2> QED BY <1>2, <2>1, FS_RemoveElement
  <1>6. \A s \in SUBSET S : f[s] = IF s = {} THEN 0 ELSE g[Of(s)] + f[s \ {Of(s)}]
    BY <1>4
  <1> HIDE DEF Of
  <1> DEFINE T == {k \in Nat : \E s \in SUBSET S : Cardinality(s) = k /\ f[s] \notin Int}
  <1>7. T = {}
    <2> SUFFICES ASSUME T # {} PROVE FALSE
      OBVIOUS
    <2>1. PICK k \in T : \A y \in T : k <= y
      <3> T \subseteq Nat
        OBVIOUS
      <3> HIDE DEF T
      <3> QED BY LeastOf
    <2>2. PICK s \in SUBSET S : Cardinality(s) = k /\ f[s] \notin Int
      BY <2>1
    <2>3. s # {}
      BY <1>6, <2>2
    <2> DEFINE r == s \ {Of(s)}
    <2>4. Of(s) \in S /\ r \in SUBSET S /\ Cardinality(r) = k - 1 /\ Cardinality(r) \in Nat /\ k \in Nat
      BY <1>2, <1>5, <2>2, <2>3
    <2>5. f[s] = g[Of(s)] + f[r]
      BY <1>6, <2>3
    <2> HIDE DEF r
    <2>6. f[r] \in Int
      <3>1. k - 1 \notin T
        BY <2>1, <2>4
      <3> QED BY <2>4, <3>1
    <2> HIDE DEF T
    <2> QED BY <2>2, <2>4, <2>5, <2>6
  <1> QED BY <1>1, <1>2, <1>7

\* A finite set of integers has a least one.
LEMMA LeastInteger ==
  ASSUME NEW S, IsFiniteSet(S), S # {}, S \subseteq Int
  PROVE  Min(S) \in S /\ \A y \in S : Min(S) <= y
  <1> DEFINE Low(s) == \E x \in s : \A y \in s : x <= y
             T == {k \in Nat : \E s \in SUBSET S : s # {} /\ Cardinality(s) = k /\ ~Low(s)}
  <1>1. T = {}
    <2> SUFFICES ASSUME T # {} PROVE FALSE
      OBVIOUS
    <2>1. PICK k \in T : \A y \in T : k <= y
      <3> T \subseteq Nat
        OBVIOUS
      <3> HIDE DEF T
      <3> QED BY LeastOf
    <2>2. PICK s \in SUBSET S : s # {} /\ Cardinality(s) = k /\ ~Low(s)
      BY <2>1
    <2>3. PICK x \in s : TRUE
      BY <2>2
    <2> DEFINE r == s \ {x}
    <2>4. r \in SUBSET S /\ Cardinality(r) = k - 1 /\ Cardinality(r) \in Nat /\ k \in Nat
      BY <2>2, <2>3, FS_Subset, FS_RemoveElement, FS_CardinalityType
    <2>5. r # {} => Low(r)
      <3>1. k - 1 \notin T
        BY <2>1, <2>4
      <3> HIDE DEF Low, r
      <3> QED BY <2>4, <3>1
    <2>6. Low(s)
      <3>1. CASE r = {}
        BY <2>3, <3>1
      <3>2. CASE r # {}
        <4>1. PICK m \in r : \A y \in r : m <= y
          BY <2>5, <3>2
        <4>2. x \in Int /\ m \in Int /\ \A y \in s : y \in Int /\ (y = x \/ m <= y)
          BY <2>3, <4>1
        <4>3. CASE x <= m BY <2>3, <4>2, <4>3
        <4>4. CASE ~(x <= m) BY <4>1, <4>2, <4>4
        <4> QED BY <4>3, <4>4
      <3> QED BY <3>1, <3>2
    <2> QED BY <2>2, <2>6
  <1>2. Low(S)
    <2>1. Cardinality(S) \in Nat
      BY FS_CardinalityType
    <2> HIDE DEF Low
    <2> QED BY <1>1, <2>1
  <1> QED BY <1>2 DEF Min
-----------------------------------------------------------------------------
(* The order of the first keys *)
\* a is ahead of b on one of the first n keys and level before it.
Ahead(a, b, n) == \E i \in 1 .. n : a[i] > b[i] /\ \A j \in 1 .. (i - 1) : a[j] = b[j]

Keys(a, n) == \A i \in 1 .. n : a[i] \in Int

\* Ahead on the first keys decides, whatever the others are.
LEMMA AheadDecides ==
  ASSUME NEW n \in Nat, NEW l \in Nat, n <= l,
         NEW a, DOMAIN a = 1 .. l, Keys(a, n), NEW b, DOMAIN b = 1 .. l, Keys(b, n)
  PROVE  /\ Ahead(a, b, n) => LexCompare(a, b) = 1
         /\ Ahead(b, a, n) => LexCompare(a, b) = -1
         /\ n = l /\ LexCompare(a, b) = 1 => Ahead(a, b, n)
  <1> DEFINE d == {i \in DOMAIN a : a[i] # NoMetric /\ b[i] # NoMetric /\ a[i] # b[i]}
             m == Min(d)
  <1>1. \A i \in 1 .. n : i \in 1 .. l /\ a[i] \in Int /\ b[i] \in Int /\ a[i] # NoMetric /\ b[i] # NoMetric
    BY EnvelopeAssumption DEF Keys
  <1>2. d # {} => m \in d /\ \A i \in d : m <= i
    <2>1. d \subseteq Nat /\ d \subseteq 1 .. l
      OBVIOUS
    <2> HIDE DEF d
    <2>2. d # {} => \E i \in d : \A j \in d : i <= j
      BY <2>1, LeastOf
    <2> QED BY <2>2 DEF Min
  <1>3. LexCompare(a, b) = IF d = {} THEN 0 ELSE IF a[m] > b[m] THEN 1 ELSE -1
    BY DEF LexCompare
  <1>4. ASSUME NEW i \in 1 .. n, a[i] # b[i], \A j \in 1 .. (i - 1) : a[j] = b[j]
        PROVE  d # {} /\ m = i
    <2>1. i \in d
      BY <1>1, <1>4
    <2>2. m \in d /\ m <= i
      BY <1>2, <2>1
    <2>3. m \notin 1 .. (i - 1)
      BY <1>4, <2>2
    <2> HIDE DEF m
    <2>4. m \in Nat /\ m >= 1
      BY <2>2
    <2> QED BY <2>1, <2>2, <2>3, <2>4
  <1>5. Ahead(a, b, n) => LexCompare(a, b) = 1
    <2> SUFFICES ASSUME NEW i \in 1 .. n, a[i] > b[i], \A j \in 1 .. (i - 1) : a[j] = b[j]
                 PROVE  LexCompare(a, b) = 1
      BY DEF Ahead
    <2>1. a[i] # b[i]
      BY <1>1
    <2>2. d # {} /\ m = i
      BY <1>4, <2>1
    <2> HIDE DEF d, m
    <2> QED BY <1>3, <2>2
  <1>6. Ahead(b, a, n) => LexCompare(a, b) = -1
    <2> SUFFICES ASSUME NEW i \in 1 .. n, b[i] > a[i], \A j \in 1 .. (i - 1) : b[j] = a[j]
                 PROVE  LexCompare(a, b) = -1
      BY DEF Ahead
    <2>1. a[i] # b[i] /\ ~(a[i] > b[i])
      BY <1>1
    <2>2. d # {} /\ m = i
      BY <1>4, <2>1
    <2> HIDE DEF d, m
    <2> QED BY <1>3, <2>1, <2>2
  <1>7. ASSUME n = l, LexCompare(a, b) = 1 PROVE Ahead(a, b, n)
    <2>1. d # {} /\ a[m] > b[m]
      BY <1>3, <1>7
    <2>2. m \in d /\ \A i \in d : m <= i
      BY <1>2, <2>1
    <2>3. m \in 1 .. n
      BY <1>7, <2>2
    <2>4. \A j \in 1 .. (m - 1) : j \in 1 .. n /\ ~(m <= j)
      BY <2>3
    <2>5. \A j \in 1 .. (m - 1) : a[j] = b[j]
      BY <1>1, <2>2, <2>4
    <2> HIDE DEF m
    <2> QED BY <2>1, <2>3, <2>5 DEF Ahead
  <1> QED BY <1>5, <1>6, <1>7

\* Who is not ahead of somebody not ahead of a third is not ahead of the third.
LEMMA AheadIsWeak ==
  ASSUME NEW n \in Nat, NEW a, Keys(a, n), NEW b, Keys(b, n), NEW c, Keys(c, n),
         ~Ahead(c, b, n), ~Ahead(b, a, n)
  PROVE  ~Ahead(c, a, n)
  <1> SUFFICES ASSUME NEW i \in 1 .. n, c[i] > a[i], \A j \in 1 .. (i - 1) : c[j] = a[j]
               PROVE  FALSE
    BY DEF Ahead
  <1> DEFINE d == {j \in 1 .. n : b[j] # a[j] \/ b[j] # c[j]}
  <1>1. \A j \in 1 .. n : a[j] \in Int /\ b[j] \in Int /\ c[j] \in Int
    BY DEF Keys
  <1>2. i \in d
    BY <1>1
  <1>3. PICK m \in d : \A j \in d : m <= j
    <2>1. d \subseteq Nat
      OBVIOUS
    <2> HIDE DEF d
    <2> QED BY <1>2, <2>1, LeastOf
  <1>4. m \in 1 .. n /\ m <= i
    BY <1>2, <1>3
  <1>5. \A j \in 1 .. (m - 1) : j \in 1 .. n /\ ~(m <= j)
    BY <1>4
  <1>6. \A j \in 1 .. (m - 1) : b[j] = a[j] /\ b[j] = c[j]
    BY <1>3, <1>5
  <1>7. ~(c[m] > b[m]) /\ ~(b[m] > a[m])
    <2>1. c[m] > b[m] => Ahead(c, b, n)
      BY <1>4, <1>6 DEF Ahead
    <2>2. b[m] > a[m] => Ahead(b, a, n)
      BY <1>4, <1>6 DEF Ahead
    <2> QED BY <2>1, <2>2
  <1>8. CASE m = i
    BY <1>1, <1>4, <1>7, <1>8
  <1>9. CASE m # i
    <2>1. c[m] = a[m]
      BY <1>4, <1>9
    <2>2. b[m] # a[m] \/ b[m] # c[m]
      BY <1>3
    <2> QED BY <1>1, <1>4, <1>7, <2>1, <2>2
  <1> QED BY <1>8, <1>9
-----------------------------------------------------------------------------
(* Scores in the order of a variant *)
Width == IF cfg.variant = "imac" THEN 5 ELSE 6

\* A score has a place for every key, and its first keys are numbers.
IsScore(s) == IsSeq(s) /\ Len(s) = Width /\ Keys(s, TotalKeys)

LEMMA KeysTotal ==
  ASSUME cfg \in Configs PROVE TotalKeys \in Nat /\ Width \in Nat /\ TotalKeys <= Width
  BY ConfigFacts DEF TotalKeys, Width

LEMMA FirstKeys ==
  ASSUME NEW s, IsSeq(s), NEW k \in Nat, k <= Len(s)
  PROVE  /\ DOMAIN SubSeq(s, 1, k) = 1 .. k /\ DOMAIN s = 1 .. Len(s)
         /\ \A i \in 1 .. k : SubSeq(s, 1, k)[i] = s[i]
  <1>1. Len(s) \in Nat /\ s \in Seq(ToSet(s))
    BY DEF IsSeq
  <1> QED BY <1>1

\* Who is ahead on the first keys is Greater to its variant, and the other Less.
LEMMA AheadIsGreater ==
  ASSUME cfg \in Configs, NEW s, IsScore(s), NEW t, IsScore(t)
  PROVE  /\ Ahead(s, t, TotalKeys) => Compare(cfg.variant, s, t) = 1
         /\ Ahead(t, s, TotalKeys) => Compare(cfg.variant, s, t) = -1
  <1> DEFINE n == TotalKeys
  <1>1. n \in Nat /\ Width \in Nat /\ n <= Width
    BY KeysTotal
  <1>2. DOMAIN s = 1 .. Width /\ DOMAIN t = 1 .. Width /\ Keys(s, n) /\ Keys(t, n)
    BY <1>1, FirstKeys DEF IsScore
  <1>3. CASE cfg.variant # "imac"
    <2>1. Compare(cfg.variant, s, t) = LexCompare(s, t)
      BY <1>3 DEF Compare
    <2> HIDE DEF n
    <2>2. /\ Ahead(s, t, n) => LexCompare(s, t) = 1
          /\ Ahead(t, s, n) => LexCompare(s, t) = -1
      BY <1>1, <1>2, AheadDecides
    <2> QED BY <2>1, <2>2 DEF n
  <1>4. CASE cfg.variant = "imac"
    <2> DEFINE a == SubSeq(s, 1, 3)
               b == SubSeq(t, 1, 3)
    <2>1. n = 3 /\ Width = 5
      BY <1>4 DEF TotalKeys, Width
    <2>2. /\ DOMAIN a = 1 .. 3 /\ \A i \in 1 .. 3 : a[i] = s[i]
          /\ DOMAIN b = 1 .. 3 /\ \A i \in 1 .. 3 : b[i] = t[i]
      BY <2>1, FirstKeys DEF IsScore
    <2> HIDE DEF a, b
    <2>3. Keys(a, 3) /\ Keys(b, 3)
      BY <1>2, <2>1, <2>2 DEF Keys
    <2>4. /\ Ahead(s, t, 3) => Ahead(a, b, 3)
          /\ Ahead(t, s, 3) => Ahead(b, a, 3)
      <3>1. \A i \in 1 .. 3 : \A j \in 1 .. (i - 1) : j \in 1 .. 3
        OBVIOUS
      <3> QED BY <2>2, <3>1 DEF Ahead
    <2>5. /\ Ahead(a, b, 3) => LexCompare(a, b) = 1
          /\ Ahead(b, a, 3) => LexCompare(a, b) = -1
      <3>1. 3 \in Nat /\ 3 <= 3 /\ DOMAIN a = 1 .. 3 /\ DOMAIN b = 1 .. 3
        BY <2>2
      <3> DEFINE three == 3
      <3>2. three \in Nat /\ three <= three /\ DOMAIN a = 1 .. three /\ DOMAIN b = 1 .. three
            /\ Keys(a, three) /\ Keys(b, three)
        BY <2>3, <3>1
      <3> HIDE DEF three
      <3>3. /\ Ahead(a, b, three) => LexCompare(a, b) = 1
            /\ Ahead(b, a, three) => LexCompare(a, b) = -1
        BY <3>2, AheadDecides
      <3> QED BY <3>3 DEF three
    <2>6. LexCompare(a, b) # 0 => Compare(cfg.variant, s, t) = LexCompare(a, b)
      BY <1>4 DEF Compare, ImacCompare, a, b
    <2>7. n = 3
      BY <2>1
    <2> HIDE DEF n
    <2> QED BY <2>4, <2>5, <2>6, <2>7 DEF n
  <1> QED BY <1>3, <1>4

LEMMA FirstKeysCompare ==
  ASSUME cfg \in Configs, NEW s, IsScore(s), NEW t, IsScore(t), ~Ahead(s, t, TotalKeys)
  PROVE  LexCompare(SubSeq(s, 1, TotalKeys), SubSeq(t, 1, TotalKeys)) # 1
  <1> DEFINE n == TotalKeys
             a == SubSeq(s, 1, n)
             b == SubSeq(t, 1, n)
  <1>1. n \in Nat /\ Width \in Nat /\ n <= Width
    BY KeysTotal
  <1>2. /\ DOMAIN a = 1 .. n /\ \A i \in 1 .. n : a[i] = s[i]
        /\ DOMAIN b = 1 .. n /\ \A i \in 1 .. n : b[i] = t[i]
    <2> HIDE DEF n
    <2> QED BY <1>1, FirstKeys DEF IsScore
  <1>3. Keys(s, n) /\ Keys(t, n) /\ ~Ahead(s, t, n)
    BY DEF IsScore
  <1> HIDE DEF a, b, n
  <1>4. Keys(a, n) /\ Keys(b, n)
    BY <1>2, <1>3 DEF Keys
  <1>5. ~Ahead(a, b, n)
    <2>1. \A i \in 1 .. n : \A j \in 1 .. (i - 1) : j \in 1 .. n
      BY <1>1
    <2> QED BY <1>2, <1>3, <2>1 DEF Ahead
  <1>6. LexCompare(a, b) # 1
    BY <1>1, <1>2, <1>4, <1>5, AheadDecides
  <1> QED BY <1>6 DEF a, b, n
-----------------------------------------------------------------------------
(* What score_batch computes *)
IsBatch(batch) ==
    /\ IsSeq(batch)
    /\ \A i \in DOMAIN batch : /\ IsFiniteSet(Arms(batch[i]))
                               /\ \A a \in Arms(batch[i]) : batch[i].obs[a] \in Responses

LEMMA BatchFacts ==
  ASSUME NEW batch, IsBatch(batch), batch # <<>>
  PROVE  DOMAIN batch = 1 .. Len(batch) /\ Len(batch) \in Nat \ {0} /\ IsFiniteSet(DOMAIN batch)
  <1>1. DOMAIN batch = 1 .. Len(batch) /\ Len(batch) \in Nat \ {0}
    BY DEF IsBatch, IsSeq
  <1> QED BY <1>1, FS_Interval

LEMMA Quotient == ASSUME NEW a \in Int, NEW n \in Nat \ {0}
                  PROVE  (Scale * a) \div n \in Int /\ a \div n \in Int
  <1>1. Scale * a \in Int
    BY DEF Scale
  <1> DEFINE b == Scale * a
  <1> HIDE DEF b
  <1>2. b \in Int
    BY <1>1 DEF b
  <1>3. b \div n \in Int /\ a \div n \in Int
    BY <1>2
  <1> QED BY <1>3 DEF b

LEMMA MeanIsInteger ==
  ASSUME NEW batch, IsBatch(batch), batch # <<>>,
         NEW arm, \A i \in DOMAIN batch : arm \in Arms(batch[i]),
         NEW metric \in {"success", "reward", "coord", "cost", "extra"}
  PROVE  MeanOf(batch, arm, metric) \in Int
  <1> DEFINE g == [i \in DOMAIN batch |-> Reading(batch[i].obs[arm], metric)]
  <1>1. \A r \in Responses : Reading(r, metric) \in Int
    BY DEF Responses, Reading
  <1>2. \A i \in DOMAIN batch : g[i] \in Int
    BY <1>1 DEF IsBatch
  <1>3. DOMAIN g = DOMAIN batch /\ IsFiniteSet(DOMAIN batch) /\ Len(batch) \in Nat \ {0}
    BY BatchFacts
  <1>4. MeanOf(batch, arm, metric) = (Scale * SumFunction(g)) \div Len(batch)
    BY DEF MeanOf
  <1> HIDE DEF g
  <1>5. SumFunction(g) \in Int
    BY <1>2, <1>3, SumIsInteger
  <1> QED BY <1>3, <1>4, <1>5, Quotient

LEMMA CreditIsInteger ==
  ASSUME NEW batch, IsBatch(batch), batch # <<>>,
         \A i \in DOMAIN batch : "primary" \in Arms(batch[i]),
         NEW axis, \E i \in DOMAIN batch : axis \in Arms(batch[i]),
         NEW metric \in {"success", "reward"}
  PROVE  AxisCredit(batch, axis, metric) \in Int
  <1> DEFINE tasks == {i \in DOMAIN batch : axis \in Arms(batch[i])}
             g == [i \in tasks |-> batch[i].obs["primary"][metric] - batch[i].obs[axis][metric]]
  <1>1. AxisCredit(batch, axis, metric) = (Scale * SumFunction(g)) \div Cardinality(tasks)
    BY DEF AxisCredit
  <1>2. IsFiniteSet(tasks) /\ tasks # {}
    BY BatchFacts, FS_Subset
  <1>3. Cardinality(tasks) \in Nat \ {0}
    BY <1>2, FS_CardinalityType, FS_EmptySet
  <1>4. \A r \in Responses : r[metric] \in Int
    BY DEF Responses
  <1>5. \A i \in tasks : g[i] \in Int
    BY <1>4 DEF IsBatch
  <1>6. DOMAIN g = tasks
    OBVIOUS
  <1> HIDE DEF g, tasks
  <1>7. SumFunction(g) \in Int
    BY <1>2, <1>5, <1>6, SumIsInteger
  <1> QED BY <1>1, <1>3, <1>7, Quotient

\* The values of a function on a finite set.
LEMMA FiniteRange ==
  ASSUME NEW S, IsFiniteSet(S), NEW g, DOMAIN g = S
  PROVE  IsFiniteSet({g[x] : x \in S})
  <1> DEFINE R == {g[x] : x \in S}
             h == [x \in S |-> g[x]]
  <1>1. h \in Surjection(S, R)
    BY DEF Surjection
  <1> HIDE DEF R
  <1>2. IsFiniteSet(R)
    BY <1>1, FS_Surjection
  <1> QED BY <1>2 DEF R

LEMMA SixKeys ==
  ASSUME NEW a \in Int, NEW b \in Int, NEW c \in Int, NEW d \in Int, NEW e, NEW f,
         NEW s, s = <<a, b, c, d, e, f>>
  PROVE  /\ IsSeq(s) /\ Len(s) = 6 /\ Keys(s, 4)
         /\ e \in Int /\ f \in Int => Keys(s, 6)
  <1>1. s \in Seq({a, b, c, d, e, f}) /\ Len(s) = 6
    OBVIOUS
  <1>2. s[1] = a /\ s[2] = b /\ s[3] = c /\ s[4] = d /\ s[5] = e /\ s[6] = f
    OBVIOUS
  <1>3. IsSeq(s)
    BY <1>1, SplitSeq DEF IsSeq
  <1>4. Keys(s, 4)
    <2>1. \A i \in 1 .. 4 : i = 1 \/ i = 2 \/ i = 3 \/ i = 4
      OBVIOUS
    <2> QED BY <1>2, <2>1 DEF Keys
  <1>5. ASSUME e \in Int, f \in Int PROVE Keys(s, 6)
    <2>1. \A i \in 1 .. 6 : i = 1 \/ i = 2 \/ i = 3 \/ i = 4 \/ i = 5 \/ i = 6
      OBVIOUS
    <2> QED BY <1>2, <1>5, <2>1 DEF Keys
  <1> QED BY <1>1, <1>3, <1>4, <1>5

LEMMA ComaScored ==
  ASSUME NEW batch, IsBatch(batch), ComaScorable(batch)
  PROVE  IsSeq(ComaScore(batch)) /\ Len(ComaScore(batch)) = 6 /\ Keys(ComaScore(batch), 6)
  <1> DEFINE armsets == {Arms(batch[i]) : i \in DOMAIN batch}
             axes == (UNION armsets) \ {"primary"}
             credits == {AxisCredit(batch, x, "success") : x \in axes}
             g(metric) == [x \in axes |-> AxisCredit(batch, x, metric)]
             mean(metric) == SumFunction(g(metric)) \div Cardinality(axes)
  <1>1. batch # <<>> /\ \A i \in DOMAIN batch : "primary" \in Arms(batch[i]) /\ "channel_masked" \in Arms(batch[i])
    BY DEF ComaScorable
  <1>2. DOMAIN batch = 1 .. Len(batch) /\ Len(batch) \in Nat \ {0} /\ IsFiniteSet(DOMAIN batch)
    BY <1>1, BatchFacts
  <1>3. IsFiniteSet(axes)
    <2>1. IsFiniteSet(armsets)
      <3> DEFINE arms == [i \in DOMAIN batch |-> Arms(batch[i])]
      <3>1. armsets = {arms[i] : i \in DOMAIN batch} /\ DOMAIN arms = DOMAIN batch
        OBVIOUS
      <3> HIDE DEF arms, armsets
      <3> QED BY <1>2, <3>1, FiniteRange
    <2>2. \A S \in armsets : IsFiniteSet(S)
      BY DEF IsBatch
    <2> HIDE DEF armsets
    <2>3. IsFiniteSet(UNION armsets)
      BY <2>1, <2>2, FS_UNION
    <2> QED BY <2>3, FS_Subset
  <1>4. "channel_masked" \in axes
    BY <1>1, <1>2
  <1>5. Cardinality(axes) \in Nat \ {0}
    <2> HIDE DEF axes
    <2> QED BY <1>3, <1>4, FS_CardinalityType, FS_EmptySet
  <1>6. \A x \in axes : \E i \in DOMAIN batch : x \in Arms(batch[i])
    OBVIOUS
  <1> HIDE DEF axes
  <1>7. \A x \in axes : AxisCredit(batch, x, "success") \in Int /\ AxisCredit(batch, x, "reward") \in Int
    BY <1>1, <1>6, CreditIsInteger
  <1>8. Min(credits) \in Int
    <2>1. IsFiniteSet(credits)
      <3> DEFINE r == [x \in axes |-> AxisCredit(batch, x, "success")]
      <3>1. credits = {r[x] : x \in axes} /\ DOMAIN r = axes
        OBVIOUS
      <3> HIDE DEF r, credits
      <3> QED BY <1>3, <3>1, FiniteRange
    <2>2. credits # {} /\ credits \subseteq Int
      BY <1>4, <1>7
    <2> HIDE DEF credits
    <2> QED BY <2>1, <2>2, LeastInteger
  <1>9. mean("success") \in Int /\ mean("reward") \in Int
    <2>1. SumFunction(g("success")) \in Int /\ SumFunction(g("reward")) \in Int
      BY <1>3, <1>7, SumIsInteger
    <2> QED BY <1>5, <2>1, Quotient
  <1>10. \A m \in {"success", "reward", "coord", "cost", "extra"} : MeanOf(batch, "primary", m) \in Int
    BY <1>1, MeanIsInteger
  <1>11. ComaScore(batch) = <<MeanOf(batch, "primary", "success"), MeanOf(batch, "primary", "reward"),
                              Min(credits), mean("success"), mean("reward"),
                              0 - MeanOf(batch, "primary", "cost")>>
    BY DEF ComaScore, axes
  <1>12. \E a, b, c, d, e, f \in Int : ComaScore(batch) = <<a, b, c, d, e, f>>
    <2>1. 0 - MeanOf(batch, "primary", "cost") \in Int
      BY <1>10
    <2> HIDE DEF credits, mean
    <2> QED BY <1>8, <1>9, <1>10, <1>11, <2>1
  <1> QED BY <1>12, SixKeys

LEMMA Ic3netScored ==
  ASSUME NEW batch, IsBatch(batch), Ic3netScorable(batch)
  PROVE  IsSeq(Ic3netScore(batch)) /\ Len(Ic3netScore(batch)) = 6 /\ Keys(Ic3netScore(batch), 6)
  <1> DEFINE delta(metric) == MeanOf(batch, "primary", metric) - MeanOf(batch, "channel_masked", metric)
             gain == (delta("success") + delta("coord")) \div 2
  <1>1. \A m \in {"success", "reward", "coord", "cost", "extra"} :
          MeanOf(batch, "primary", m) \in Int /\ MeanOf(batch, "channel_masked", m) \in Int
    BY MeanIsInteger DEF Ic3netScorable
  <1>2. delta("success") + delta("coord") \in Int
    BY <1>1
  <1>3. gain \in Int
    <2> HIDE DEF delta
    <2> QED BY <1>2, Quotient
  <1>4. Ic3netScore(batch) =
          <<MeanOf(batch, "primary", "success"), MeanOf(batch, "primary", "reward"), Max({gain, 0}),
            0 - (MeanOf(batch, "primary", "extra") + MeanOf(batch, "primary", "cost")),
            0 - MeanOf(batch, "primary", "extra"), 0 - MeanOf(batch, "primary", "cost")>>
    BY DEF Ic3netScore
  <1> HIDE DEF gain
  <1>5. Max({gain, 0}) \in Int
    <2>1. \E x \in {gain, 0} : \A y \in {gain, 0} : x >= y
      <3>1. CASE gain >= 0 BY <1>3, <3>1
      <3>2. CASE ~(gain >= 0) BY <1>3, <3>2
      <3> QED BY <3>1, <3>2
    <2>2. Max({gain, 0}) \in {gain, 0}
      BY <2>1 DEF Max
    <2> QED BY <1>3, <2>2
  <1>6. \E a, b, c, d, e, f \in Int : Ic3netScore(batch) = <<a, b, c, d, e, f>>
    <2>1. /\ MeanOf(batch, "primary", "success") \in Int /\ MeanOf(batch, "primary", "reward") \in Int
          /\ 0 - (MeanOf(batch, "primary", "extra") + MeanOf(batch, "primary", "cost")) \in Int
          /\ 0 - MeanOf(batch, "primary", "extra") \in Int /\ 0 - MeanOf(batch, "primary", "cost") \in Int
      BY <1>1
    <2> QED BY <1>4, <1>5, <2>1
  <1> QED BY <1>6, SixKeys

LEMMA RodeScored ==
  ASSUME NEW batch, IsBatch(batch), RodeScorable(batch)
  PROVE  IsSeq(RodeScore(batch)) /\ Len(RodeScore(batch)) = 6 /\ Keys(RodeScore(batch), 4)
  <1> DEFINE delta(metric) == MeanOf(batch, "primary", metric) - MeanOf(batch, "role_permuted", metric)
             gain == (delta("success") + delta("coord")) \div 2
  <1>1. \A m \in {"success", "reward", "coord", "cost", "extra"} :
          MeanOf(batch, "primary", m) \in Int /\ MeanOf(batch, "role_permuted", m) \in Int
    BY MeanIsInteger DEF RodeScorable
  <1>2. delta("success") + delta("coord") \in Int
    BY <1>1
  <1>3. gain \in Int
    <2> HIDE DEF delta
    <2> QED BY <1>2, Quotient
  <1>4. RodeScore(batch) =
          <<MeanOf(batch, "primary", "success"), MeanOf(batch, "primary", "reward"),
            MeanOf(batch, "primary", "coord"), gain, OptionalMean(batch),
            0 - MeanOf(batch, "primary", "cost")>>
    BY DEF RodeScore
  <1> HIDE DEF gain
  <1>5. /\ MeanOf(batch, "primary", "success") \in Int /\ MeanOf(batch, "primary", "reward") \in Int
        /\ MeanOf(batch, "primary", "coord") \in Int
    BY <1>1
  <1> QED BY <1>3, <1>4, <1>5, SixKeys

LEMMA ImacScored ==
  ASSUME NEW batch, IsBatch(batch), ImacScorable(batch)
  PROVE  IsSeq(ImacScore(batch)) /\ Len(ImacScore(batch)) = 5 /\ Keys(ImacScore(batch), 3)
  <1>1. /\ MeanOf(batch, "primary", "success") \in Int /\ MeanOf(batch, "primary", "reward") \in Int
    BY MeanIsInteger DEF ImacScorable
  <1>2. \E c \in Int : \E d, e :
          ImacScore(batch) = <<MeanOf(batch, "primary", "success"), MeanOf(batch, "primary", "reward"), c, d, e>>
    BY DEF ImacScore
  <1>3. PICK a \in Int, b \in Int, c \in Int : \E d, e : ImacScore(batch) = <<a, b, c, d, e>>
    BY <1>1, <1>2
  <1>4. PICK d, e : ImacScore(batch) = <<a, b, c, d, e>>
    BY <1>3
  <1> DEFINE s == ImacScore(batch)
  <1> HIDE DEF s
  <1>5. s = <<a, b, c, d, e>>
    BY <1>4 DEF s
  <1>6. s \in Seq({a, b, c, d, e}) /\ Len(s) = 5
    BY <1>5
  <1>7. s[1] = a /\ s[2] = b /\ s[3] = c
    BY <1>5
  <1>8. IsSeq(s)
    BY <1>6, SplitSeq DEF IsSeq
  <1>9. Keys(s, 3)
    <2>1. \A i \in 1 .. 3 : i = 1 \/ i = 2 \/ i = 3
      OBVIOUS
    <2> QED BY <1>7, <2>1 DEF Keys
  <1> QED BY <1>6, <1>8, <1>9 DEF s

\* A batch that can be scored has a score with every key.
LEMMA BatchIsScored ==
  ASSUME cfg \in Configs, NEW batch, IsBatch(batch), Scorable(cfg.variant, batch)
  PROVE  IsScore(Score(cfg.variant, batch))
  <1>1. CASE cfg.variant = "coma"
    BY <1>1, ComaScored DEF Scorable, Score, IsScore, Width, TotalKeys
  <1>2. CASE cfg.variant = "ic3net"
    BY <1>2, Ic3netScored DEF Scorable, Score, IsScore, Width, TotalKeys
  <1>3. CASE cfg.variant = "rode"
    BY <1>3, RodeScored DEF Scorable, Score, IsScore, Width, TotalKeys
  <1>4. CASE cfg.variant = "imac"
    BY <1>4, ImacScored DEF Scorable, Score, IsScore, Width, TotalKeys
  <1> QED BY <1>1, <1>2, <1>3, <1>4, ConfigFacts
-----------------------------------------------------------------------------
(* The champion leads *)
\* BestCandidate, turn by turn.
LEMMA BestSteps ==
  ASSUME NEW cs, Len(cs) \in Nat \ {0}
  PROVE  \E k : /\ BestCandidate(cs) = k[Len(cs)]
                /\ \A i \in 1 .. Len(cs) :
                     k[i] = IF i = 1 THEN 1 ELSE IF Before(cs[k[i - 1]], cs[i]) THEN k[i - 1] ELSE i
  <1> DEFINE k == CHOOSE k : IsBest(k, cs, Len(cs))
  <1>1. BestCandidate(cs) = k[Len(cs)]
    BY DEF BestCandidate, IsBest
  <1>2. IsBest(k, cs, Len(cs))
    BY BestExists
  <1> HIDE DEF k
  <1>3. ASSUME NEW i \in 1 .. Len(cs)
        PROVE  k[i] = IF i = 1 THEN 1 ELSE IF Before(cs[k[i - 1]], cs[i]) THEN k[i - 1] ELSE i
    <2>1. k[i] = IF i = 1 THEN 1
                 ELSE The({IF Before(cs[b], cs[i]) THEN b ELSE i : b \in {k[i - 1]}})
      BY <1>2 DEF IsBest
    <2>2. {IF Before(cs[b], cs[i]) THEN b ELSE i : b \in {k[i - 1]}}
            = {IF Before(cs[k[i - 1]], cs[i]) THEN k[i - 1] ELSE i}
      OBVIOUS
    <2> QED BY <2>1, <2>2, SingletonElement
  <1> QED BY <1>1, <1>3

\* A candidate is a record with a train score, and a selection score once it has one.
Shaped(c) == c = [id |-> c.id, gen |-> c.gen, payload |-> c.payload, parent |-> c.parent,
                  train |-> c.train, selection |-> c.selection]
Scored(c) == Shaped(c) /\ IsScore(c.train) /\ (c.selection = <<>> \/ IsScore(c.selection))

LEMMA BasisIsScore ==
  ASSUME cfg \in Configs, NEW c, Scored(c) PROVE IsScore(Basis(c)) /\ Basis(c) # <<>>
  <1>1. IsScore(Basis(c))
    BY DEF Basis, Scored
  <1>2. \A s : IsScore(s) => s # <<>>
    BY DEF IsScore, Width
  <1> QED BY <1>1, <1>2

\* A candidate before another is not behind it, and one that is not before it
\* is not ahead of it.
LEMMA BeforeKeepsLead ==
  ASSUME cfg \in Configs, NEW c, Scored(c), NEW d, Scored(d)
  PROVE  /\ Before(c, d) => ~Ahead(Basis(d), Basis(c), TotalKeys)
         /\ ~Before(c, d) => ~Ahead(Basis(c), Basis(d), TotalKeys)
  <1>1. /\ IsScore(Basis(c)) /\ Basis(c) # <<>> /\ IsScore(Basis(d)) /\ Basis(d) # <<>>
    BY BasisIsScore
  <1>2. CompareCandidates(c, d) = Compare(cfg.variant, Basis(c), Basis(d))
    BY <1>1 DEF CompareCandidates
  <1>3. /\ Ahead(Basis(c), Basis(d), TotalKeys) => CompareCandidates(c, d) = 1
        /\ Ahead(Basis(d), Basis(c), TotalKeys) => CompareCandidates(c, d) = -1
    BY <1>1, <1>2, AheadIsGreater
  <1> QED BY <1>3 DEF Before

\* Nobody is ahead of one of the candidates.
LEMMA BestLeads ==
  ASSUME cfg \in Configs, NEW cs, Len(cs) \in Nat \ {0}, \A i \in 1 .. Len(cs) : Scored(cs[i])
  PROVE  \A i \in 1 .. Len(cs) : ~Ahead(Basis(cs[i]), Basis(cs[BestCandidate(cs)]), TotalKeys)
  <1> DEFINE N == TotalKeys
             B(i) == Basis(cs[i])
  <1>1. PICK k : /\ BestCandidate(cs) = k[Len(cs)]
                 /\ \A i \in 1 .. Len(cs) :
                      k[i] = IF i = 1 THEN 1 ELSE IF Before(cs[k[i - 1]], cs[i]) THEN k[i - 1] ELSE i
    BY BestSteps
  <1> DEFINE G == {n \in Nat : n > 0 => k[n] \in 1 .. n /\ \A i \in 1 .. n : ~Ahead(B(i), B(k[n]), N)}
  <1>2. N \in Nat /\ \A i \in 1 .. Len(cs) : Keys(B(i), N)
    BY KeysTotal, BasisIsScore DEF IsScore
  <1>3. \A i, j \in 1 .. Len(cs) :
          /\ Before(cs[i], cs[j]) => ~Ahead(B(j), B(i), N)
          /\ ~Before(cs[i], cs[j]) => ~Ahead(B(i), B(j), N)
    BY BeforeKeepsLead
  <1>4. \A i \in 1 .. Len(cs) : ~Ahead(B(i), B(i), N)
    <2> SUFFICES ASSUME NEW i \in 1 .. Len(cs) PROVE ~Ahead(B(i), B(i), N)
      OBVIOUS
    <2> HIDE DEF N, B
    <2> QED BY <1>2 DEF Ahead, Keys
  <1>5. \A x, y, z \in 1 .. Len(cs) :
          ~Ahead(B(z), B(y), N) /\ ~Ahead(B(y), B(x), N) => ~Ahead(B(z), B(x), N)
    <2> HIDE DEF N, B
    <2> QED BY <1>2, AheadIsWeak
  <1> HIDE DEF N, B
  <1>6. 0 \in G
    OBVIOUS
  <1>7. \A n \in 1 .. Len(cs) : n - 1 \in G => n \in G
    <2> SUFFICES ASSUME NEW n \in 1 .. Len(cs), n - 1 \in G PROVE n \in G
      OBVIOUS
    <2>1. CASE n = 1
      BY <1>1, <1>4, <2>1
    <2>2. CASE n # 1
      <3>1. /\ k[n - 1] \in 1 .. (n - 1) /\ \A i \in 1 .. (n - 1) : ~Ahead(B(i), B(k[n - 1]), N)
            /\ k[n - 1] \in 1 .. Len(cs) /\ n \in 1 .. Len(cs)
        BY <2>2
      <3>2. \A i \in 1 .. n : i = n \/ i \in 1 .. (n - 1)
        OBVIOUS
      <3>3. CASE Before(cs[k[n - 1]], cs[n])
        <4>1. k[n] = k[n - 1]
          BY <1>1, <2>2, <3>3
        <4>2. ~Ahead(B(n), B(k[n]), N)
          BY <1>3, <3>1, <3>3, <4>1
        <4> QED BY <3>1, <3>2, <4>1, <4>2
      <3>4. CASE ~Before(cs[k[n - 1]], cs[n])
        <4>1. k[n] = n
          BY <1>1, <2>2, <3>4
        <4>2. ~Ahead(B(k[n - 1]), B(n), N)
          BY <1>3, <3>1, <3>4
        <4>3. \A i \in 1 .. (n - 1) : i \in 1 .. Len(cs) /\ ~Ahead(B(i), B(n), N)
          BY <1>5, <3>1, <4>2
        <4>4. ~Ahead(B(n), B(n), N)
          BY <1>4
        <4> QED BY <3>2, <4>1, <4>3, <4>4
      <3> QED BY <3>3, <3>4
    <2> QED BY <2>1, <2>2
  <1>8. Len(cs) \in G
    <2>1. Len(cs) \in 0 .. Len(cs)
      OBVIOUS
    <2> HIDE DEF G
    <2> QED BY <1>6, <1>7, <2>1, UpTo
  <1> QED BY <1>1, <1>8 DEF B, N
\* The rows of a call have finitely many arms.
RowsInv == eval # NoEval => \A i \in DOMAIN eval.batch : IsFiniteSet(Arms(eval.batch[i]))

\* A proposal has no selection score, and the one that is evaluated is the first.
WorkInv == pc = "minibatch" =>
             /\ IsSeq(work)
             /\ \A i \in 1 .. Len(work) : Shaped(work[i]) /\ work[i].selection = <<>>
             /\ eval # NoEval => work # <<>>

\* The registry is scored, and no longer changes once a champion is chosen.
LeadInv ==
    /\ RowsInv /\ WorkInv
    /\ \A i \in 1 .. Len(cands) : Scored(cands[i])
    /\ champion # 0 =>
         /\ pc \in {"fill", "fetch", "heldout", "done", "failed"}
         /\ \A i \in 1 .. Len(cands) :
              ~Ahead(Basis(cands[i]), Basis(cands[champion]), TotalKeys)

LEMMA InitLeads == Init => LeadInv
  BY EmptyIsSeq DEF Init, LeadInv, RowsInv, WorkInv

\* A step that keeps the registry, and keeps the champion or had none and has none.
LEMMA RegistryKept ==
  ASSUME MarlInv, LeadInv, UNCHANGED <<cfg, cands, champion>>,
         champion # 0 => pc' \in {"fill", "fetch", "heldout", "done", "failed"},
         RowsInv', WorkInv'
  PROVE  LeadInv'
  <1>1. \A c : Scored(c)' <=> Scored(c)
    BY DEF Scored, Shaped, IsScore, Width, TotalKeys
  <1>2. TotalKeys' = TotalKeys
    BY DEF TotalKeys
  <1> QED BY <1>1, <1>2 DEF LeadInv

\* The run fails, or leaves the search.
LEMMA CallGone ==
  ASSUME MarlInv, LeadInv, UNCHANGED <<cfg, cands, champion>>, eval' = NoEval, pc' # "minibatch",
         champion # 0 => pc' \in {"fill", "fetch", "heldout", "done", "failed"}
  PROVE  LeadInv'
  BY RegistryKept DEF RowsInv, WorkInv

\* A call that begins has no row yet.
LEMMA CallBegun ==
  ASSUME MarlInv, LeadInv, UNCHANGED <<cfg, cands, champion, work>>,
         NEW stage, NEW index, NEW id, NEW rows, Evaluate(stage, index, id, rows),
         pc' = "minibatch" => pc = "minibatch" /\ work # <<>>,
         champion # 0 => pc' \in {"fill", "fetch", "heldout", "done", "failed"}
  PROVE  LeadInv'
  <1>1. eval'.batch = <<>> /\ DOMAIN eval'.batch = {}
    BY EmptyIsSeq DEF Evaluate
  <1>2. RowsInv'
    BY <1>1 DEF RowsInv
  <1>3. WorkInv'
    BY DEF LeadInv, WorkInv, Shaped
  <1> QED BY <1>2, <1>3, RegistryKept

LEMMA RowLeads == MarlInv /\ LeadInv /\ RolloutRow => LeadInv'
  <1> SUFFICES ASSUME MarlInv, LeadInv, RolloutRow PROVE LeadInv'
    OBVIOUS
  <1>1. eval # NoEval /\ Len(eval.batch) < Len(eval.rows) /\ Remaining(eval.stage) > 0
    BY DEF RolloutRow, Evaluating
  <1>2. UNCHANGED <<cfg, pc, cands, champion, work>>
    BY DEF RolloutRow
  <1> DEFINE t == NextRow
             arms == Admitted(t)
  <1>3. PICK x \in Answers[cfg.variant] :
          eval' = [eval EXCEPT !.batch = Append(@,
                    [task |-> t, obs |-> [a \in arms |-> IF a = "primary" THEN x.primary ELSE x.other]])]
    BY DEF RolloutRow
  <1> DEFINE row == [task |-> t, obs |-> [a \in arms |-> IF a = "primary" THEN x.primary ELSE x.other]]
  <1>4. IsEval(eval) /\ t \in Tasks
    BY <1>1, EvalFacts DEF NextRow
  <1>5. IsFiniteSet(Arms(row))
    <2>1. IsFiniteSet(arms)
      BY <1>1, <1>4, AdmittedFits
    <2> QED BY <2>1 DEF Arms
  <1> HIDE DEF row, arms, t
  <1>6. eval'.batch = Append(eval.batch, row) /\ IsSeq(eval.batch)
    BY <1>3, <1>4 DEF IsEval, row
  <1>7. /\ DOMAIN eval.batch = 1 .. Len(eval.batch) /\ Len(eval.batch) \in Nat
        /\ DOMAIN eval'.batch = 1 .. (Len(eval.batch) + 1)
        /\ \A i \in DOMAIN eval.batch : eval'.batch[i] = eval.batch[i]
        /\ eval'.batch[Len(eval.batch) + 1] = row
    BY <1>6, Grows DEF IsSeq
  <1>8. RowsInv'
    <2> SUFFICES ASSUME NEW i \in DOMAIN eval'.batch PROVE IsFiniteSet(Arms(eval'.batch[i]))
      BY DEF RowsInv, Arms
    <2>1. i \in DOMAIN eval.batch \/ i = Len(eval.batch) + 1
      BY <1>7
    <2> QED BY <1>1, <1>5, <1>7, <2>1 DEF LeadInv, RowsInv
  <1>9. WorkInv'
    BY <1>1, <1>2 DEF LeadInv, WorkInv, Shaped
  <1> QED BY <1>2, <1>8, <1>9, RegistryKept DEF LeadInv

\* The answers of a batch that is scored are responses.
LEMMA BatchIsBatch ==
  ASSUME MarlInv, LeadInv, eval # NoEval, ~PrimaryOnly(eval.stage) PROVE IsBatch(eval.batch)
  <1>1. IsSeq(eval.batch) /\ cfg \in Configs
    BY EvalFacts DEF IsEval, TypeInv
  <1>2. \A i \in DOMAIN eval.batch : IsFiniteSet(Arms(eval.batch[i]))
    BY DEF LeadInv, RowsInv
  <1>3. ASSUME NEW i \in DOMAIN eval.batch, NEW a \in Arms(eval.batch[i])
        PROVE  eval.batch[i].obs[a] \in Responses
    <2>1. PICK x \in Answers[cfg.variant] :
            eval.batch[i].obs
              = [b \in DOMAIN eval.batch[i].obs |-> IF b = "primary" THEN x.primary ELSE x.other]
      BY DEF MarlInv, BatchInv, IsAnswer
    <2>2. a \in DOMAIN eval.batch[i].obs
      BY DEF Arms
    <2>3. eval.batch[i].obs[a] \in {x.primary, x.other}
      BY <2>1, <2>2
    <2>4. x.primary \in Responses /\ x.other \in Responses
      BY <1>1, <2>1, MarlAssumption
    <2> QED BY <2>3, <2>4
  <1> QED BY <1>1, <1>2, <1>3 DEF IsBatch

LEMMA ScoreIsScored ==
  ASSUME MarlInv, LeadInv, NEW stage \in {"seed_full_train", "candidate_minibatch", "selection"},
         ScoredBatch(stage)
  PROVE  /\ IsScore(Score(cfg.variant, eval.batch)) /\ pc = Place[stage] /\ champion = 0
         /\ cfg \in Configs /\ IsSeq(cands)
  <1>1. eval # NoEval /\ eval.stage = stage /\ Scorable(cfg.variant, eval.batch)
    BY DEF ScoredBatch, BatchOver, Evaluating
  <1>2. ~PrimaryOnly(eval.stage) /\ pc = Place[stage] /\ cfg \in Configs /\ IsSeq(cands)
    BY <1>1, EvalFacts DEF PrimaryOnly, TypeInv
  <1>3. champion = 0
    BY <1>2 DEF LeadInv, Place
  <1> QED BY <1>1, <1>2, <1>3, BatchIsBatch, BatchIsScored

\* The registry of a run without a champion.
LEMMA RegistryScored ==
  ASSUME cfg' = cfg, champion = 0, champion' = champion, eval' = NoEval, WorkInv',
         \A i \in 1 .. Len(cands') : Scored(cands'[i])
  PROVE  LeadInv'
  <1>1. \A c : Scored(c)' <=> Scored(c)
    BY DEF Scored, Shaped, IsScore, Width, TotalKeys
  <1> QED BY <1>1 DEF LeadInv, RowsInv

LEMMA SeedLeads == MarlInv /\ LeadInv /\ SeedScored => LeadInv'
  <1> SUFFICES ASSUME MarlInv, LeadInv, SeedScored PROVE LeadInv'
    OBVIOUS
  <1> DEFINE score == Score(cfg.variant, eval.batch)
             c == [id |-> SeedId, gen |-> 0, payload |-> SeedPayload, parent |-> 0,
                   train |-> score, selection |-> <<>>]
  <1>1. IsScore(score) /\ champion = 0
    BY ScoreIsScored DEF SeedScored
  <1>2. cands' = <<c>> /\ pc' = "generation" /\ UNCHANGED <<cfg, champion>> /\ eval' = NoEval
    BY DEF SeedScored
  <1> HIDE DEF score
  <1>3. Scored(c)
    BY <1>1 DEF Scored, Shaped
  <1> HIDE DEF c
  <1>4. \A i \in 1 .. Len(cands') : Scored(cands'[i])
    BY <1>2, <1>3
  <1> QED BY <1>1, <1>2, <1>4, RegistryScored DEF WorkInv

LEMMA CandidateLeads == MarlInv /\ LeadInv /\ CandidateScored => LeadInv'
  <1> SUFFICES ASSUME MarlInv, LeadInv, CandidateScored PROVE LeadInv'
    OBVIOUS
  <1> DEFINE score == Score(cfg.variant, eval.batch)
             h == Head(work)
             c == [h EXCEPT !.train = score]
  <1>1. IsScore(score) /\ champion = 0 /\ pc = "minibatch" /\ IsSeq(cands)
    BY ScoreIsScored DEF CandidateScored, Place
  <1>2. /\ cands' = Append(cands, c) /\ UNCHANGED <<cfg, pc, champion>> /\ eval' = NoEval
        /\ work' = Tail(work) /\ eval # NoEval
    BY DEF CandidateScored, ScoredBatch, BatchOver, Evaluating
  <1>3. /\ IsSeq(work) /\ work # <<>>
        /\ \A i \in 1 .. Len(work) : Shaped(work[i]) /\ work[i].selection = <<>>
    BY <1>1, <1>2 DEF LeadInv, WorkInv
  <1>4. h = work[1] /\ 1 \in 1 .. Len(work)
    BY <1>3 DEF IsSeq
  <1> HIDE DEF score, h
  <1>5. Scored(c)
    <2>1. h = [id |-> h.id, gen |-> h.gen, payload |-> h.payload, parent |-> h.parent,
               train |-> h.train, selection |-> <<>>]
      BY <1>3, <1>4 DEF Shaped
    <2>2. c = [id |-> h.id, gen |-> h.gen, payload |-> h.payload, parent |-> h.parent,
               train |-> score, selection |-> <<>>]
      BY <2>1
    <2> HIDE DEF c
    <2>3. /\ c.id = h.id /\ c.gen = h.gen /\ c.payload = h.payload /\ c.parent = h.parent
          /\ c.train = score /\ c.selection = <<>>
      BY <2>2
    <2> QED BY <1>1, <2>2, <2>3 DEF Scored, Shaped
  <1> HIDE DEF c
  <1>6. \A i \in 1 .. Len(cands') : Scored(cands'[i])
    <2>1. /\ Len(cands) \in Nat /\ Len(cands') = Len(cands) + 1 /\ DOMAIN cands = 1 .. Len(cands)
          /\ \A i \in DOMAIN cands : cands'[i] = cands[i]
          /\ cands'[Len(cands) + 1] = c
      BY <1>1, <1>2, Grows DEF IsSeq
    <2>2. \A i \in 1 .. Len(cands') : i \in 1 .. Len(cands) \/ i = Len(cands) + 1
      BY <2>1
    <2> QED BY <1>5, <2>1, <2>2 DEF LeadInv
  <1>7. WorkInv'
    <2>1. IsSeq(Tail(work)) /\ \A i \in 1 .. Len(Tail(work)) : i + 1 \in 1 .. Len(work) /\ Tail(work)[i] = work[i + 1]
      <3>1. Tail(work) \in Seq(ToSet(work)) /\ Len(Tail(work)) \in Nat
        BY <1>3 DEF IsSeq
      <3>2. \A i \in 1 .. Len(Tail(work)) : i + 1 \in 1 .. Len(work) /\ Tail(work)[i] = work[i + 1]
        BY <1>3 DEF IsSeq
      <3> QED BY <3>1, <3>2, SplitSeq DEF IsSeq
    <2> QED BY <1>2, <1>3, <2>1 DEF WorkInv, Shaped
  <1> QED BY <1>1, <1>2, <1>6, <1>7, RegistryScored

LEMMA SelectionLeads == MarlInv /\ LeadInv /\ SelectionScored => LeadInv'
  <1> SUFFICES ASSUME MarlInv, LeadInv, SelectionScored PROVE LeadInv'
    OBVIOUS
  <1> DEFINE score == Score(cfg.variant, eval.batch)
             x == eval.index
  <1>1. IsScore(score) /\ champion = 0 /\ pc = "select" /\ IsSeq(cands)
    BY ScoreIsScored DEF SelectionScored, Place
  <1>2. cands' = [cands EXCEPT ![x].selection = score] /\ UNCHANGED <<cfg, pc, champion>> /\ eval' = NoEval
    BY DEF SelectionScored
  <1> HIDE DEF score, x
  <1>3. Len(cands') = Len(cands) /\ DOMAIN cands = 1 .. Len(cands)
    BY <1>1, <1>2, Updated DEF IsSeq
  <1>4. ASSUME NEW i \in 1 .. Len(cands') PROVE Scored(cands'[i])
    <2> DEFINE c == cands[i]
               d == cands'[i]
    <2>1. Scored(c)
      BY <1>3 DEF LeadInv
    <2>2. d = c \/ d = [c EXCEPT !.selection = score]
      BY <1>2, <1>3
    <2> HIDE DEF c, d
    <2>3. ASSUME d = c PROVE Scored(d)
      BY <2>1, <2>3
    <2>4. ASSUME d = [c EXCEPT !.selection = score] PROVE Scored(d)
      <3>1. c = [id |-> c.id, gen |-> c.gen, payload |-> c.payload, parent |-> c.parent,
                 train |-> c.train, selection |-> c.selection] /\ IsScore(c.train)
        BY <2>1 DEF Scored, Shaped
      <3>2. d = [id |-> c.id, gen |-> c.gen, payload |-> c.payload, parent |-> c.parent,
                 train |-> c.train, selection |-> score]
        BY <2>4, <3>1
      <3>3. /\ d.id = c.id /\ d.gen = c.gen /\ d.payload = c.payload /\ d.parent = c.parent
            /\ d.train = c.train /\ d.selection = score
        BY <3>2
      <3> QED BY <1>1, <3>1, <3>2, <3>3 DEF Scored, Shaped
    <2>5. Scored(d)
      BY <2>2, <2>3, <2>4
    <2> QED BY <2>5 DEF d
  <1> QED BY <1>1, <1>2, <1>4, RegistryScored DEF WorkInv

LEMMA ProposeLeads == MarlInv /\ LeadInv /\ Propose => LeadInv'
  <1> SUFFICES ASSUME MarlInv, LeadInv, Propose PROVE LeadInv'
    OBVIOUS
  <1>1. pc = "generation" /\ eval = NoEval /\ eval' = eval /\ UNCHANGED <<cfg, cands, champion>>
    BY DEF Propose, Idle
  <1>2. champion = 0
    BY <1>1 DEF LeadInv
  <1>3. PICK proposals \in Proposals : work' = Decoded(cands[ParentIndex], proposals)
    BY DEF Propose
  <1> DEFINE changed == Without(proposals, {cands[ParentIndex].payload})
             p == cands[ParentIndex].id
             f(i) == [id |-> CandidateId(gen, changed[i]), gen |-> gen, payload |-> changed[i],
                      parent |-> p, train |-> <<>>, selection |-> <<>>]
             D == {proposals[i] : i \in 1 .. Len(proposals)}
  <1>4. work' = [i \in DOMAIN changed |-> f(i)]
    BY <1>3 DEF Decoded
  <1>5. changed \in Seq(D)
    BY WithoutIn, MarlAssumption
  <1> HIDE DEF changed, p, D
  <1>6. DOMAIN changed = 1 .. Len(changed) /\ Len(changed) \in Nat
    BY <1>5
  <1>7. \A i \in 1 .. Len(changed) : Shaped(f(i)) /\ f(i).selection = <<>>
    BY DEF Shaped
  <1> HIDE DEF f
  <1> DEFINE T == {f(i) : i \in 1 .. Len(changed)}
  <1>8. work' \in [1 .. Len(changed) -> T] /\ \A i \in 1 .. Len(changed) : work'[i] = f(i)
    BY <1>4, <1>6
  <1> HIDE DEF T
  <1>9. work' \in Seq(T) /\ Len(work') = Len(changed)
    BY <1>6, <1>8
  <1>10. IsSeq(work')
    BY <1>6, <1>9, SplitSeq DEF IsSeq
  <1>11. WorkInv'
    BY <1>1, <1>7, <1>8, <1>9, <1>10 DEF WorkInv, Shaped, IsSeq
  <1>12. RowsInv'
    BY <1>1 DEF RowsInv
  <1> QED BY <1>1, <1>2, <1>11, <1>12, RegistryKept

LEMMA ChosenLeads == MarlInv /\ LeadInv /\ ChooseChampion => LeadInv'
  <1> SUFFICES ASSUME MarlInv, LeadInv, ChooseChampion PROVE LeadInv'
    OBVIOUS
  <1>1. /\ pc = "best" /\ eval = NoEval /\ UNCHANGED <<cfg, cands, eval, work>>
        /\ champion' = BestCandidate(cands) /\ pc' \in {"fill", "fetch"}
    BY DEF ChooseChampion, Idle
  <1>2. cfg \in Configs /\ Len(cands) \in Nat \ {0} /\ \A i \in 1 .. Len(cands) : Scored(cands[i])
    BY <1>1 DEF MarlInv, TypeInv, IsSeq, LeadInv
  <1>3. \A i \in 1 .. Len(cands) : ~Ahead(Basis(cands[i]), Basis(cands[champion']), TotalKeys)
    BY <1>1, <1>2, BestLeads
  <1>4. \A c : Scored(c)' <=> Scored(c)
    BY <1>1 DEF Scored, Shaped, IsScore, Width, TotalKeys
  <1>5. TotalKeys' = TotalKeys
    BY <1>1 DEF TotalKeys
  <1>6. RowsInv' /\ WorkInv'
    BY <1>1 DEF RowsInv, WorkInv
  <1> QED BY <1>1, <1>2, <1>3, <1>4, <1>5, <1>6 DEF LeadInv

\* The other steps of the search and of what follows it keep the registry.
LEMMA SearchLeads ==
  MarlInv /\ LeadInv /\ (SearchEnds \/ MinibatchesEnd \/ GenerationEnds) => LeadInv'
  <1> SUFFICES ASSUME MarlInv, LeadInv, SearchEnds \/ MinibatchesEnd \/ GenerationEnds PROVE LeadInv'
    OBVIOUS
  <1>1. /\ pc \in {"generation", "minibatch", "select"} /\ eval' = NoEval /\ pc' # "minibatch"
        /\ UNCHANGED <<cfg, cands, champion>>
    BY DEF SearchEnds, MinibatchesEnd, GenerationEnds, Idle
  <1>2. champion = 0
    BY <1>1 DEF LeadInv
  <1> QED BY <1>1, <1>2, CallGone

LEMMA CallLeads ==
  MarlInv /\ LeadInv /\ (EvaluateProposal \/ EvaluateSelection \/ HeldoutPair) => LeadInv'
  <1> SUFFICES ASSUME MarlInv, LeadInv, EvaluateProposal \/ EvaluateSelection \/ HeldoutPair PROVE LeadInv'
    OBVIOUS
  <1>1. UNCHANGED <<cfg, pc, cands, champion, work>>
    BY DEF EvaluateProposal, EvaluateSelection, HeldoutPair
  <1>2. /\ \E stage, index, id, rows : Evaluate(stage, index, id, rows)
        /\ pc = "minibatch" => work # <<>>
    BY DEF EvaluateProposal, EvaluateSelection, HeldoutPair, Idle
  <1> QED BY <1>1, <1>2, CallBegun DEF LeadInv

LEMMA LoadLeads == MarlInv /\ LeadInv /\ Load => LeadInv'
  <1> SUFFICES ASSUME MarlInv, LeadInv, Load PROVE LeadInv'
    OBVIOUS
  <1>1. pc = "load" /\ champion = 0 /\ UNCHANGED <<cfg, cands, champion, work>>
    BY DEF Load, Fail, MarlInv, TypeInv
  <1>2. CASE \E reason : Fail(reason)
    BY <1>1, <1>2, CallGone DEF Fail
  <1>3. CASE pc' = "seed" /\ \E stage, index, id, rows : Evaluate(stage, index, id, rows)
    BY <1>1, <1>3, CallBegun
  <1> QED BY <1>2, <1>3 DEF Load

LEMMA FillLeads == MarlInv /\ LeadInv /\ FillTrainBudget => LeadInv'
  <1> SUFFICES ASSUME MarlInv, LeadInv, FillTrainBudget PROVE LeadInv'
    OBVIOUS
  <1>1. pc = "fill" /\ eval = NoEval /\ UNCHANGED <<cfg, cands, champion, work>>
    BY DEF FillTrainBudget, Idle
  <1>2. CASE pc' = pc /\ \E stage, index, id, rows : Evaluate(stage, index, id, rows)
    BY <1>1, <1>2, CallBegun
  <1>3. CASE pc' = "fetch" /\ eval' = eval
    BY <1>1, <1>3, CallGone
  <1> QED BY <1>2, <1>3 DEF FillTrainBudget

LEMMA EndingLeads ==
  MarlInv /\ LeadInv /\ (FetchHeldout \/ HeldoutScored \/ Audited \/ Conclude) => LeadInv'
  <1> SUFFICES ASSUME MarlInv, LeadInv, FetchHeldout \/ HeldoutScored \/ Audited \/ Conclude PROVE LeadInv'
    OBVIOUS
  <1>1. UNCHANGED <<cfg, cands, champion>> /\ eval' = NoEval
    BY DEF FetchHeldout, HeldoutScored, Audited, Conclude, Fail, Idle
  <1>2. pc' \in {"fill", "heldout", "failed", "done"}
    <2>1. CASE HeldoutScored
      BY <2>1, EvalFacts DEF HeldoutScored, BatchOver, Evaluating
    <2>2. CASE Audited
      BY <2>2, EvalFacts DEF Audited, BatchOver, Evaluating, Place
    <2>3. CASE FetchHeldout \/ Conclude
      BY <2>3 DEF FetchHeldout, Conclude, Fail
    <2> QED BY <2>1, <2>2, <2>3
  <1> QED BY <1>1, <1>2, CallGone

LEMMA FailLeads ==
  MarlInv /\ LeadInv /\ (RolloutFails \/ ScoreFails \/ ProposerFails) => LeadInv'
  BY CallGone DEF RolloutFails, ScoreFails, ProposerFails, Fail

LEMMA StutterLeads == MarlInv /\ LeadInv /\ UNCHANGED vars => LeadInv'
  <1> SUFFICES ASSUME MarlInv, LeadInv, UNCHANGED vars PROVE LeadInv'
    OBVIOUS
  <1>1. UNCHANGED <<cfg, pc, cands, champion, work, eval>>
    BY DEF vars
  <1>2. RowsInv' /\ WorkInv'
    BY <1>1 DEF LeadInv, RowsInv, WorkInv, Shaped, IsSeq
  <1> QED BY <1>1, <1>2, RegistryKept DEF LeadInv

LEMMA StepsLead == MarlInv /\ LeadInv /\ [Next]_vars => LeadInv'
  BY LoadLeads, RowLeads, FailLeads, SeedLeads, CandidateLeads, SelectionLeads, ProposeLeads,
     SearchLeads, CallLeads, ChosenLeads, FillLeads, EndingLeads, StutterLeads
  DEF Next

LEMMA InvLeads == MarlInv /\ LeadInv => ChampionLeads
  <1> SUFFICES ASSUME MarlInv, LeadInv, champion # 0, NEW i \in DOMAIN cands
               PROVE  LexCompare(SubSeq(Basis(cands[i]), 1, TotalKeys),
                                 SubSeq(Basis(cands[champion]), 1, TotalKeys)) # 1
    BY DEF ChampionLeads
  <1>1. cfg \in Configs /\ i \in 1 .. Len(cands) /\ champion \in 1 .. Len(cands)
    BY DEF MarlInv, TypeInv, IsSeq
  <1>2. /\ Scored(cands[i]) /\ Scored(cands[champion])
        /\ ~Ahead(Basis(cands[i]), Basis(cands[champion]), TotalKeys)
    BY <1>1 DEF LeadInv
  <1> QED BY <1>1, <1>2, BasisIsScore, FirstKeysCompare

(* best_candidate_index returns a candidate that none of the registry beats  *)
(* on the score it was selected by, whatever the variant, the scores and the *)
(* order of registration, and nothing that follows changes either of them.   *)
(* The keys compared are those on which the variant's order is total.        *)
THEOREM MarlChampionLeads == Spec => []ChampionLeads
  BY InitSound, StepsSound, InitLeads, StepsLead, InvLeads, PTL DEF Spec
=============================================================================
