----------------------------- MODULE MapoProofs -----------------------------
(***************************************************************************)
(* Proofs about Mapo, for every configuration, every answer of a rollout   *)
(* and every number of reruns: the artifact files never claim more than    *)
(* what happened, the heldout comparison is a fair one, and the champion   *)
(* leads everybody it was compared with.                                   *)
(***************************************************************************)
EXTENDS Mapo, TLAPS, SequenceTheorems, FiniteSetTheorems, WellFoundedInduction

In(f, s) == \E i \in 1 .. Len(s) : s[i] = f

\* A list of files to write, the status last.
WriteOrder(s) ==
    s \in Seq(Files) /\ \A i \in 1 .. Len(s) : s[i] = "status" => i = Len(s)

FailFiles == {"failure", "manifest", "status"}

\* persist_mapo_artifacts owes every file, the comparison when there is one, the status last.
LEMMA OrdersAreThere ==
  ASSUME NEW w \in BOOLEAN
  PROVE  /\ WriteOrder(ArtifactOrder(w)) /\ ArtifactOrder(w) # <<>>
         /\ \A f \in {"registry", "rollouts", "review", "manifest", "status"} : In(f, ArtifactOrder(w))
         /\ w => In("comparison", ArtifactOrder(w))
  <1> DEFINE A == <<"registry", "rollouts", "review">>
             B == <<"manifest", "status">>
             D == <<"comparison">>
             s == ArtifactOrder(w)
  <1>1. /\ A \in Seq(Files) /\ Len(A) = 3 /\ A[1] = "registry" /\ A[2] = "rollouts" /\ A[3] = "review"
        /\ B \in Seq(Files) /\ Len(B) = 2 /\ B[1] = "manifest" /\ B[2] = "status"
        /\ D \in Seq(Files) /\ Len(D) = 1 /\ D[1] = "comparison"
    BY DEF Files
  <1>2. CASE w
    <2> DEFINE T == A \o D
    <2>1. s = T \o B
      BY <1>2 DEF ArtifactOrder
    <2> HIDE DEF A, B, D, s
    <2>2. /\ T \in Seq(Files) /\ Len(T) = Len(A) + Len(D)
          /\ \A i \in 1 .. Len(A) + Len(D) : T[i] = IF i <= Len(A) THEN A[i] ELSE D[i - Len(A)]
      BY <1>1, ConcatProperties
    <2>3. T \in Seq(Files) /\ Len(T) = 4 /\ T[1] = "registry" /\ T[2] = "rollouts" /\ T[3] = "review"
          /\ T[4] = "comparison"
      BY <1>1, <2>2
    <2> HIDE DEF T
    <2>4. /\ s \in Seq(Files) /\ Len(s) = Len(T) + Len(B)
          /\ \A i \in 1 .. Len(T) + Len(B) : s[i] = IF i <= Len(T) THEN T[i] ELSE B[i - Len(T)]
      BY <1>1, <2>1, <2>3, ConcatProperties
    <2>5. /\ s \in Seq(Files) /\ Len(s) = 6
          /\ s[1] = "registry" /\ s[2] = "rollouts" /\ s[3] = "review" /\ s[4] = "comparison"
          /\ s[5] = "manifest" /\ s[6] = "status"
      BY <1>1, <2>3, <2>4
    <2>6. WriteOrder(s) /\ s # <<>>
      <3>1. ASSUME NEW i \in 1 .. Len(s), s[i] = "status" PROVE i = Len(s)
        BY <2>5, <3>1
      <3>2. s # <<>>
        BY SMTT(30), <2>5
      <3> QED BY <2>5, <3>1, <3>2 DEF WriteOrder
    <2>7. In("registry", s) /\ In("rollouts", s) /\ In("review", s) /\ In("manifest", s)
          /\ In("status", s) /\ In("comparison", s)
      BY <2>5 DEF In
    <2> QED BY <2>6, <2>7 DEF s
  <1>3. CASE ~w
    <2> DEFINE T == A \o <<>>
    <2>1. s = T \o B
      BY <1>3 DEF ArtifactOrder
    <2> HIDE DEF A, B, D, s
    <2>2. T = A
      BY <1>1, ConcatEmptySeq
    <2> HIDE DEF T
    <2>4. /\ s \in Seq(Files) /\ Len(s) = Len(A) + Len(B)
          /\ \A i \in 1 .. Len(A) + Len(B) : s[i] = IF i <= Len(A) THEN A[i] ELSE B[i - Len(A)]
      BY <1>1, <2>1, <2>2, ConcatProperties
    <2>5. /\ s \in Seq(Files) /\ Len(s) = 5
          /\ s[1] = "registry" /\ s[2] = "rollouts" /\ s[3] = "review"
          /\ s[4] = "manifest" /\ s[5] = "status"
      BY <1>1, <2>4
    <2>6. WriteOrder(s) /\ s # <<>>
      <3>1. ASSUME NEW i \in 1 .. Len(s), s[i] = "status" PROVE i = Len(s)
        BY <2>5, <3>1
      <3>2. s # <<>>
        BY <2>5
      <3> QED BY <2>5, <3>1, <3>2 DEF WriteOrder
    <2>7. In("registry", s) /\ In("rollouts", s) /\ In("review", s) /\ In("manifest", s)
          /\ In("status", s)
      BY <2>5 DEF In
    <2> QED BY <1>3, <2>6, <2>7 DEF s
  <1> QED BY <1>2, <1>3

\* So does persist_mapo_failure_artifacts with its three files.
LEMMA FailureOrderIsThere ==
  /\ WriteOrder(FailureOrder)
  /\ \A f \in FailFiles : In(f, FailureOrder)
  /\ \A i \in 1 .. Len(FailureOrder) : FailureOrder[i] \in FailFiles
  <1> DEFINE s == FailureOrder
  <1>1. s \in Seq(Files) /\ Len(s) = 3 /\ s[1] = "failure" /\ s[2] = "manifest" /\ s[3] = "status"
    BY DEF FailureOrder, Files
  <1> HIDE DEF s
  <1>2. In("failure", s) /\ In("manifest", s) /\ In("status", s)
    BY <1>1 DEF In
  <1> QED BY <1>1, <1>2 DEF WriteOrder, FailFiles, s

\* One write takes the head off, the status comes last, nothing else is lost.
LEMMA OrdersShrink ==
  ASSUME NEW s, WriteOrder(s), s # <<>>
  PROVE  /\ Head(s) \in Files /\ Head(s) = s[1]
         /\ WriteOrder(Tail(s))
         /\ Head(s) = "status" => Tail(s) = <<>>
         /\ \A f : In(f, s) => f = Head(s) \/ In(f, Tail(s))
         /\ \A i \in 1 .. Len(Tail(s)) : Tail(s)[i] = s[i + 1] /\ i + 1 \in 1 .. Len(s)
  <1>1. s \in Seq(Files) /\ Len(s) \in Nat /\ Len(s) > 0
    BY DEF WriteOrder
  <1>2. Tail(s) \in Seq(Files) /\ Len(Tail(s)) = Len(s) - 1
        /\ \A i \in 1 .. Len(Tail(s)) : Tail(s)[i] = s[i + 1] /\ i + 1 \in 1 .. Len(s)
    BY <1>1
  <1>3. ASSUME NEW f, In(f, s)
        PROVE  f = Head(s) \/ In(f, Tail(s))
    <2> PICK i \in 1 .. Len(s) : s[i] = f
      BY <1>3 DEF In
    <2>1. CASE i = 1 BY <1>1, <2>1
    <2>2. CASE i # 1
      <3>1. i - 1 \in 1 .. Len(Tail(s)) /\ Tail(s)[i - 1] = s[i]
        BY <1>1, <1>2, <2>2
      <3> QED BY <3>1 DEF In
    <2> QED BY <2>1, <2>2
  <1>4. Head(s) \in Files /\ Head(s) = s[1]
    BY <1>1
  <1>5. WriteOrder(Tail(s))
    <2> SUFFICES ASSUME NEW i \in 1 .. Len(Tail(s)), Tail(s)[i] = "status"
                 PROVE  i = Len(Tail(s))
      BY <1>2 DEF WriteOrder
    <2> DEFINE m == Len(Tail(s))
               n == Len(s)
    <2>1. i + 1 = n
      BY <1>2 DEF WriteOrder
    <2>2. m = n - 1 /\ n \in Nat /\ i \in Int
      BY <1>1, <1>2
    <2> HIDE DEF m, n
    <2>3. i = m
      BY <2>1, <2>2
    <2> QED BY <2>3 DEF m
  <1>6. Head(s) = "status" => Tail(s) = <<>>
    <2> SUFFICES ASSUME Head(s) = "status" PROVE Tail(s) = <<>>
      OBVIOUS
    <2>1. 1 = Len(s)
      BY SMTT(30), <1>1, <1>4 DEF WriteOrder
    <2> DEFINE m == Len(Tail(s))
               n == Len(s)
    <2>2. m = n - 1 /\ n = 1
      BY <1>2, <2>1
    <2> HIDE DEF m, n
    <2>3. m = 0
      BY <2>2
    <2> QED BY <1>2, <2>3, EmptySeq DEF m
  <1> QED BY <1>2, <1>3, <1>4, <1>5, <1>6

-----------------------------------------------------------------------------
(* The files on disk *)
Places == {"start", "ready", "generation", "train", "discover", "rank", "select", "end",
           "baseline", "champion", "finish", "result", "failing", "done", "failed", "crashed"}
Searching == {"generation", "train", "discover", "rank", "select", "end", "baseline", "champion"}

\* The two arms are lists.
RecsOK(r) ==
    \E S : r \in [train : Nat, selection : Nat, branch : Nat, baseline : Seq(S), heldout : Seq(S)]

\* The size of an arm.
Arm == cfg.heldoutReps * Len(cfg.heldout)

PlaceInv ==
    /\ cfg \in Config /\ attempt \in 1 .. cfg.attempts /\ step \in Nat
    /\ pc \in Places
    /\ WriteOrder(pending)
    /\ pc \in {"start", "finish", "done", "failed", "crashed"} => pending = <<>>
    /\ pc \in Searching => ~cfg.dry
    /\ RecsOK(recs)
    /\ \E S : cps \in Seq(S)
    /\ pc = "champion" => Len(recs.baseline) = Arm
    /\ pc \in {"finish", "result", "done"} => (verdict # NoVerdict <=> ~cfg.dry)
    /\ verdict # NoVerdict => pc \in {"finish", "result", "failing", "done", "failed", "crashed"}
    /\ PairsExact

\* What the run does between two writes of files: nothing is on disk, the places and
\* lists are those of one of these.
Fails ==
    /\ ~Over /\ pending = <<>>
    /\ pc' = "failing" /\ pending' = FailureOrder /\ step' = step + 1
    /\ UNCHANGED <<cfg, attempt, champ, recs, verdict, disk, ioError>>
Persists ==
    /\ pending = <<>>
    /\ \E w \in BOOLEAN : pending' = ArtifactOrder(w) /\ (w <=> verdict # NoVerdict)
    /\ step' = step + 1
    /\ UNCHANGED <<cfg, attempt, verdict, disk, ioError>>
    /\ \/ /\ pc \in {"start", "train", "discover", "select", "end", "baseline"}
          /\ pc' \in {"ready", "train", "rank", "select", "generation", "champion"}
          /\ pc = "start" <=> pc' = "ready"
          /\ pc' = "champion" => pc = "baseline"
       \/ pc = "finish" /\ pc' = "result"
Moves ==
    /\ pending = <<>> /\ pending' = <<>>
    /\ UNCHANGED <<cfg, attempt, step, disk, ioError>>
    /\ \/ pc = "ready" /\ pc' = (IF cfg.dry THEN "finish" ELSE "generation") /\ UNCHANGED verdict
       \/ /\ pc \in Searching \ {"champion"} /\ pc' \in Searching \ {"champion"}
          /\ UNCHANGED verdict
       \/ pc = "result" /\ pc' = "done" /\ UNCHANGED <<verdict, champ>>
       \/ pc = "failing" /\ pc' = "failed" /\ UNCHANGED verdict
       \/ pc = "champion" /\ pc' = "finish" 

SearchAction ==
    \/ Start \/ Ready \/ Unreachable \/ Propose \/ GroupFails \/ TrainEvaluated \/ TrainEnds
    \/ Discover \/ Rank \/ SelectionEvaluated \/ SelectionEnds \/ GenerationEnds \/ SearchEnds
    \/ HeldoutBaseline \/ HeldoutChampion \/ Finish \/ Return \/ Failed

USE DEF Running, GroupDue

\* Where the train stage goes.
LEMMA TrainLeads == TrainEnds => pc' \in {"end", "discover", "rank"}
  <1>1. CASE ~HasSelection(cfg) /\ ~cfg.branch BY <1>1 DEF TrainEnds
  <1>2. CASE HasSelection(cfg) /\ ~cfg.branch BY <1>2 DEF TrainEnds
  <1>3. CASE ~HasSelection(cfg) /\ cfg.branch BY <1>3 DEF TrainEnds
  <1>4. CASE HasSelection(cfg) /\ cfg.branch BY <1>4 DEF TrainEnds
  <1> QED BY <1>1, <1>2, <1>3, <1>4

\* Every step of the run that writes no file fails, begins a persist or moves on.
LEMMA SearchKinds ==
  ASSUME PlaceInv, SearchAction
  PROVE  Fails \/ Persists \/ Moves
  <1> USE DEF Over
  <1>0. verdict = NoVerdict \/ pc \in {"finish", "result", "failing", "done", "failed", "crashed"}
    BY DEF PlaceInv
  <1>1. ASSUME Start PROVE Fails \/ Persists
    BY <1>0, <1>1 DEF Start, Fail, Persist, Fails, Persists
  <1>2. ASSUME Ready PROVE Moves
    BY <1>2 DEF Ready, Moves
  <1>3. ASSUME Unreachable PROVE Fails
    BY <1>3 DEF Unreachable, Fail, Fails
  <1>4. ASSUME Propose PROVE Moves
    BY <1>4 DEF Propose, Moves, Searching
  <1>5. ASSUME GroupFails PROVE Fails
    BY <1>5 DEF GroupFails, Fail, Fails
  <1>6. ASSUME TrainEvaluated PROVE Persists
    BY <1>0, <1>6 DEF TrainEvaluated, Persist, Persists
  <1>7. ASSUME TrainEnds PROVE Moves
    BY <1>7, TrainLeads DEF TrainEnds, Moves, Searching
  <1>8. ASSUME Discover PROVE Fails \/ Persists
    BY <1>0, <1>8 DEF Discover, Fail, Persist, Fails, Persists
  <1>9. ASSUME Rank PROVE Moves
    BY <1>9 DEF Rank, Moves, Searching
  <1>10. ASSUME SelectionEvaluated PROVE Persists
    BY <1>0, <1>10 DEF SelectionEvaluated, Persist, Persists
  <1>11. ASSUME SelectionEnds PROVE Fails \/ Moves
    BY <1>11 DEF SelectionEnds, Fail, Fails, Moves, Searching
  <1>12. ASSUME GenerationEnds PROVE Persists
    BY <1>0, <1>12 DEF GenerationEnds, Persist, Persists
  <1>13. ASSUME SearchEnds PROVE Moves
    BY <1>13 DEF SearchEnds, Moves, Searching
  <1>14. ASSUME HeldoutBaseline PROVE Persists
    BY <1>0, <1>14 DEF HeldoutBaseline, Persist, Persists
  <1>15. ASSUME HeldoutChampion PROVE Fails \/ Moves
    BY <1>15 DEF HeldoutChampion, Fail, Fails, Moves
  <1>16. ASSUME Finish PROVE Persists
    BY <1>16 DEF Finish, Persist, Persists
  <1>17. ASSUME Return PROVE Moves
    BY <1>17 DEF Return, Moves
  <1>18. ASSUME Failed PROVE Moves
    BY <1>18 DEF Failed, Moves
  <1> QED BY <1>1, <1>2, <1>3, <1>4, <1>5, <1>6, <1>7, <1>8, <1>9, <1>10, <1>11, <1>12, <1>13,
             <1>14, <1>15, <1>16, <1>17, <1>18 DEF SearchAction

Says(f) ==
    /\ disk[f].kind = "run" /\ disk[f].attempt = attempt /\ disk[f].step = step
    /\ disk[f].champ = champ.id /\ disk[f].compared = (verdict # NoVerdict)

Owed == {"registry", "rollouts", "review", "manifest", "status"}
Ending == {"failing", "failed", "crashed"}

\* No file is of a later time than now.
Dated ==
    \A f \in Files : /\ disk[f].attempt \in Nat /\ disk[f].step \in Nat
                     /\ disk[f].attempt <= attempt
                     /\ disk[f].attempt = attempt => disk[f].step <= step

DiskInv ==
    /\ DOMAIN disk = Files
    /\ Dated
    /\ pc \notin Ending /\ (pending # <<>> \/ pc \in {"result", "done"}) =>
          /\ \A f \in Owed : In(f, pending) \/ Says(f)
          /\ verdict # NoVerdict => In("comparison", pending) \/ Says("comparison")
    /\ pc \in {"failing", "failed"} /\ ~ioError =>
          \A f \in FailFiles : In(f, pending) \/ (disk[f].kind = "failed" /\ disk[f].attempt = attempt)
    /\ StatusLast /\ ComparisonBacked

\* The invariant of the files gives the property the runs check.
LEMMA DiskIsTruthfulBy == PlaceInv /\ DiskInv => DiskIsTruthful
  <1> SUFFICES ASSUME PlaceInv, DiskInv PROVE DiskIsTruthful
    OBVIOUS
  <1>1. StatusLast /\ ComparisonBacked
    BY DEF DiskInv, Dated
  <1>2. pc \in {"done", "failed"} => \A f : ~In(f, pending)
    BY DEF PlaceInv, In
  <1>3. ASSUME ~ioError, pc = "failed", NEW f \in FailFiles
        PROVE  disk[f].kind = "failed" /\ disk[f].attempt = attempt
    BY <1>2, <1>3 DEF DiskInv, Dated
  <1>4. ASSUME pc = "done", NEW f \in Owed
        PROVE  Says(f) /\ (verdict # NoVerdict <=> ~cfg.dry)
    BY <1>2, <1>4 DEF DiskInv, Dated, PlaceInv, Ending
  <1>5. ASSUME pc = "done", NEW f \in Owed
        PROVE  disk[f].compared = ~cfg.dry
    <2>1. cfg.dry \in BOOLEAN
      BY DEF PlaceInv, Config
    <2>2. disk[f].compared = (verdict # NoVerdict) /\ (verdict # NoVerdict <=> ~cfg.dry)
      BY <1>4, <1>5 DEF Says
    <2>3. CASE cfg.dry BY <2>2, <2>3
    <2>4. CASE ~cfg.dry BY <2>2, <2>4
    <2> QED BY <2>3, <2>4
  <1>6. ASSUME ~ioError PROVE OutcomeOnDisk
    <2>1. ASSUME pc = "failed", NEW f \in {"manifest", "status", "failure"}
          PROVE  disk[f].kind = "failed" /\ disk[f].attempt = attempt
      BY <1>3, <1>6, <2>1 DEF FailFiles
    <2>2. ASSUME pc = "done", NEW f \in {"manifest", "status", "registry", "rollouts"}
          PROVE  /\ disk[f].kind = "run" /\ disk[f].attempt = attempt
                 /\ disk[f].champ = champ.id /\ disk[f].compared = ~cfg.dry
      BY <1>4, <1>5, <2>2 DEF Says, Owed
    <2> QED BY <2>1, <2>2 DEF OutcomeOnDisk
  <1> QED BY <1>1, <1>6 DEF DiskIsTruthful, OutcomeOnDisk

-----------------------------------------------------------------------------

\* The attempt and the persists begun are numbers.
LEMMA CountsOK == PlaceInv => attempt \in Nat /\ attempt # 0 /\ step \in Nat
  BY DEF PlaceInv, Config

\* A write of now, or a torn one, of any file but the status leaves the status honest.
LEMMA NewerIsFine ==
  ASSUME PlaceInv, DiskInv, NEW g \in Files,
         DOMAIN disk' = Files, \A f \in Files \ {g} : disk'[f] = disk[f],
         g # "status",
         \/ disk'[g].kind = "torn"
         \/ disk'[g].attempt = attempt /\ disk'[g].step = step
  PROVE  StatusLast' /\ ComparisonBacked'
  <1>1. "status" \in Files /\ disk'["status"] = disk["status"]
    BY DEF Files
  <1>2. attempt \in Nat /\ step \in Nat /\ disk["status"].attempt \in Nat /\ disk["status"].step \in Nat
        /\ disk["status"].attempt <= attempt
        /\ (disk["status"].attempt = attempt => disk["status"].step <= step)
    BY CountsOK, <1>1 DEF DiskInv, Dated
  <1>3. disk'[g].kind = "torn" \/ ~Older(disk'[g], disk["status"])
    BY <1>2 DEF Older
  <1>4. StatusLast'
    <2> SUFFICES ASSUME disk["status"].kind = "run",
                        NEW f \in {"registry", "rollouts", "review", "manifest"}, disk'[f].kind # "torn"
                 PROVE  ~Older(disk'[f], disk["status"])
      BY <1>1 DEF StatusLast
    <2>1. CASE f = g BY <1>3, <2>1
    <2>2. CASE f # g
      BY <2>2 DEF Files, DiskInv, Dated, StatusLast
    <2> QED BY <2>1, <2>2
  <1>5. ComparisonBacked'
    <2> SUFFICES ASSUME disk["status"].kind = "run", disk["status"].compared
                 PROVE  disk'["comparison"].kind = "torn" \/ disk'["comparison"].attempt >= disk["status"].attempt
      BY <1>1 DEF ComparisonBacked
    <2>1. CASE g = "comparison" BY <1>2, <2>1
    <2>2. CASE g # "comparison"
      BY <2>2 DEF Files, DiskInv, Dated, ComparisonBacked
    <2> QED BY <2>1, <2>2
  <1> QED BY <1>4, <1>5

\* What the files say of each other depends on the files alone.
LEMMA SameDiskFine ==
  ASSUME DiskInv, disk' = disk
  PROVE  StatusLast' /\ ComparisonBacked'
  BY DEF DiskInv, Dated, StatusLast, ComparisonBacked

\* Nothing is on disk before the first run.
LEMMA DiskInit == Init => DiskInv
  <1> SUFFICES ASSUME Init PROVE DiskInv
    OBVIOUS
  <1>1. /\ DOMAIN disk = Files
        /\ \A f \in Files : disk[f].kind = "absent" /\ disk[f].attempt = 0 /\ disk[f].step = 0
        /\ attempt = 1 /\ step = 0 /\ pc = "start" /\ pending = <<>>
    BY DEF Init, Absent
  <1>2. disk["status"].kind # "run"
    BY <1>1 DEF Files
  <1> QED BY <1>1, <1>2 DEF DiskInv, Dated, StatusLast, ComparisonBacked

\* A failure owes its three files.
LEMMA DiskFails ==
  ASSUME PlaceInv, DiskInv, Fails PROVE DiskInv'
  <1>1. StatusLast' /\ ComparisonBacked'
    BY SameDiskFine DEF Fails
  <1>2. attempt \in Nat /\ step \in Nat
    BY DEF PlaceInv, Config
  <1>3. \A f \in FailFiles : In(f, pending')
    BY FailureOrderIsThere DEF Fails
  <1>4. Dated'
    BY <1>2 DEF Fails, DiskInv, Dated
  <1> QED BY <1>1, <1>3, <1>4 DEF Fails, DiskInv, Dated, Ending

\* A persist owes the files of the state it was begun in.
LEMMA DiskPersists ==
  ASSUME PlaceInv, DiskInv, Persists PROVE DiskInv'
  <1>1. StatusLast' /\ ComparisonBacked'
    BY SameDiskFine DEF Persists
  <1>2. attempt \in Nat /\ step \in Nat
    BY DEF PlaceInv, Config
  <1>3. (\A f \in Owed : In(f, pending')) /\ (verdict' # NoVerdict => In("comparison", pending'))
    BY OrdersAreThere DEF Persists, Owed
  <1>4. Dated'
    BY <1>2 DEF Persists, DiskInv, Dated
  <1>5. pc' \notin Ending
    BY DEF Persists, Ending
  <1> QED BY <1>1, <1>3, <1>4, <1>5 DEF Persists, DiskInv, Dated, Ending

\* Between two persists nothing is owed.
LEMMA DiskMoves ==
  ASSUME PlaceInv, DiskInv, Moves PROVE DiskInv'
  <1>1. StatusLast' /\ ComparisonBacked'
    BY SameDiskFine DEF Moves
  <1>4. DOMAIN disk' = Files /\
        Dated'
    BY DEF Moves, DiskInv, Dated
  <1>5. CASE pc = "result"
    BY <1>5, <1>1, <1>4 DEF Moves, Searching, DiskInv, Dated, Ending, Says
  <1>6. CASE pc = "failing"
    BY <1>6, <1>1, <1>4 DEF Moves, Searching, DiskInv, Dated, Ending
  <1>7. CASE pc \notin {"result", "failing"}
    BY <1>7, <1>1, <1>4 DEF Moves, Searching, DiskInv, Dated
  <1> QED BY <1>5, <1>6, <1>7

\* fs::write of the next file: what it says is of this run and this step.
LEMMA DiskWrite ==
  ASSUME PlaceInv, DiskInv, Write PROVE DiskInv'
  <1> DEFINE g == Head(pending)
             old == pending
  <1>1. g \in Files /\ (g = "status" => Tail(old) = <<>>)
        /\ \A f : In(f, old) => f = g \/ In(f, Tail(old))
    BY OrdersShrink DEF Write, PlaceInv
  <1>2. DOMAIN disk' = Files /\ disk'[g] = Content /\ \A f \in Files \ {g} : disk'[f] = disk[f]
    BY <1>1 DEF Write, DiskInv, Dated
  <1>3. /\ Content.attempt = attempt /\ Content.step = step
        /\ pc = "failing" => Content.kind = "failed"
        /\ pc # "failing" => /\ Content.kind = "run" /\ Content.champ = champ.id
                             /\ Content.compared = (verdict # NoVerdict)
    BY DEF Content
  <1>4. attempt \in Nat /\ step \in Nat
    BY DEF PlaceInv, Config
  <1>5. UNCHANGED <<attempt, step, pc, verdict, champ, ioError>> /\ pending' = Tail(old) /\ old # <<>> /\ ~Over
    BY DEF Write
  <1> HIDE DEF g, old
  <1>6. Dated'
    <2> SUFFICES ASSUME NEW f \in Files
                 PROVE (/\ disk[f].attempt \in Nat /\ disk[f].step \in Nat
                        /\ disk[f].attempt <= attempt
                        /\ disk[f].attempt = attempt => disk[f].step <= step)'
      BY DEF Dated
    <2>1. CASE f = g BY <1>2, <1>3, <1>4, <1>5, <2>1
    <2>2. CASE f # g BY <1>2, <1>5, <2>2 DEF DiskInv, Dated
    <2> QED BY <2>1, <2>2
  <1>7. CASE pc = "failing"
    <2>1. ASSUME ~ioError, NEW f \in FailFiles
          PROVE  (In(f, pending) \/ (disk[f].kind = "failed" /\ disk[f].attempt = attempt))'
      <3>1. f \in Files
        BY DEF FailFiles, Files
      <3>2. In(f, old) \/ (disk[f].kind = "failed" /\ disk[f].attempt = attempt)
        BY <1>7, <2>1 DEF DiskInv, Dated, old
      <3>3. CASE f = g BY <1>2, <1>3, <1>5, <1>7, <3>3
      <3>4. CASE f # g BY <1>1, <1>2, <1>5, <3>1, <3>2, <3>4
      <3> QED BY <3>3, <3>4
    <2>2. StatusLast' /\ ComparisonBacked'
      <3>1. CASE g = "status"
        BY <1>2, <1>3, <1>7, <3>1 DEF StatusLast, ComparisonBacked
      <3>2. CASE g # "status"
        BY <1>1, <1>2, <1>3, <3>2, NewerIsFine
      <3> QED BY <3>1, <3>2
    <2> QED BY <1>2, <1>5, <1>6, <1>7, <2>1, <2>2 DEF DiskInv, Dated, Ending
  <1>8. CASE pc # "failing"
    <2>1. pc \notin Ending
      BY <1>5, <1>8 DEF Ending, Over
    <2>2. /\ \A f \in Owed : In(f, old) \/ Says(f)
          /\ verdict # NoVerdict => In("comparison", old) \/ Says("comparison")
      BY <1>5, <2>1 DEF DiskInv, Dated, old
    <2>3. ASSUME NEW f \in Files, In(f, old) \/ Says(f)
          PROVE  (In(f, pending) \/ Says(f))'
      <3>1. CASE f = g BY <1>2, <1>3, <1>5, <1>8, <3>1 DEF Says
      <3>2. CASE f # g
        BY <1>2, <3>2, <1>1, <1>5, <2>3 DEF Says
      <3> QED BY <3>1, <3>2
    <2>4. "comparison" \in Files /\ "status" \in Files /\ Owed \subseteq Files
      BY DEF Files, Owed
    <2>5. (/\ \A f \in Owed : In(f, pending) \/ Says(f)
           /\ verdict # NoVerdict => In("comparison", pending) \/ Says("comparison"))'
      BY <2>2, <2>3, <2>4, <1>5
    <2>6. StatusLast' /\ ComparisonBacked'
      <3>1. CASE g = "status"
        <4>1. \A f : ~In(f, pending)'
          BY <1>1, <1>5, <3>1 DEF In
        <4>2. (\A f \in Owed : Says(f))' /\ (verdict # NoVerdict => Says("comparison"))'
          BY <2>5, <4>1
        <4>3. ASSUME NEW f \in {"registry", "rollouts", "review", "manifest"}
              PROVE  ~Older(disk'[f], disk'["status"])
          BY <1>5, <4>2, <1>4 DEF Owed, Says, Older
        <4>4. ASSUME disk'["status"].compared
              PROVE  disk'["comparison"].attempt >= disk'["status"].attempt
          <5>1. "status" \in Owed
            BY DEF Owed
          <5>2. disk'["status"].compared = (verdict' # NoVerdict) /\ disk'["status"].attempt = attempt
            BY <1>5, <4>2, <5>1 DEF Says
          <5>3. verdict' # NoVerdict
            BY <4>4, <5>2
          <5>4. disk'["comparison"].attempt = attempt
            BY <1>5, <4>2, <5>3 DEF Says
          <5> QED BY <1>4, <5>2, <5>4
        <4> QED BY <4>3, <4>4 DEF StatusLast, ComparisonBacked
      <3>2. CASE g # "status"
        BY <1>1, <1>2, <1>3, <3>2, NewerIsFine
      <3> QED BY <3>1, <3>2
    <2> QED BY <1>2, <1>5, <1>6, <2>1, <2>5, <2>6 DEF DiskInv, Dated, Ending
  <1> QED BY <1>7, <1>8

\* A torn file claims nothing.
LEMMA DiskTorn ==
  ASSUME PlaceInv, DiskInv, WriteOrder(pending), pending # <<>>,
         disk' = [disk EXCEPT ![Head(pending)] = Torn], attempt' = attempt, step' \in {step, step + 1}
  PROVE  /\ DOMAIN disk' = Files
         /\ Dated'
         /\ StatusLast' /\ ComparisonBacked'
  <1> DEFINE g == Head(pending)
  <1>1. g \in Files
    BY OrdersShrink
  <1>2. DOMAIN disk' = Files /\ disk'[g] = Torn /\ \A f \in Files \ {g} : disk'[f] = disk[f]
    BY <1>1 DEF DiskInv, Dated
  <1>3. Torn.kind = "torn" /\ Torn.attempt = 0 /\ Torn.step = 0
    BY DEF Torn
  <1>4. attempt \in Nat /\ attempt # 0 /\ step \in Nat
    BY DEF PlaceInv, Config
  <1> HIDE DEF g
  <1>5. Dated'
    <2> SUFFICES ASSUME NEW f \in Files
                 PROVE (/\ disk[f].attempt \in Nat /\ disk[f].step \in Nat
                        /\ disk[f].attempt <= attempt
                        /\ disk[f].attempt = attempt => disk[f].step <= step)'
      BY DEF Dated
    <2>1. CASE f = g BY <1>2, <1>3, <1>4, <2>1
    <2>2. CASE f # g
      BY <1>2, <2>2, <1>4 DEF DiskInv, Dated
    <2> QED BY <2>1, <2>2
  <1>6. StatusLast' /\ ComparisonBacked'
    <2>1. CASE g = "status"
      BY <1>2, <1>3, <2>1 DEF StatusLast, ComparisonBacked
    <2>2. CASE g # "status"
      BY <1>1, <1>2, <1>3, <2>2, NewerIsFine
    <2> QED BY <2>1, <2>2
  <1> QED BY <1>2, <1>5, <1>6

\* A write that fails leaves the file torn or as it was.
LEMMA DiskWriteFails ==
  ASSUME PlaceInv, DiskInv, WriteFails PROVE DiskInv'
  <1>1. /\ DOMAIN disk' = Files
        /\ Dated'
        /\ StatusLast' /\ ComparisonBacked'
    <2>1. attempt' = attempt /\ step' \in {step, step + 1} /\ pending # <<>>
      BY DEF WriteFails
    <2>2. WriteOrder(pending)
      BY DEF PlaceInv
    <2>3. CASE disk' = [disk EXCEPT ![Head(pending)] = Torn]
      BY <2>1, <2>2, <2>3, DiskTorn
    <2>4. CASE disk' = disk
      <3>1. attempt \in Nat /\ step \in Nat
        BY DEF PlaceInv, Config
      <3>2. StatusLast' /\ ComparisonBacked'
        BY <2>4, SameDiskFine
      <3> QED BY <2>1, <2>4, <3>1, <3>2 DEF DiskInv, Dated
    <2> QED BY <2>3, <2>4 DEF WriteFails
  <1>2. ioError' /\ pc' \in Ending
    BY DEF WriteFails, Ending
  <1> QED BY <1>1, <1>2 DEF DiskInv, Dated

\* So does a crash.
LEMMA DiskCrash ==
  ASSUME PlaceInv, DiskInv, Crash PROVE DiskInv'
  <1>1. /\ DOMAIN disk' = Files
        /\ Dated'
        /\ StatusLast' /\ ComparisonBacked'
    <2>1. attempt' = attempt /\ step' = step
      BY DEF Crash
    <2>2. WriteOrder(pending)
      BY DEF PlaceInv
    <2>3. CASE pending # <<>> /\ disk' = [disk EXCEPT ![Head(pending)] = Torn]
      BY <2>1, <2>2, <2>3, DiskTorn
    <2>4. CASE disk' = disk
      BY <2>4, SameDiskFine, <2>1 DEF DiskInv, Dated
    <2> QED BY <2>3, <2>4 DEF Crash
  <1>2. pc' = "crashed"
    BY DEF Crash
  <1> QED BY <1>1, <1>2 DEF DiskInv, Dated, Ending

\* A rerun is of a later attempt than every file of the directory.
LEMMA DiskRerun ==
  ASSUME PlaceInv, DiskInv, Rerun PROVE DiskInv'
  <1>1. disk' = disk /\ attempt' = attempt + 1 /\ pc' = "start" /\ pending' = <<>>
    BY DEF Rerun, Fresh
  <1>2. StatusLast' /\ ComparisonBacked'
    BY <1>1, SameDiskFine
  <1>3. attempt \in Nat
    BY DEF PlaceInv, Config
  <1>4. Dated'
    <2> SUFFICES ASSUME NEW f \in Files
                 PROVE (/\ disk[f].attempt \in Nat /\ disk[f].step \in Nat
                        /\ disk[f].attempt <= attempt
                        /\ disk[f].attempt = attempt => disk[f].step <= step)'
      BY DEF Dated
    <2> QED BY <1>1, <1>3 DEF DiskInv, Dated
  <1> QED BY <1>1, <1>2, <1>4 DEF DiskInv, Dated, Ending

\* The invariant of the files is kept by every step.
LEMMA DiskStep ==
  ASSUME PlaceInv, DiskInv, [Next]_vars PROVE DiskInv'
  <1>1. CASE SearchAction
    BY <1>1, SearchKinds, DiskFails, DiskPersists, DiskMoves
  <1>2. CASE Write BY <1>2, DiskWrite
  <1>3. CASE WriteFails BY <1>3, DiskWriteFails
  <1>4. CASE Crash BY <1>4, DiskCrash
  <1>5. CASE Rerun BY <1>5, DiskRerun
  <1>6. CASE UNCHANGED vars
    BY <1>6 DEF vars, DiskInv, Dated, Says, StatusLast, ComparisonBacked
  <1> QED BY <1>1, <1>2, <1>3, <1>4, <1>5, <1>6 DEF Next, Advance, SearchAction

HIDE DEF Running, GroupDue

-----------------------------------------------------------------------------
(* Concatenation *)
\* f glues the first n lists of s together, one after another.
Glues(f, s, n) ==
    f = [i \in 1 .. n |-> IF i = 1 THEN s[i] ELSE f[i - 1] \o s[i]]

\* A set of naturals that is not empty has a least element.
LEMMA LeastOf ==
  ASSUME NEW T, T \subseteq Nat, T # {}
  PROVE  \E x \in T : \A y \in T : x <= y
  <1>1. PICK x \in T : \A y \in T : ~(<<y, x>> \in OpToRel(<, Nat))
    BY NatLessThanWellFounded, WFMin
  <1>2. ASSUME NEW y \in T PROVE x <= y
    <2>1. x \in Nat /\ y \in Nat /\ ~(<<y, x>> \in OpToRel(<, Nat))
      BY <1>1
    <2> QED BY <2>1 DEF OpToRel
  <1> QED BY <1>2

\* Gluing the lists of a list is defined for each number of them: by the least counterexample.
LEMMA GluesExist ==
  ASSUME NEW s, NEW n \in Nat
  PROVE  \E f : Glues(f, s, n)
  <1> DEFINE T == {m \in Nat : ~\E f : Glues(f, s, m)}
  <1> SUFFICES T = {}
    OBVIOUS
  <1> SUFFICES ASSUME T # {} PROVE FALSE
    OBVIOUS
  <1>1. PICK m \in T : \A y \in T : m <= y
    <2> T \subseteq Nat
      OBVIOUS
    <2> HIDE DEF T
    <2> QED BY LeastOf
  <1>2. m # 0
    <2> DEFINE f == [i \in 1 .. 0 |-> s[i]]
    <2>1. Glues(f, s, 0)
      BY DEF Glues
    <2> QED BY <2>1
  <1>3. m - 1 \in Nat /\ m - 1 \notin T /\ m \in Nat
    BY <1>1, <1>2
  <1>4. PICK f : Glues(f, s, m - 1)
    BY <1>3
  <1> DEFINE g == [i \in 1 .. m |-> IF i = m THEN (IF i = 1 THEN s[i] ELSE f[i - 1] \o s[i]) ELSE f[i]]
  <1>5. Glues(g, s, m)
    <2>1. \A i \in 1 .. m - 1 : f[i] = (IF i = 1 THEN s[i] ELSE f[i - 1] \o s[i])
      BY <1>4 DEF Glues
    <2>2. ASSUME NEW i \in 1 .. m
          PROVE  g[i] = IF i = 1 THEN s[i] ELSE g[i - 1] \o s[i]
      <3>1. CASE i = m /\ i = 1 BY <3>1
      <3>2. CASE i = m /\ i # 1
        <4>1. i - 1 \in 1 .. m - 1 /\ i - 1 \in 1 .. m /\ i - 1 # m
          BY <1>3, <3>2
        <4>2. g[i - 1] = f[i - 1]
          BY <4>1
        <4> QED BY <3>2, <4>2
      <3>3. CASE i # m /\ i = 1
        BY <1>3, <2>1, <3>3
      <3>4. CASE i # m /\ i # 1
        <4>1. i \in 1 .. m - 1 /\ i - 1 \in 1 .. m /\ i - 1 # m
          BY <1>3, <3>4
        <4>2. g[i - 1] = f[i - 1] /\ g[i] = f[i]
          BY <3>4, <4>1
        <4> QED BY <2>1, <3>4, <4>1, <4>2
      <3> QED BY <3>1, <3>2, <3>3, <3>4
    <2> HIDE DEF g
    <2>3. g = [i \in 1 .. m |-> g[i]]
      BY DEF g
    <2> QED BY <2>2, <2>3 DEF Glues
  <1> QED BY <1>1, <1>5

\* The concatenation of lists over S is a list over S.
LEMMA FlattenIsSeq ==
  ASSUME NEW S, NEW s \in Seq(Seq(S))
  PROVE  FlattenSeq(s) \in Seq(S)
  <1>1. CASE Len(s) = 0
    BY <1>1, EmptySeq DEF FlattenSeq
  <1>2. CASE Len(s) # 0
    <2> DEFINE n == Len(s)
               f == CHOOSE f : f = [i \in 1 .. Len(s) |-> IF i = 1 THEN s[i] ELSE f[i - 1] \o s[i]]
    <2>1. n \in Nat /\ n > 0
      BY <1>2
    <2>2. FlattenSeq(s) = f[n]
      BY <1>2 DEF FlattenSeq
    <2>3. f = [i \in 1 .. Len(s) |-> IF i = 1 THEN s[i] ELSE f[i - 1] \o s[i]]
      BY <2>1, GluesExist DEF Glues
    <2> HIDE DEF f
    <2>4. \A i \in 1 .. n : f[i] = IF i = 1 THEN s[i] ELSE f[i - 1] \o s[i]
      BY <2>3
    <2> DEFINE T == {m \in Nat : m \in 1 .. n /\ f[m] \notin Seq(S)}
    <2> SUFFICES ASSUME T # {} PROVE FALSE
      BY <2>1, <2>2
    <2>5. PICK m \in T : \A y \in T : m <= y
      <3> T \subseteq Nat
        OBVIOUS
      <3> HIDE DEF T
      <3> QED BY LeastOf
    <2>6. m \in 1 .. n /\ s[m] \in Seq(S)
      OBVIOUS
    <2>7. m # 1
      BY <2>4, <2>6
    <2>8. m - 1 \in 1 .. n /\ m - 1 \notin T /\ m - 1 \in Nat
      BY <2>1, <2>5, <2>6, <2>7
    <2>9. f[m - 1] \in Seq(S)
      BY <2>8
    <2>10. f[m] = f[m - 1] \o s[m]
      BY <2>4, <2>6, <2>7
    <2> QED BY <2>6, <2>9, <2>10, ConcatProperties
  <1> QED BY <1>1, <1>2

-----------------------------------------------------------------------------
(* The cases of a group and the records of its rollouts *)
\* A list of n cases.
CaseList(cs, n) == n \in Nat /\ DOMAIN cs = 1 .. n /\ Len(cs) = n

\* The cases of a seed split: one per seed and repetition.
LEMMA SeedCasesList ==
  ASSUME NEW seeds \in Seq(Int), NEW reps \in Nat
  PROVE  CaseList(SeedCases(seeds, reps), reps * Len(seeds))
  BY DEF CaseList, SeedCases

\* The cases of a task split: one per task and repetition.
LEMMA TaskCasesList ==
  ASSUME NEW tasks \in Seq(Nat), NEW reps \in Nat
  PROVE  CaseList(TaskCases(tasks, reps), reps * Len(tasks))
  BY DEF CaseList, TaskCases

\* rollout_record makes one record of each case.
LEMMA RecordsList ==
  ASSUME NEW cs, NEW n, CaseList(cs, n), NEW p, NEW c
  PROVE  \E S : Records(cs, p, c) \in Seq(S) /\ Len(Records(cs, p, c)) = n
  <1> DEFINE r == Records(cs, p, c)
             S == {r[i] : i \in 1 .. n}
  <1>1. n \in Nat /\ DOMAIN r = 1 .. n
    BY DEF CaseList, Records
  <1>2. r = [i \in 1 .. n |-> r[i]]
    BY <1>1 DEF Records
  <1> HIDE DEF r
  <1>3. \A i \in 1 .. n : r[i] \in S
    OBVIOUS
  <1>4. r \in [1 .. n -> S]
    BY <1>2, <1>3
  <1> HIDE DEF S
  <1>5. r \in Seq(S) /\ Len(r) = n
    BY <1>1, <1>4
  <1> QED BY <1>5 DEF r

\* The group of each stage.
LEMMA GroupParts ==
  /\ pc = "train" => /\ NextGroup.split = "train" /\ NextGroup.name = <<gen, "c", Len(todo)>>
                     /\ NextGroup.cases = SeedCases(cfg.train, cfg.trainReps)
  /\ pc = "discover" => /\ NextGroup.split = "branch_discovery" /\ NextGroup.name = <<gen, "d", 0>>
                        /\ NextGroup.cases = DiscoveryCases(cfg)
  /\ pc = "select" => /\ NextGroup.split \in {"selection", "branch_selection"}
                      /\ NextGroup.name = <<gen, "s", Len(todo)>>
                      /\ NextGroup.cases = SelectionCases
  /\ pc = "baseline" => /\ NextGroup.split = "heldout_baseline" /\ NextGroup.name = <<0, "h", 0>>
                        /\ NextGroup.cases = SeedCases(cfg.heldout, cfg.heldoutReps)
  /\ pc = "champion" => /\ NextGroup.split = "heldout" /\ NextGroup.name = <<0, "h", 1>>
                        /\ NextGroup.cases = SeedCases(cfg.heldout, cfg.heldoutReps)
  <1>1. CASE pc = "train" BY <1>1 DEF NextGroup
  <1>2. CASE pc = "discover" BY <1>2 DEF NextGroup
  <1>3. CASE pc = "select" BY <1>3 DEF NextGroup
  <1>4. CASE pc = "baseline" BY <1>4 DEF NextGroup
  <1>5. CASE pc = "champion" BY <1>5 DEF NextGroup
  <1> QED BY <1>1, <1>2, <1>3, <1>4, <1>5

\* The group that is due is a list of cases.
LEMMA GroupList ==
  ASSUME PlaceInv, GroupDue
  PROVE  \E n : CaseList(NextGroup.cases, n)
  <1>1. /\ cfg.train \in Seq(Int) /\ cfg.trainReps \in Nat /\ cfg.selSeeds \in Seq(Int)
        /\ cfg.selTasks \in Seq(Nat) /\ cfg.selReps \in Nat /\ 1 \in Nat
        /\ cfg.heldout \in Seq(Int) /\ cfg.heldoutReps \in Nat
    BY DEF PlaceInv, Config
  <1>2. CASE pc = "train"
    BY <1>1, <1>2, GroupParts, SeedCasesList
  <1>3. CASE pc = "discover"
    BY <1>3, GroupParts, <1>1, SeedCasesList, TaskCasesList DEF DiscoveryCases
  <1>4. CASE pc = "select"
    <2>1. NextGroup.cases \in {BranchCases(cps), SeedCases(cfg.selSeeds, cfg.selReps),
                               TaskCases(cfg.selTasks, cfg.selReps)}
      BY <1>4, GroupParts DEF SelectionCases
    <2>2. CaseList(BranchCases(cps), Len(cps))
      BY DEF PlaceInv, CaseList, BranchCases
    <2> QED BY <1>1, <2>1, <2>2, SeedCasesList, TaskCasesList
  <1>5. CASE pc \in {"baseline", "champion"}
    BY <1>1, <1>5, GroupParts, SeedCasesList
  <1> QED BY <1>2, <1>3, <1>4, <1>5 DEF GroupDue

\* What a step does to the counts and the arms.
LEMMA RecsCounts ==
  ASSUME RecsOK(recs), NEW n \in Nat, NEW b \in BOOLEAN
  PROVE  /\ RecsOK([recs EXCEPT !.train = @ + n])
         /\ RecsOK([recs EXCEPT !.branch = @ + n])
         /\ RecsOK([recs EXCEPT !.selection = @ + n, !.branch = IF b THEN @ + n ELSE @])
  <1> PICK S : recs \in [train : Nat, selection : Nat, branch : Nat, baseline : Seq(S), heldout : Seq(S)]
    BY DEF RecsOK
  <1> DEFINE R == [train : Nat, selection : Nat, branch : Nat, baseline : Seq(S), heldout : Seq(S)]
  <1>1. [recs EXCEPT !.train = @ + n] \in R
    OBVIOUS
  <1>2. [recs EXCEPT !.branch = @ + n] \in R
    OBVIOUS
  <1>3. [recs EXCEPT !.selection = @ + n, !.branch = IF b THEN @ + n ELSE @] \in R
    <2>1. recs.branch \in Nat /\ recs.selection + n \in Nat
      OBVIOUS
    <2>2. (IF b THEN recs.branch + n ELSE recs.branch) \in Nat
      BY <2>1
    <2> QED BY <2>1, <2>2
  <1> QED BY <1>1, <1>2, <1>3 DEF RecsOK

\* What the heldout stages do to the two arms.
LEMMA RecsArms ==
  ASSUME RecsOK(recs), NEW S2, NEW s \in Seq(S2)
  PROVE  /\ RecsOK([recs EXCEPT !.baseline = s]) /\ RecsOK([recs EXCEPT !.heldout = s])
         /\ [recs EXCEPT !.baseline = s].baseline = s
         /\ [recs EXCEPT !.heldout = s].heldout = s
         /\ [recs EXCEPT !.heldout = s].baseline = recs.baseline
         /\ recs.baseline = <<>> \/ Len(recs.baseline) \in Nat \ {0}
         /\ Len(recs.baseline) \in Nat
  <1> PICK S : recs \in [train : Nat, selection : Nat, branch : Nat, baseline : Seq(S), heldout : Seq(S)]
    BY DEF RecsOK
  <1> DEFINE U == S \cup S2
             R == [train : Nat, selection : Nat, branch : Nat, baseline : Seq(U), heldout : Seq(U)]
  <1>1. recs.baseline \in Seq(S) /\ recs.heldout \in Seq(S)
    OBVIOUS
  <1>2. recs.baseline \in Seq(U) /\ recs.heldout \in Seq(U) /\ s \in Seq(U)
    BY <1>1, SeqMonotonic
  <1>3. recs \in R
    BY <1>2
  <1> HIDE DEF U
  <1>4. [recs EXCEPT !.baseline = s] \in R /\ [recs EXCEPT !.heldout = s] \in R
    BY <1>2, <1>3
  <1>5. RecsOK([recs EXCEPT !.baseline = s]) /\ RecsOK([recs EXCEPT !.heldout = s])
    BY <1>4 DEF RecsOK
  <1>6. recs.baseline = <<>> \/ Len(recs.baseline) \in Nat \ {0}
    BY <1>1, EmptySeq
  <1> QED BY <1>1, <1>5, <1>6

\* MapoHeldoutComparison::new accepts arms with the same keys only, each key once.
LEMMA ArmsPaired ==
  ASSUME NEW c, NEW b, NEW h, Paired(b, h), Len(b) \in Nat \ {0}, Len(h) \in Nat
  PROVE  /\ Verdict(c, b, h) # NoVerdict
         /\ Verdict(c, b, h).pairs = Len(b) /\ Verdict(c, b, h).pairs = Len(h)
         /\ PairKeys(b) = PairKeys(h)
  BY DEF Paired, Verdict, NoVerdict

\* The baseline arm holds the whole product of heldout seeds and repetitions.
LEMMA BaselineArm ==
  ASSUME PlaceInv, HeldoutBaseline
  PROVE  RecsOK(recs)' /\ Len(recs'.baseline) = Arm
  <1>1. PICK p \in cfg.answers : recs' = [recs EXCEPT !.baseline = Records(NextGroup.cases, p, <<>>)]
    BY DEF HeldoutBaseline
  <1>2. cfg.heldout \in Seq(Int) /\ cfg.heldoutReps \in Nat
    BY DEF PlaceInv, Config
  <1>3. NextGroup.cases = SeedCases(cfg.heldout, cfg.heldoutReps)
    BY GroupParts DEF HeldoutBaseline
  <1>4. PICK S : Records(NextGroup.cases, p, <<>>) \in Seq(S) /\ Len(Records(NextGroup.cases, p, <<>>)) = Arm
    <2>1. CaseList(NextGroup.cases, Arm)
      BY <1>2, <1>3, SeedCasesList DEF Arm
    <2> QED BY <2>1, RecordsList
  <1>5. RecsOK(recs)
    BY DEF PlaceInv
  <1> QED BY <1>1, <1>4, <1>5, RecsArms

\* So does the champion arm, when the comparison is made.
LEMMA ChampionArm ==
  ASSUME PlaceInv, HeldoutChampion, pc' # "failing"
  PROVE  RecsOK(recs)' /\ PairsExact' /\ verdict' # NoVerdict
  <1>1. PICK p \in cfg.answers :
           /\ recs' = [recs EXCEPT !.heldout = Records(NextGroup.cases, p, <<>>)]
           /\ verdict' = Verdict(cfg, recs.baseline, Records(NextGroup.cases, p, <<>>))
           /\ Paired(recs.baseline, Records(NextGroup.cases, p, <<>>))
    BY DEF HeldoutChampion, Fail
  <1> DEFINE h == Records(NextGroup.cases, p, <<>>)
  <1>2. cfg.heldout \in Seq(Int) /\ cfg.heldoutReps \in Nat /\ cfg' = cfg
    BY DEF PlaceInv, Config, HeldoutChampion, Fail
  <1>3. NextGroup.cases = SeedCases(cfg.heldout, cfg.heldoutReps)
    BY GroupParts DEF HeldoutChampion
  <1>4. PICK S : h \in Seq(S) /\ Len(h) = Arm
    <2>1. CaseList(NextGroup.cases, Arm)
      BY <1>2, <1>3, SeedCasesList DEF Arm
    <2> QED BY <2>1, RecordsList
  <1>5. RecsOK(recs) /\ Len(recs.baseline) = Arm
    BY DEF PlaceInv, HeldoutChampion
  <1> HIDE DEF h
  <1>6. recs' = [recs EXCEPT !.heldout = h] /\ verdict' = Verdict(cfg, recs.baseline, h)
        /\ Paired(recs.baseline, h)
    BY <1>1 DEF h
  <1>7. RecsOK(recs') /\ recs'.heldout = h /\ recs'.baseline = recs.baseline
        /\ (recs.baseline = <<>> \/ Len(recs.baseline) \in Nat \ {0})
    BY <1>4, <1>5, <1>6, RecsArms
  <1>8. recs.baseline # <<>>
    BY <1>6 DEF Paired
  <1>9. Len(recs.baseline) \in Nat \ {0} /\ Len(h) \in Nat
    BY <1>4, <1>7, <1>8
  <1>10. /\ verdict' # NoVerdict
         /\ verdict'.pairs = Len(recs.baseline) /\ verdict'.pairs = Len(h)
         /\ PairKeys(recs.baseline) = PairKeys(h)
    BY <1>6, <1>9, ArmsPaired
  <1>11. Arm = Len(cfg.heldout) * cfg.heldoutReps
    BY <1>2 DEF Arm
  <1>12. PairsExact'
    BY <1>2, <1>5, <1>7, <1>10, <1>11 DEF PairsExact
  <1> QED BY <1>7, <1>10, <1>12

\* The smaller of two numbers is one of them and no larger than either.
LEMMA MinOf ==
  ASSUME NEW a \in Int, NEW b \in Int
  PROVE  /\ Min({a, b}) \in {a, b} /\ Min({a, b}) <= a /\ Min({a, b}) <= b
  <1>1. \E x \in {a, b} : \A y \in {a, b} : x <= y
    <2>1. CASE a <= b BY <2>1
    <2>2. CASE b <= a BY <2>2
    <2> QED BY <2>1, <2>2
  <1> QED BY <1>1 DEF Min

\* extract_branch_checkpoints returns a list, every checkpoint with the seed of its rollout.
LEMMA ExtractIsSeq ==
  ASSUME NEW c \in Config, NEW case, NEW schedule \in Schedules
  PROVE  /\ Extract(c, case, schedule) \in
              Seq({Extract(c, case, schedule)[j] : j \in DOMAIN Extract(c, case, schedule)})
         /\ \A j \in DOMAIN Extract(c, case, schedule) : Extract(c, case, schedule)[j].seed = case.seed
  <1> DEFINE late == {i \in DOMAIN schedule : schedule[i].at >= c.minStep}
             n == Min({c.keep, Cardinality(late)})
             e == Extract(c, case, schedule)
             S == {e[j] : j \in DOMAIN e}
  <1>1. Cardinality(late) \in Nat
    <2>1. DOMAIN schedule = 1 .. Len(schedule) /\ Len(schedule) \in Nat
      BY MapoAssumption
    <2>2. IsFiniteSet(1 .. Len(schedule))
      BY <2>1, FS_Interval
    <2>3. late \subseteq 1 .. Len(schedule)
      BY <2>1
    <2> HIDE DEF late
    <2> QED BY <2>2, <2>3, FS_Subset, FS_CardinalityType
  <1>2. c.keep \in Nat
    BY DEF Config
  <1>3. n \in Nat
    <2> HIDE DEF late
    <2> DEFINE k == Cardinality(late)
               h == c.keep
    <2>1. k \in Int /\ h \in Int /\ k \in Nat /\ h \in Nat
      BY <1>1, <1>2
    <2> HIDE DEF k, h
    <2>2. Min({h, k}) \in {h, k}
      BY <2>1, MinOf
    <2>3. n = Min({h, k})
      BY DEF h, k
    <2> QED BY <2>1, <2>2, <2>3
  <1>4. DOMAIN e = 1 .. n /\ e = [j \in 1 .. n |-> e[j]] /\ \A j \in 1 .. n : e[j].seed = case.seed
    BY DEF Extract
  <1> HIDE DEF e, n, late
  <1>5. e \in [1 .. n -> S]
    BY <1>4
  <1> HIDE DEF S
  <1>6. e \in Seq(S)
    BY <1>3, <1>5
  <1> QED BY <1>4, <1>6 DEF e, S

\* The checkpoints of a discovery come from the cases it rolled out.
LEMMA CheckpointsList ==
  ASSUME PlaceInv, Discover, pc' # "failing"
  PROVE  \E S : /\ cps' \in Seq(S)
               /\ \A x \in S : \E i \in DOMAIN NextGroup.cases : x.seed = NextGroup.cases[i].seed
  <1>1. PICK schedule \in Schedules :
          cps' = FlattenSeq([i \in DOMAIN NextGroup.cases |-> Extract(cfg, NextGroup.cases[i], schedule)])
    BY DEF Discover, Fail
  <1>2. PICK n : CaseList(NextGroup.cases, n)
    BY GroupList DEF Discover
  <1> DEFINE cs == NextGroup.cases
             found == [i \in DOMAIN cs |-> Extract(cfg, cs[i], schedule)]
             S == UNION {{found[i][j] : j \in DOMAIN found[i]} : i \in 1 .. n}
  <1>3. cfg \in Config /\ n \in Nat /\ DOMAIN cs = 1 .. n
    BY <1>2 DEF PlaceInv, CaseList
  <1> HIDE DEF cs
  <1>4. ASSUME NEW i \in 1 .. n
        PROVE  /\ found[i] \in Seq(S)
               /\ \A j \in DOMAIN found[i] : found[i][j].seed = cs[i].seed
    <2>1. found[i] = Extract(cfg, cs[i], schedule)
      BY <1>3
    <2>2. found[i] \in Seq({found[i][j] : j \in DOMAIN found[i]})
      BY <1>3, <2>1, ExtractIsSeq
    <2>3. \A j \in DOMAIN found[i] : found[i][j].seed = cs[i].seed
      BY <1>3, <2>1, ExtractIsSeq
    <2>4. {found[i][j] : j \in DOMAIN found[i]} \subseteq S
      <3> HIDE DEF found
      <3> QED OBVIOUS
    <2> HIDE DEF found, S
    <2> QED BY <2>2, <2>3, <2>4, SeqMonotonic
  <1>5. found = [i \in 1 .. n |-> found[i]] /\ DOMAIN found = 1 .. n
    BY <1>3
  <1>6. \A x \in S : \E i \in 1 .. n : x.seed = cs[i].seed
    <2> SUFFICES ASSUME NEW x \in S PROVE \E i \in 1 .. n : x.seed = cs[i].seed
      OBVIOUS
    <2> HIDE DEF found
    <2>1. PICK i \in 1 .. n : x \in {found[i][j] : j \in DOMAIN found[i]}
      OBVIOUS
    <2>2. PICK j \in DOMAIN found[i] : x = found[i][j]
      BY <2>1
    <2> QED BY <1>4, <2>2
  <1>7. cps' = FlattenSeq(found)
    BY <1>1 DEF cs
  <1> HIDE DEF found, S
  <1>8. found \in [1 .. n -> Seq(S)]
    BY <1>4, <1>5
  <1>9. found \in Seq(Seq(S))
    BY <1>3, <1>8
  <1>10. cps' \in Seq(S)
    BY <1>7, <1>9, FlattenIsSeq
  <1> QED BY <1>3, <1>6, <1>10 DEF cs

-----------------------------------------------------------------------------
(* Places, counts and the two arms *)
\* The invariant of the places holds before the run starts.
LEMMA PlaceInit == Init => PlaceInv
  <1> SUFFICES ASSUME Init PROVE PlaceInv
    OBVIOUS
  <1>1. cfg \in Config /\ attempt = 1 /\ step = 0 /\ pc = "start" /\ pending = <<>>
        /\ recs = NoRecords /\ cps = <<>> /\ verdict = NoVerdict
    BY MapoAssumption DEF Init
  <1>2. cfg.attempts \in Nat \ {0}
    BY <1>1 DEF Config
  <1>3. NoRecords \in [train : Nat, selection : Nat, branch : Nat, baseline : Seq({}), heldout : Seq({})]
    BY DEF NoRecords
  <1>4. RecsOK(recs)
    BY <1>1, <1>3 DEF RecsOK
  <1>5. WriteOrder(pending) /\ cps \in Seq({})
    BY <1>1 DEF WriteOrder
  <1>6. PairsExact
    BY <1>1 DEF PairsExact
  <1> QED BY <1>1, <1>2, <1>4, <1>5, <1>6 DEF PlaceInv, Places, Searching

\* The counts and the checkpoints stay lists and numbers.
LEMMA DataStep ==
  ASSUME PlaceInv, SearchAction
  PROVE  RecsOK(recs)' /\ (\E S : cps' \in Seq(S))
  <1>0. RecsOK(recs) /\ \E S : cps \in Seq(S)
    BY DEF PlaceInv
  <1>1. ASSUME UNCHANGED recs PROVE RecsOK(recs)'
    BY <1>0, <1>1
  <1>2. ASSUME UNCHANGED cps PROVE \E S : cps' \in Seq(S)
    BY <1>0, <1>2
  <1>3. CASE TrainEvaluated
    <2>1. PICK n : CaseList(NextGroup.cases, n)
      BY <1>3, GroupList DEF TrainEvaluated
    <2>2. recs' = [recs EXCEPT !.train = @ + n] /\ n \in Nat /\ UNCHANGED cps
      BY <1>3, <2>1 DEF TrainEvaluated, CaseList
    <2> QED BY <1>0, <1>2, <2>2, RecsCounts
  <1>4. CASE SelectionEvaluated
    <2>1. PICK n : CaseList(NextGroup.cases, n)
      BY <1>4, GroupList DEF SelectionEvaluated
    <2>2. recs' = [recs EXCEPT !.selection = @ + n, !.branch = IF cfg.branch THEN @ + n ELSE @]
          /\ n \in Nat /\ UNCHANGED cps
      BY <1>4, <2>1 DEF SelectionEvaluated, CaseList
    <2>3. cfg.branch \in BOOLEAN
      BY DEF PlaceInv, Config
    <2> QED BY <1>0, <1>2, <2>2, <2>3, RecsCounts
  <1>5. CASE Discover
    <2>1. PICK n : CaseList(NextGroup.cases, n)
      BY <1>5, GroupList DEF Discover
    <2>2. CASE pc' # "failing"
      <3>1. recs' = [recs EXCEPT !.branch = @ + n] /\ n \in Nat
        BY <1>5, <2>1, <2>2 DEF Discover, CaseList, Fail
      <3> QED BY <1>0, <1>5, <2>2, <3>1, RecsCounts, CheckpointsList
    <2>3. CASE pc' = "failing"
      BY <1>1, <1>2, <1>5, <2>3 DEF Discover, Fail
    <2> QED BY <2>2, <2>3
  <1>6. CASE HeldoutBaseline
    BY <1>2, <1>6, BaselineArm DEF HeldoutBaseline
  <1>7. CASE HeldoutChampion
    <2>1. UNCHANGED cps
      BY <1>7 DEF HeldoutChampion, Fail
    <2>2. CASE pc' # "failing" BY <1>2, <1>7, <2>1, <2>2, ChampionArm
    <2>3. CASE pc' = "failing" BY <1>1, <1>2, <1>7, <2>3 DEF HeldoutChampion, Fail
    <2> QED BY <2>2, <2>3
  <1>8. CASE TrainEnds
    BY <1>8, <1>1 DEF TrainEnds
  <1>9. CASE Start \/ Ready \/ Unreachable \/ Propose \/ GroupFails \/ Rank \/ SelectionEnds
             \/ GenerationEnds \/ SearchEnds \/ Finish \/ Return \/ Failed
    <2>1. UNCHANGED <<recs, cps>>
      BY <1>9 DEF Start, Ready, Unreachable, Propose, GroupFails, Rank, SelectionEnds,
             GenerationEnds, SearchEnds, Finish, Return, Failed, Fail
    <2> QED BY <1>1, <1>2, <2>1
  <1> QED BY <1>3, <1>4, <1>5, <1>6, <1>7, <1>8, <1>9 DEF SearchAction

\* What becomes of the comparison.
LEMMA VerdictStep ==
  ASSUME PlaceInv, SearchAction
  PROVE  /\ cfg' = cfg
         /\ PairsExact'
         /\ pc' = "champion" => Len(recs'.baseline) = Arm
         /\ \/ verdict' = verdict /\ pc' # "finish"
            \/ verdict' = NoVerdict /\ verdict = NoVerdict /\ pc = "ready"
            \/ (verdict' # NoVerdict /\ pc' = "finish" /\ pc = "champion")
  <1>1. CASE HeldoutChampion /\ pc' # "failing"
    BY <1>1, ChampionArm DEF HeldoutChampion, Fail
  <1>2. CASE HeldoutBaseline
    BY <1>2, BaselineArm DEF HeldoutBaseline, PlaceInv, PairsExact
  <1>3. CASE TrainEvaluated \/ SelectionEvaluated \/ Discover
    BY <1>3 DEF TrainEvaluated, SelectionEvaluated, Discover, Fail, PlaceInv, PairsExact
  <1>4. CASE Start \/ Unreachable \/ Propose \/ GroupFails \/ Rank \/ SelectionEnds \/ TrainEnds
             \/ GenerationEnds \/ SearchEnds \/ Finish \/ Return \/ Failed
             \/ (HeldoutChampion /\ pc' = "failing")
    <2>1. UNCHANGED <<recs, cfg, verdict>>
      BY <1>4 DEF Start, Unreachable, Propose, GroupFails, Rank, SelectionEnds, TrainEnds,
             GenerationEnds, SearchEnds, Finish, Return, Failed, Fail, HeldoutChampion
    <2>2. pc' \notin {"champion", "finish"}
      <3>1. CASE TrainEnds BY <3>1, TrainLeads
      <3>2. CASE ~TrainEnds
        BY <1>4, <3>2 DEF Start, Unreachable, Propose, GroupFails, Rank, SelectionEnds,
             GenerationEnds, SearchEnds, Finish, Return, Failed, Fail, HeldoutChampion
      <3> QED BY <3>1, <3>2
    <2> QED BY <2>1, <2>2 DEF PairsExact, PlaceInv
  <1>5. CASE Ready
    BY <1>5 DEF Ready, Running, PlaceInv, PairsExact
  <1> QED BY <1>1, <1>2, <1>3, <1>4, <1>5 DEF SearchAction

\* It is kept by what the run does between two writes,
LEMMA PlaceSearch ==
  ASSUME PlaceInv, SearchAction PROVE PlaceInv'
  <1>1. RecsOK(recs)' /\ \E S : cps' \in Seq(S)
    BY DataStep
  <1>2. cfg' = cfg /\ PairsExact' /\ (pc' = "champion" => Len(recs'.baseline) = Arm')
    BY VerdictStep DEF Arm
  <1>3. cfg' \in Config /\ attempt' \in 1 .. cfg'.attempts /\ step' \in Nat
    BY SearchKinds, <1>2 DEF Fails, Persists, Moves, PlaceInv
  <1>4. WriteOrder(pending')
    <2>1. pending' = FailureOrder \/ pending' = <<>> \/ \E w \in BOOLEAN : pending' = ArtifactOrder(w)
      BY SearchKinds DEF Fails, Persists, Moves
    <2>2. WriteOrder(<<>>)
      BY DEF WriteOrder
    <2> QED BY <2>1, <2>2, OrdersAreThere, FailureOrderIsThere
  <1>5. pc' \in Places /\ (pc' \in {"start", "finish", "done", "failed", "crashed"} => pending' = <<>>)
    <2>1. CASE Fails BY <2>1 DEF Fails, Places
    <2>2. CASE Persists BY <2>2 DEF Persists, Places
    <2>3. CASE Moves BY <2>3 DEF Moves, Places, Searching
    <2> QED BY <2>1, <2>2, <2>3, SearchKinds
  <1>6. pc' \in Searching => ~cfg'.dry
    <2>1. CASE Fails BY <2>1 DEF Fails, Searching
    <2>2. CASE Persists BY <1>2, <2>2 DEF Persists, Searching, PlaceInv
    <2>3. CASE Moves BY <1>2, <2>3 DEF Moves, Searching, PlaceInv
    <2> QED BY <2>1, <2>2, <2>3, SearchKinds
  <1>7. /\ pc' \in {"finish", "result", "done"} => (verdict' # NoVerdict <=> ~cfg'.dry)
        /\ verdict' # NoVerdict => pc' \in {"finish", "result", "failing", "done", "failed", "crashed"}
    <2>1. CASE Fails
      BY <2>1 DEF Fails
    <2>2. CASE Persists
      BY <1>2, <2>2 DEF Persists, PlaceInv
    <2>3. CASE Moves
      <3>1. CASE pc = "ready"
        BY <1>2, <2>3, <3>1 DEF Moves, PlaceInv, Searching
      <3>2. CASE pc \in Searching \ {"champion"}
        BY <1>2, <2>3, <3>2 DEF Moves, PlaceInv, Searching
      <3>3. CASE pc \in {"result", "failing"}
        BY <1>2, <2>3, <3>3 DEF Moves, PlaceInv, Searching
      <3>4. CASE pc = "champion"
        BY <2>3, <3>4, VerdictStep, <1>2 DEF Moves, PlaceInv, Searching
      <3> QED BY <2>3, <3>1, <3>2, <3>3, <3>4 DEF Moves
    <2> QED BY <2>1, <2>2, <2>3, SearchKinds
  <1> QED BY <1>1, <1>2, <1>3, <1>4, <1>5, <1>6, <1>7 DEF PlaceInv

\* by writes, failed writes and crashes,
LEMMA PlaceOther ==
  ASSUME PlaceInv, Write \/ WriteFails \/ Crash \/ UNCHANGED vars PROVE PlaceInv'
  <1>1. /\ UNCHANGED <<cfg, attempt, recs, cps, verdict>>
        /\ step' \in {step, step + 1}
    BY DEF Write, WriteFails, Crash, vars
  <1>2. PairsExact'
    BY <1>1 DEF PairsExact, PlaceInv
  <1>3. RecsOK(recs)' /\ \E S : cps' \in Seq(S)
    BY <1>1 DEF PlaceInv
  <1>4. cfg' \in Config /\ attempt' \in 1 .. cfg'.attempts /\ step' \in Nat
    BY <1>1 DEF PlaceInv
  <1>5. WriteOrder(pending)' /\ (pc' \in {"start", "finish", "done", "failed", "crashed"} => pending' = <<>>)
        /\ pc' \in {pc, "failing", "failed", "crashed"}
    <2>1. CASE Write
      BY <2>1, OrdersShrink DEF Write, PlaceInv
    <2>2. CASE WriteFails
      <3>1. WriteOrder(<<>>)
        BY DEF WriteOrder
      <3> QED BY <2>2, <3>1, FailureOrderIsThere DEF WriteFails
    <2>3. CASE Crash
      BY <2>3 DEF WriteOrder, Crash
    <2>4. CASE UNCHANGED vars BY <2>4 DEF vars, PlaceInv, WriteOrder
    <2> QED BY <2>1, <2>2, <2>3, <2>4
  <1>6. pc' = "champion" => Len(recs'.baseline) = Arm'
    BY <1>1, <1>5 DEF PlaceInv, Arm
  <1>7. /\ pc' \in Places /\ (pc' \in Searching => ~cfg'.dry)
        /\ pc' \in {"finish", "result", "done"} => (verdict' # NoVerdict <=> ~cfg'.dry)
        /\ verdict' # NoVerdict => pc' \in {"finish", "result", "failing", "done", "failed", "crashed"}
    BY <1>1, <1>5 DEF PlaceInv, Places, Searching
  <1> QED BY <1>2, <1>3, <1>4, <1>5, <1>6, <1>7 DEF PlaceInv

\* A rerun may be dry or not; nothing else of the configuration changes.
LEMMA DryChanges ==
  ASSUME NEW c \in Config, NEW d \in BOOLEAN
  PROVE  [c EXCEPT !.dry = d] \in Config /\ [c EXCEPT !.dry = d].attempts = c.attempts
  BY DEF Config

\* by a rerun,
LEMMA PlaceRerun ==
  ASSUME PlaceInv, Rerun PROVE PlaceInv'
  <1>1. cfg' \in Config /\ cfg'.attempts = cfg.attempts
    BY DryChanges DEF Rerun, PlaceInv
  <1>2. cfg.attempts \in Nat /\ attempt \in 1 .. cfg.attempts
    BY DEF PlaceInv, Config
  <1>3. attempt' \in 1 .. cfg'.attempts
    BY <1>1, <1>2 DEF Rerun
  <1>4. step' = 0 /\ pc' = "start" /\ pending' = <<>> /\ recs' = NoRecords /\ cps' = <<>> /\ verdict' = NoVerdict
    BY DEF Rerun, Fresh
  <1>5. NoRecords \in [train : Nat, selection : Nat, branch : Nat, baseline : Seq({}), heldout : Seq({})]
    BY DEF NoRecords
  <1>6. RecsOK(recs')
    BY <1>4, <1>5 DEF RecsOK
  <1>7. WriteOrder(pending') /\ cps' \in Seq({})
    BY <1>4 DEF WriteOrder
  <1>8. PairsExact'
    BY <1>4 DEF PairsExact
  <1> QED BY <1>1, <1>3, <1>4, <1>6, <1>7, <1>8 DEF PlaceInv, Places, Searching

\* and so by every step.
LEMMA PlaceStep == PlaceInv /\ [Next]_vars => PlaceInv'
  <1> SUFFICES ASSUME PlaceInv, [Next]_vars PROVE PlaceInv'
    OBVIOUS
  <1>1. CASE SearchAction BY <1>1, PlaceSearch
  <1>2. CASE Write \/ WriteFails \/ Crash \/ UNCHANGED vars BY <1>2, PlaceOther
  <1>3. CASE Rerun BY <1>3, PlaceRerun
  <1> QED BY <1>1, <1>2, <1>3 DEF Next, Advance, SearchAction

(* Whatever crash or failed write comes in between, the files never claim    *)
(* more than was written before them: the status is last, the comparison it  *)
(* speaks of is there, a failure or a result is on disk when the run says so *)
(* (persist_mapo_artifacts, persist_mapo_failure_artifacts).                 *)
THEOREM FilesNeverLie == Spec => []DiskIsTruthful
  <1>1. Init => PlaceInv /\ DiskInv
    BY PlaceInit, DiskInit
  <1>2. PlaceInv /\ DiskInv /\ [Next]_vars => (PlaceInv /\ DiskInv)'
    BY PlaceStep, DiskStep
  <1>3. PlaceInv /\ DiskInv => DiskIsTruthful
    BY DiskIsTruthfulBy
  <1> QED BY <1>1, <1>2, <1>3, PTL DEF Spec

-----------------------------------------------------------------------------
(* The registry of candidates *)
\* How many entries k generations add to the registry at most.
Room(k) == 1 + k * (cfg.proposals + 1 + cfg.topK)

RegistryOK ==
    CASE pc \in {"start", "ready", "generation"} -> gen <= cfg.gens + 1 /\ Len(reg) <= Room(gen - 1)
      [] pc = "train" -> gen <= cfg.gens /\ Len(reg) + Len(todo) <= Room(gen - 1) + cfg.proposals + 1
      [] pc \in {"discover", "rank"} -> gen <= cfg.gens /\ Len(reg) <= Room(gen - 1) + cfg.proposals + 1
      [] pc = "select" -> gen <= cfg.gens /\ Len(reg) + Len(todo) <= Room(gen)
      [] pc = "end" -> gen <= cfg.gens /\ Len(reg) <= Room(gen)
      [] OTHER -> Len(reg) <= Room(cfg.gens)

ListsOK ==
    /\ gen \in Nat \ {0} /\ made \in Nat
    /\ \E S : todo \in Seq(S) /\ fresh \in Seq(S) /\ reg \in Seq(S)

\* With branching the selection rollouts are counted twice.
Twice == IF cfg.branch THEN recs.selection ELSE 0

CountsInv ==
    recs.train + recs.selection + recs.branch + Len(recs.baseline) + Len(recs.heldout) <= made + Twice

\* A generation adds its proposals, the champion and top_k to the room of the registry.
LEMMA RoomGrows ==
  ASSUME NEW k \in Nat, NEW l \in Nat, k <= l, cfg.proposals \in Nat, cfg.topK \in Nat
  PROVE  /\ Room(k) \in Nat /\ Room(l) \in Nat /\ Room(k) <= Room(l)
         /\ Room(k + 1) = Room(k) + cfg.proposals + 1 + cfg.topK
  <1> DEFINE p == cfg.proposals + 1 + cfg.topK
  <1>1. p \in Nat
    OBVIOUS
  <1> HIDE DEF p
  <1>2. PICK d \in Nat : l = k + d
    OBVIOUS
  <1>3. l * p = k * p + d * p /\ (k + 1) * p = k * p + p
    BY <1>1, <1>2
  <1>4. k * p \in Nat /\ d * p \in Nat /\ l * p \in Nat
    BY <1>1
  <1>5. Room(k) = 1 + k * p /\ Room(l) = 1 + l * p /\ Room(k + 1) = 1 + (k + 1) * p
    BY DEF Room, p
  <1> HIDE DEF Room
  <1>6. Room(k) \in Nat /\ Room(l) \in Nat /\ Room(k) <= Room(l)
    BY <1>3, <1>4, <1>5
  <1>7. Room(k + 1) = Room(k) + p
    BY <1>1, <1>3, <1>4, <1>5
  <1>8. Room(k + 1) = Room(k) + cfg.proposals + 1 + cfg.topK
    BY <1>6, <1>7 DEF p
  <1> QED BY <1>6, <1>8

\* The sizes a validated configuration has are numbers.
LEMMA SizesOK ==
  ASSUME PlaceInv
  PROVE  cfg.proposals \in Nat /\ cfg.topK \in Nat /\ cfg.gens \in Nat /\ cfg.branch \in BOOLEAN
  BY DEF PlaceInv, Config

\* Whatever the place, the registry is within its bound.
LEMMA RegistryBound ==
  ASSUME PlaceInv, ListsOK, RegistryOK
  PROVE  Len(reg) <= Room(cfg.gens) /\ Len(reg) \in Nat /\ Room(cfg.gens) \in Nat
  <1>1. cfg.proposals \in Nat /\ cfg.topK \in Nat /\ cfg.gens \in Nat
    BY SizesOK
  <1>2. Len(reg) \in Nat /\ Len(todo) \in Nat /\ gen \in Nat \ {0} /\ pc \in Places
    BY DEF ListsOK, PlaceInv
  <1>3. /\ \A k \in Nat : Room(k) \in Nat /\ Room(k + 1) = Room(k) + cfg.proposals + 1 + cfg.topK
        /\ \A k \in Nat : k <= cfg.gens => Room(k) <= Room(cfg.gens)
    BY <1>1, RoomGrows
  <1>4. gen - 1 \in Nat /\ (gen - 1) + 1 = gen
    BY <1>2
  <1> HIDE DEF Room
  <1>5. Room(gen) = Room(gen - 1) + cfg.proposals + 1 + cfg.topK /\ Room(gen) \in Nat /\ Room(gen - 1) \in Nat
        /\ Room(cfg.gens) \in Nat
    BY <1>1, <1>3, <1>4
  <1>6. CASE pc \in {"start", "ready", "generation"}
    <2>1. gen - 1 <= cfg.gens /\ Len(reg) <= Room(gen - 1)
      BY <1>1, <1>2, <1>6 DEF RegistryOK
    <2>2. Room(gen - 1) <= Room(cfg.gens)
      BY <1>3, <1>4, <2>1
    <2> QED BY <1>2, <1>5, <2>1, <2>2
  <1>7. CASE pc \in {"train", "discover", "rank", "select", "end"}
    <2>1. gen <= cfg.gens /\ Len(reg) <= Room(gen)
      BY SMTT(30), <1>1, <1>2, <1>5, <1>7 DEF RegistryOK
    <2>2. gen \in Nat
      BY <1>2
    <2>3. Room(gen) <= Room(cfg.gens)
      BY <1>3, <2>1, <2>2
    <2> QED BY <1>2, <1>5, <2>1, <2>3
  <1>8. CASE pc \notin {"start", "ready", "generation", "train", "discover", "rank", "select", "end"}
    BY <1>2, <1>5, <1>8 DEF RegistryOK
  <1> QED BY <1>6, <1>7, <1>8

\* The lists a step leaves behind, and how long they are.
LEMMA ListsKept ==
  ASSUME ListsOK, UNCHANGED <<todo, fresh, reg, gen>>, made' \in Nat
  PROVE  ListsOK'
  BY DEF ListsOK

\* An evaluation moves one candidate from the loop to the registry.
LEMMA EvaluatedLists ==
  ASSUME ListsOK, todo # <<>>, NEW e, todo' = Tail(todo), fresh' = Append(fresh, e), reg' = Append(reg, e),
         gen' = gen, made' \in Nat
  PROVE  ListsOK' /\ Len(todo') + 1 = Len(todo) /\ Len(reg') = Len(reg) + 1
         /\ Len(todo) \in Nat /\ Len(todo') \in Nat /\ Len(reg) \in Nat /\ Len(reg') \in Nat
  <1> PICK S : todo \in Seq(S) /\ fresh \in Seq(S) /\ reg \in Seq(S)
    BY DEF ListsOK
  <1> DEFINE U == S \cup {e}
  <1>1. todo \in Seq(U) /\ fresh \in Seq(U) /\ reg \in Seq(U) /\ e \in U
    BY SeqMonotonic
  <1> HIDE DEF U
  <1>2. Tail(todo) \in Seq(U) /\ Append(fresh, e) \in Seq(U) /\ Append(reg, e) \in Seq(U)
        /\ Len(Append(reg, e)) = Len(reg) + 1 /\ Len(Tail(todo)) = Len(todo) - 1
        /\ Len(todo) \in Nat /\ Len(reg) \in Nat /\ Len(Tail(todo)) \in Nat
    BY <1>1
  <1>3. ListsOK'
    BY <1>2 DEF ListsOK
  <1> QED BY <1>2, <1>3

\* propose_candidates leaves the proposals and the champion to evaluate.
LEMMA ProposedLists ==
  ASSUME PlaceInv, ListsOK, Propose
  PROVE  ListsOK' /\ Len(todo') = cfg.proposals + 1
  <1> DEFINE n == cfg.proposals
             s == [i \in 1 .. n |-> [NoCandidate EXCEPT !.id = CandidateId(gen, i)]]
             S == {[NoCandidate EXCEPT !.id = CandidateId(gen, i)] : i \in 1 .. n}
  <1>1. n \in Nat
    BY SizesOK
  <1>2. s \in Seq(S) /\ Len(s) = n
    <2>1. s \in [1 .. n -> S]
      OBVIOUS
    <2>2. Len(s) = n
      BY <1>1
    <2> HIDE DEF s, S
    <2>3. s \in Seq(S)
      BY <1>1, <2>1
    <2> QED BY <2>2, <2>3
  <1>3. todo' = Append(s, champ) /\ fresh' = <<>> /\ UNCHANGED <<reg, gen, made>>
    BY DEF Propose
  <1> HIDE DEF s, S, n
  <1> PICK R : reg \in Seq(R)
    BY DEF ListsOK
  <1> DEFINE U == S \cup {champ} \cup R
  <1>4. s \in Seq(U) /\ reg \in Seq(U) /\ champ \in U
    BY <1>2, SeqMonotonic
  <1> HIDE DEF U
  <1>5. Append(s, champ) \in Seq(U) /\ Len(Append(s, champ)) = n + 1 /\ <<>> \in Seq(U)
    BY <1>2, <1>4
  <1>6. ListsOK'
    BY <1>3, <1>4, <1>5 DEF ListsOK
  <1> QED BY <1>3, <1>5, <1>6 DEF n

\* top_train_candidates leaves at most top_k of them.
LEMMA RankedLists ==
  ASSUME PlaceInv, ListsOK, Rank
  PROVE  ListsOK' /\ Len(todo') \in Nat /\ Len(todo') <= cfg.topK
  <1> DEFINE k == cfg.topK
             m == Len(fresh)
             q == Min({k, m})
  <1>1. k \in Nat /\ m \in Nat
    BY SizesOK DEF ListsOK
  <1>2. q \in Nat /\ q <= k
    <2> HIDE DEF k, m
    <2>1. k \in Int /\ m \in Int
      BY <1>1
    <2>2. q \in {k, m} /\ q <= k
      BY <2>1, MinOf
    <2> QED BY <1>1, <2>2
  <1>3. PICK s : todo' = SubSeq(s, 1, q)
    BY DEF Rank, TopTrain, Top
  <1>4. fresh' = <<>> /\ UNCHANGED <<reg, gen, made>>
    BY DEF Rank
  <1> HIDE DEF q, k, m
  <1> DEFINE S == {s[i] : i \in 1 .. q}
  <1>5. \A i \in 1 .. q : s[i] \in S
    OBVIOUS
  <1> HIDE DEF S
  <1>6. 1 \in Int /\ q \in Int
    BY <1>2
  <1>7. SubSeq(s, 1, q) \in Seq(S) /\ Len(SubSeq(s, 1, q)) = IF 1 <= q THEN q - 1 + 1 ELSE 0
    BY <1>5, <1>6, SubSeqProperties
  <1> PICK R : reg \in Seq(R)
    BY DEF ListsOK
  <1> DEFINE U == S \cup R
  <1>8. todo' \in Seq(U) /\ reg' \in Seq(U) /\ fresh' \in Seq(U)
    BY <1>3, <1>4, <1>7, SeqMonotonic
  <1> HIDE DEF U
  <1>9. ListsOK'
    BY <1>4, <1>8 DEF ListsOK
  <1>10. Len(todo') = q
    BY <1>2, <1>3, <1>7
  <1>11. Len(todo') \in Nat /\ Len(todo') <= k
    BY <1>2, <1>10
  <1> QED BY <1>9, <1>11 DEF k

-----------------------------------------------------------------------------
(* What is requested and what is counted *)
USE DEF Running, GroupDue

\* Every step of the search leaves the requests alone or asks for the first n cases of its group.
LEMMA AskStep ==
  ASSUME PlaceInv, SearchAction
  PROVE  \/ UNCHANGED <<calls, made>>
         \/ /\ GroupDue
            /\ \E n \in Nat : /\ CaseList(NextGroup.cases, Len(NextGroup.cases))
                             /\ n <= Len(NextGroup.cases) /\ Requested(NextGroup, n)
  <1>1. CASE Start \/ Ready \/ Unreachable \/ Propose \/ TrainEnds \/ Rank \/ SelectionEnds
             \/ GenerationEnds \/ SearchEnds \/ Finish \/ Return \/ Failed
    BY <1>1 DEF Start, Ready, Unreachable, Propose, TrainEnds, Rank, SelectionEnds, GenerationEnds,
                SearchEnds, Finish, Return, Failed, Fail
  <1>2. CASE GroupFails \/ TrainEvaluated \/ Discover \/ SelectionEvaluated \/ HeldoutBaseline \/ HeldoutChampion
    <2>1. GroupDue
      BY <1>2 DEF GroupFails, TrainEvaluated, Discover, SelectionEvaluated, HeldoutBaseline, HeldoutChampion
    <2>2. PICK m : CaseList(NextGroup.cases, m)
      BY <2>1, GroupList
    <2>3. m \in Nat /\ Len(NextGroup.cases) = m /\ DOMAIN NextGroup.cases = 1 .. m
      BY <2>2 DEF CaseList
    <2>4. CASE GroupFails
      <3>1. PICK n \in DOMAIN NextGroup.cases : Requested(NextGroup, n)
        BY <2>4 DEF GroupFails
      <3>2. n \in Nat /\ n <= m
        BY <2>3, <3>1
      <3> QED BY <2>1, <2>2, <2>3, <3>1, <3>2
    <2>5. CASE TrainEvaluated \/ Discover \/ SelectionEvaluated \/ HeldoutBaseline \/ HeldoutChampion
      <3>1. Requested(NextGroup, Len(NextGroup.cases))
        BY <2>5 DEF TrainEvaluated, Discover, SelectionEvaluated, HeldoutBaseline, HeldoutChampion
      <3>2. m <= m
        BY <2>3
      <3> QED BY <2>1, <2>2, <2>3, <3>1, <3>2
    <2> QED BY <1>2, <2>4, <2>5
  <1> QED BY <1>1, <1>2 DEF SearchAction

\* The number of rollouts requested never falls.
LEMMA MadeStep ==
  ASSUME PlaceInv, ListsOK, SearchAction
  PROVE  made' \in Nat /\ made \in Nat /\ \E n \in Nat : made' = made + n
  <1>1. made \in Nat
    BY DEF ListsOK
  <1>2. made' = made \/ \E n \in Nat : made' = made + n
    BY AskStep DEF Requested
  <1>3. made = made + 0
    BY <1>1
  <1> QED BY <1>1, <1>2, <1>3

\* The counts of answered rollouts are numbers.
LEMMA RecsNumbers ==
  ASSUME PlaceInv
  PROVE  recs.train \in Nat /\ recs.selection \in Nat /\ recs.branch \in Nat
         /\ Len(recs.baseline) \in Nat /\ Len(recs.heldout) \in Nat
  BY DEF PlaceInv, RecsOK

\* The counts of answered rollouts never pass the number requested.
LEMMA CountsSearch ==
  ASSUME PlaceInv, ListsOK, CountsInv, SearchAction
  PROVE  CountsInv'
  <1> PICK S : recs \in [train : Nat, selection : Nat, branch : Nat, baseline : Seq(S), heldout : Seq(S)]
    BY DEF PlaceInv, RecsOK
  <1>m. made' \in Nat /\ made \in Nat /\ \E n \in Nat : made' = made + n
    BY MadeStep
  <1>f. cfg' = cfg
    BY VerdictStep
  <1>t. recs.train \in Nat /\ recs.selection \in Nat /\ recs.branch \in Nat
         /\ Len(recs.baseline) \in Nat /\ Len(recs.heldout) \in Nat
    BY RecsNumbers
  <1>c. cfg.branch \in BOOLEAN
    BY SizesOK
  <1> DEFINE t == recs.train
             s == recs.selection
             b == recs.branch
             u == Len(recs.baseline)
             h == Len(recs.heldout)
             m == made
             w == Twice
  <1>d. /\ t \in Nat /\ s \in Nat /\ b \in Nat /\ u \in Nat /\ h \in Nat /\ m \in Nat /\ w \in Nat
        /\ t + s + b + u + h <= m + w
    BY <1>m, <1>t, <1>c DEF CountsInv, Twice
  <1> HIDE DEF t, s, b, u, h, m, w
  <1>1. ASSUME UNCHANGED recs PROVE CountsInv'
    <2>1. PICK n \in Nat : made' = made + n
      BY <1>m
    <2>2. (t) + (s) + (b) + (u) + (h) <= (m + n) + w
      BY <1>d, <2>1
    <2> QED BY <1>1, <1>f, <2>1, <2>2 DEF CountsInv, Twice, t, s, b, u, h, m, w
  <1>2. ASSUME pc' # "failing", TrainEvaluated \/ SelectionEvaluated \/ Discover \/ HeldoutBaseline \/ HeldoutChampion
        PROVE  \E n \in Nat : /\ CaseList(NextGroup.cases, n) /\ made' = made + n
    <2>1. PICK n : CaseList(NextGroup.cases, n)
      BY <1>2, GroupList DEF TrainEvaluated, SelectionEvaluated, Discover, HeldoutBaseline, HeldoutChampion
    <2>2. n \in Nat /\ Len(NextGroup.cases) = n
      BY <2>1 DEF CaseList
    <2>3. Requested(NextGroup, Len(NextGroup.cases))
      BY <1>2 DEF TrainEvaluated, SelectionEvaluated, Discover, HeldoutBaseline, HeldoutChampion
    <2> QED BY <2>1, <2>2, <2>3 DEF Requested
  <1>3. CASE TrainEvaluated
    <2>0. pc' # "failing"
      BY <1>3 DEF TrainEvaluated
    <2>1. PICK n \in Nat : CaseList(NextGroup.cases, n) /\ made' = made + n
      BY <1>2, <1>3, <2>0
    <2>2. recs' = [recs EXCEPT !.train = @ + n]
      BY <1>3, <2>1 DEF TrainEvaluated, CaseList
    <2>3. recs'.train = recs.train + n /\ recs'.selection = recs.selection /\ recs'.branch = recs.branch
          /\ recs'.baseline = recs.baseline /\ recs'.heldout = recs.heldout
      BY <2>2
    <2>9. (t + n) + (s) + (b) + (u) + (h) <= (m + n) + w
      BY <1>d, <2>1
    <2> QED BY <1>f, <2>1, <2>3, <2>9 DEF CountsInv, Twice, t, s, b, u, h, m, w
  <1>4. CASE SelectionEvaluated
    <2>0. pc' # "failing"
      BY <1>4 DEF SelectionEvaluated
    <2>1. PICK n \in Nat : CaseList(NextGroup.cases, n) /\ made' = made + n
      BY <1>2, <1>4, <2>0
    <2>2. recs' = [recs EXCEPT !.selection = @ + n, !.branch = IF cfg.branch THEN @ + n ELSE @]
      BY <1>4, <2>1 DEF SelectionEvaluated, CaseList
    <2>3. recs'.train = recs.train /\ recs'.selection = recs.selection + n
          /\ recs'.branch = (IF cfg.branch THEN recs.branch + n ELSE recs.branch)
          /\ recs'.baseline = recs.baseline /\ recs'.heldout = recs.heldout
      BY <2>2
    <2>4. CASE cfg.branch
      <3>0. w = s
        BY <2>4 DEF w, Twice, s
      <3>1. t + (s + n) + (b + n) + u + h <= (m + n) + (s + n)
        BY <1>d, <2>1, <3>0
      <3> QED BY <1>f, <2>1, <2>3, <2>4, <3>1 DEF CountsInv, Twice, t, s, b, u, h, m
    <2>5. CASE ~cfg.branch
      <3>1. t + (s + n) + b + u + h <= (m + n) + 0
        BY <1>d, <2>1, <2>5 DEF w, Twice
      <3> QED BY <1>f, <2>1, <2>3, <2>5, <3>1 DEF CountsInv, Twice, t, s, b, u, h, m
    <2> QED BY <2>4, <2>5
  <1>5. CASE Discover /\ pc' # "failing"
    <2>1. PICK n \in Nat : CaseList(NextGroup.cases, n) /\ made' = made + n
      BY <1>2, <1>5
    <2>2. recs' = [recs EXCEPT !.branch = @ + n]
      BY <1>5, <2>1 DEF Discover, CaseList, Fail
    <2>3. recs'.train = recs.train /\ recs'.selection = recs.selection /\ recs'.branch = recs.branch + n
          /\ recs'.baseline = recs.baseline /\ recs'.heldout = recs.heldout
      BY <2>2
    <2>9. (t) + (s) + (b + n) + (u) + (h) <= (m + n) + w
      BY <1>d, <2>1
    <2> QED BY <1>f, <2>1, <2>3, <2>9 DEF CountsInv, Twice, t, s, b, u, h, m, w
  <1>6. CASE HeldoutBaseline
    <2>0. pc' # "failing"
      BY <1>6 DEF HeldoutBaseline
    <2>1. PICK n \in Nat : CaseList(NextGroup.cases, n) /\ made' = made + n
      BY <1>2, <1>6, <2>0
    <2>2. PICK p \in cfg.answers : recs' = [recs EXCEPT !.baseline = Records(NextGroup.cases, p, <<>>)]
      BY <1>6 DEF HeldoutBaseline
    <2>3. Len(Records(NextGroup.cases, p, <<>>)) = n
      BY <2>1, RecordsList
    <2>4. recs'.train = recs.train /\ recs'.selection = recs.selection /\ recs'.branch = recs.branch
          /\ Len(recs'.baseline) = n /\ recs'.heldout = recs.heldout
      BY <2>2, <2>3
    <2>9. (t) + (s) + (b) + (n) + (h) <= (m + n) + w
      BY <1>d, <2>1
    <2> QED BY <1>f, <2>1, <2>4, <2>9 DEF CountsInv, Twice, t, s, b, u, h, m, w
  <1>7. CASE HeldoutChampion /\ pc' # "failing"
    <2>1. PICK n \in Nat : CaseList(NextGroup.cases, n) /\ made' = made + n
      BY <1>2, <1>7
    <2>2. PICK p \in cfg.answers : recs' = [recs EXCEPT !.heldout = Records(NextGroup.cases, p, <<>>)]
      BY <1>7 DEF HeldoutChampion, Fail
    <2>3. Len(Records(NextGroup.cases, p, <<>>)) = n
      BY <2>1, RecordsList
    <2>4. recs'.train = recs.train /\ recs'.selection = recs.selection /\ recs'.branch = recs.branch
          /\ Len(recs'.heldout) = n /\ recs'.baseline = recs.baseline
      BY <2>2, <2>3
    <2>9. (t) + (s) + (b) + (u) + (n) <= (m + n) + w
      BY <1>d, <2>1
    <2> QED BY <1>f, <2>1, <2>4, <2>9 DEF CountsInv, Twice, t, s, b, u, h, m, w
  <1>8. CASE Start \/ Ready \/ Unreachable \/ Propose \/ GroupFails \/ TrainEnds \/ Rank \/ SelectionEnds
             \/ GenerationEnds \/ SearchEnds \/ Finish \/ Return \/ Failed
             \/ (Discover /\ pc' = "failing") \/ (HeldoutChampion /\ pc' = "failing")
    <2>1. UNCHANGED recs
      BY <1>8 DEF Start, Ready, Unreachable, Propose, GroupFails, TrainEnds, Rank, SelectionEnds, GenerationEnds,
                SearchEnds, Finish, Return, Failed, Fail, Discover, HeldoutChampion
    <2> QED BY <1>1, <2>1
  <1> QED BY <1>3, <1>4, <1>5, <1>6, <1>7, <1>8 DEF SearchAction

\* Steps that leave the registry alone and end the search, or give up.
Late == {"baseline", "champion", "finish", "result", "failing", "done", "failed", "crashed"}

\* Steps that end the search leave the registry within its bound.
LEMMA LateRegistry ==
  ASSUME PlaceInv, ListsOK, RegistryOK, pc' \in Late, UNCHANGED <<cfg, reg>>
  PROVE  RegistryOK'
  BY RegistryBound DEF Room, Late, RegistryOK

\* The registry through every step of the search.
LEMMA ListsSearch ==
  ASSUME PlaceInv, ListsOK, RegistryOK, SearchAction
  PROVE  ListsOK' /\ RegistryOK'
  <1>m. made' \in Nat /\ cfg' = cfg
    BY MadeStep, VerdictStep
  <1>s. cfg.proposals \in Nat /\ cfg.topK \in Nat /\ cfg.gens \in Nat
    BY SizesOK
  <1>l. Len(reg) \in Nat /\ Len(todo) \in Nat /\ gen \in Nat \ {0}
    BY DEF ListsOK
  <1>g. gen - 1 \in Nat /\ (gen - 1) + 1 = gen /\ gen \in Nat /\ gen + 1 \in Nat \ {0} /\ (gen + 1) - 1 = gen
    BY <1>l
  <1>r. \A k \in Nat : Room(k)' = Room(k) /\ Room(k) \in Nat
                        /\ Room(k + 1) = Room(k) + cfg.proposals + 1 + cfg.topK
    <2>1. \A k \in Nat : k <= k
      OBVIOUS
    <2>2. \A k \in Nat : Room(k) \in Nat /\ Room(k + 1) = Room(k) + cfg.proposals + 1 + cfg.topK
      BY <1>s, <2>1, RoomGrows
    <2>3. \A k \in Nat : Room(k)' = Room(k)
      BY <1>m DEF Room
    <2> QED BY <2>2, <2>3
  <1>q. /\ Room(gen) = Room(gen - 1) + cfg.proposals + 1 + cfg.topK
        /\ Room(gen) \in Nat /\ Room(gen - 1) \in Nat
    BY <1>g, <1>r
  <1>e. todo = <<>> => Len(todo) = 0
    OBVIOUS
  <1>1. CASE UNCHANGED <<todo, fresh, reg, gen>> /\ pc' \in Late
    BY <1>1, <1>m, ListsKept, LateRegistry
  <1>2. CASE UNCHANGED <<todo, fresh, reg, gen>> /\ pc \in {"start", "ready"} /\ pc' \in {"ready", "generation"}
    BY <1>2, <1>m, ListsKept DEF RegistryOK, Room
  <1>3. CASE Propose
    BY <1>3, ProposedLists, <1>l, <1>s, <1>q, <1>m DEF Propose, RegistryOK, Room
  <1>4. CASE TrainEvaluated
    <2>1. PICK e : todo' = Tail(todo) /\ fresh' = Append(fresh, e) /\ reg' = Append(reg, e)
      BY <1>4 DEF TrainEvaluated
    <2>2. pc = "train" /\ pc' = "train" /\ gen' = gen /\ todo # <<>>
      BY <1>4 DEF TrainEvaluated
    <2>3. ListsOK' /\ Len(todo') + 1 = Len(todo) /\ Len(reg') = Len(reg) + 1
          /\ Len(todo) \in Nat /\ Len(todo') \in Nat /\ Len(reg) \in Nat /\ Len(reg') \in Nat
      BY <1>m, <2>1, <2>2, EvaluatedLists
    <2>4. gen <= cfg.gens /\ Len(reg) + Len(todo) <= Room(gen - 1) + cfg.proposals + 1
      BY <2>2 DEF RegistryOK
    <2>5. Len(reg') + Len(todo') = Len(reg) + Len(todo)
      BY <2>3
    <2>6. (gen <= cfg.gens /\ Len(reg) + Len(todo) <= Room(gen - 1) + cfg.proposals + 1)'
      BY <1>m, <2>2, <2>4, <2>5 DEF Room
    <2> QED BY <2>2, <2>3, <2>6 DEF RegistryOK
  <1>5. CASE TrainEnds
    <2>1. pc = "train" /\ todo = <<>> /\ UNCHANGED <<todo, fresh, reg, gen>>
      BY <1>5 DEF TrainEnds
    <2>2. gen <= cfg.gens /\ Len(reg) <= Room(gen - 1) + cfg.proposals + 1
      BY <1>e, <1>l, <2>1 DEF RegistryOK
    <2>3. Len(reg) <= Room(gen)
      BY <1>l, <1>q, <1>s, <2>2
    <2>4. (gen <= cfg.gens /\ Len(reg) <= Room(gen - 1) + cfg.proposals + 1 /\ Len(reg) <= Room(gen))'
      BY <1>m, <2>1, <2>2, <2>3 DEF Room
    <2>5. RegistryOK'
      BY <1>5, <2>4, TrainLeads DEF RegistryOK
    <2> QED BY <1>m, <2>1, <2>5, ListsKept
  <1>6. CASE Discover /\ pc' # "failing"
    BY <1>6, <1>m, ListsKept DEF Discover, Fail, RegistryOK, Room
  <1>7. CASE Rank
    <2>1. ListsOK' /\ Len(todo') \in Nat /\ Len(todo') <= cfg.topK
      BY <1>7, RankedLists
    <2>2. pc = "rank" /\ pc' = "select" /\ UNCHANGED <<reg, gen>>
      BY <1>7 DEF Rank
    <2>3. gen <= cfg.gens /\ Len(reg) <= Room(gen - 1) + cfg.proposals + 1
      BY <2>2 DEF RegistryOK
    <2>4. Len(reg) + Len(todo') <= Room(gen)
      BY <1>l, <1>q, <1>s, <2>1, <2>3
    <2>5. (gen <= cfg.gens /\ Len(reg) + Len(todo) <= Room(gen))'
      BY <1>m, <2>2, <2>3, <2>4 DEF Room
    <2> QED BY <2>1, <2>2, <2>5 DEF RegistryOK
  <1>8. CASE SelectionEvaluated
    <2>1. PICK e : todo' = Tail(todo) /\ fresh' = Append(fresh, e) /\ reg' = Append(reg, e)
      BY <1>8 DEF SelectionEvaluated
    <2>2. pc = "select" /\ pc' = "select" /\ gen' = gen /\ todo # <<>>
      BY <1>8 DEF SelectionEvaluated
    <2>3. ListsOK' /\ Len(todo') + 1 = Len(todo) /\ Len(reg') = Len(reg) + 1
          /\ Len(todo) \in Nat /\ Len(todo') \in Nat /\ Len(reg) \in Nat /\ Len(reg') \in Nat
      BY <1>m, <2>1, <2>2, EvaluatedLists
    <2>4. gen <= cfg.gens /\ Len(reg) + Len(todo) <= Room(gen)
      BY <2>2 DEF RegistryOK
    <2>5. Len(reg') + Len(todo') = Len(reg) + Len(todo)
      BY <2>3
    <2>6. (gen <= cfg.gens /\ Len(reg) + Len(todo) <= Room(gen))'
      BY <1>m, <2>2, <2>4, <2>5 DEF Room
    <2> QED BY <2>2, <2>3, <2>6 DEF RegistryOK
  <1>9. CASE SelectionEnds /\ pc' # "failing"
    BY <1>9, <1>e, <1>l, <1>m, ListsKept DEF SelectionEnds, Fail, RegistryOK, Room
  <1>10. CASE GenerationEnds
    BY <1>10, <1>g, <1>m, <1>s DEF GenerationEnds, RegistryOK, ListsOK, Room
  <1>11. CASE Start \/ Ready \/ Unreachable \/ GroupFails \/ (Discover /\ pc' = "failing")
              \/ (SelectionEnds /\ pc' = "failing") \/ SearchEnds \/ HeldoutBaseline \/ HeldoutChampion
              \/ Finish \/ Return \/ Failed
    <2>1. UNCHANGED <<todo, fresh, reg, gen>>
      BY <1>11 DEF Start, Ready, Unreachable, GroupFails, Discover, SelectionEnds, SearchEnds,
                   HeldoutBaseline, HeldoutChampion, Finish, Return, Failed, Fail
    <2>2. pc' \in Late \/ (pc \in {"start", "ready"} /\ pc' \in {"ready", "generation"})
      BY <1>11 DEF Start, Ready, Unreachable, GroupFails, Discover, SelectionEnds, SearchEnds,
                   HeldoutBaseline, HeldoutChampion, Finish, Return, Failed, Fail, Late
    <2> QED BY <1>1, <1>2, <2>1, <2>2
  <1> QED BY <1>3, <1>4, <1>5, <1>6, <1>7, <1>8, <1>9, <1>10, <1>11 DEF SearchAction

\* The other steps leave the lists alone, or begin again.
LEMMA ListsOther ==
  ASSUME PlaceInv, ListsOK, RegistryOK, CountsInv, Write \/ WriteFails \/ Crash \/ UNCHANGED vars
  PROVE  ListsOK' /\ RegistryOK' /\ CountsInv'
  <1>1. UNCHANGED <<cfg, todo, fresh, reg, gen, recs, made>> /\ (pc' = pc \/ pc' \in Late)
    BY DEF Write, WriteFails, Crash, vars, Late
  <1>2. ListsOK'
    BY <1>1 DEF ListsOK
  <1>3. CountsInv'
    BY <1>1 DEF CountsInv, Twice
  <1>4. CASE pc' \in Late
    BY <1>1, <1>2, <1>3, <1>4, LateRegistry
  <1>5. CASE pc' = pc
    BY <1>1, <1>5, <1>2, <1>3 DEF RegistryOK, Room
  <1> QED BY <1>1, <1>4, <1>5

\* An empty run has nothing but the seed.
Empty ==
    /\ pc = "start" /\ gen = 1 /\ todo = <<>> /\ fresh = <<>> /\ reg = <<Seed>> /\ cps = <<>>
    /\ recs = NoRecords /\ calls = {} /\ made = 0

\* A run begins with the seed candidate and no rollouts.
LEMMA ListsEmpty ==
  ASSUME cfg \in Config, Empty
  PROVE  ListsOK /\ RegistryOK /\ CountsInv
  <1>1. cfg.proposals \in Nat /\ cfg.topK \in Nat /\ cfg.gens \in Nat
    BY DEF Config
  <1>2. todo \in Seq({Seed}) /\ fresh \in Seq({Seed}) /\ reg \in Seq({Seed})
    BY DEF Empty
  <1>3. ListsOK
    <2>1. gen \in Nat \ {0} /\ made \in Nat
      BY DEF Empty
    <2> QED BY <1>2, <2>1 DEF ListsOK
  <1>4. Len(reg) = 1 /\ gen = 1 /\ pc = "start"
    BY DEF Empty
  <1>5. Room(0) = 1 /\ gen - 1 = 0
    <2> DEFINE p == cfg.proposals + 1 + cfg.topK
    <2>1. p \in Nat
      BY <1>1
    <2>2. Room(0) = 1 + 0 * p
      BY DEF Room
    <2> HIDE DEF p
    <2> QED BY <1>4, <2>1, <2>2
  <1>6. RegistryOK
    BY <1>1, <1>4, <1>5 DEF RegistryOK
  <1>7. CountsInv
    BY DEF Empty, NoRecords, CountsInv, Twice
  <1> QED BY <1>3, <1>6, <1>7

HIDE DEF Running, GroupDue

-----------------------------------------------------------------------------
(* Heldout seeds *)
USE DEF Running, GroupDue

\* The split a group's rollouts belong to, by its cases' seeds.
LEMMA SeedsOfCases ==
  ASSUME NEW seeds \in Seq(Int), NEW reps \in Nat
  PROVE  \A i \in DOMAIN SeedCases(seeds, reps) : SeedCases(seeds, reps)[i].seed \in ToSet(seeds)
  <1> DEFINE l == Len(seeds)
             n == reps * l
  <1>1. l \in Nat /\ DOMAIN seeds = 1 .. l
    OBVIOUS
  <1>2. n \in Nat
    BY <1>1
  <1>3. DOMAIN SeedCases(seeds, reps) = 1 .. n
    BY DEF SeedCases
  <1> SUFFICES ASSUME NEW i \in 1 .. n PROVE SeedCases(seeds, reps)[i].seed \in ToSet(seeds)
    BY <1>3
  <1>4. SeedCases(seeds, reps)[i].seed = seeds[((i - 1) % l) + 1]
    BY DEF SeedCases
  <1>5. l # 0
    <2>1. l = 0 => n = 0
      BY <1>1
    <2> HIDE DEF n
    <2> QED BY <1>2, <2>1
  <1> HIDE DEF l, n
  <1>6. ((i - 1) % l) + 1 \in 1 .. l
    BY <1>2, <1>1, <1>5
  <1> QED BY <1>1, <1>4, <1>6 DEF ToSet

\* The rollouts a step asks for, one for each of the first n cases.
LEMMA AskedAre ==
  ASSUME NEW cases, NEW m, CaseList(cases, m), NEW n \in Nat, n <= m, NEW id, NEW split, NEW name
  PROVE  RolloutIds(id, split, name, SubSeq(cases, 1, n)) =
           {[id |-> id, split |-> split, group |-> name, seed |-> cases[i].seed,
             episode |-> cases[i].episode] : i \in 1 .. n}
  <1> DEFINE S == {cases[i] : i \in 1 .. n}
             t == SubSeq(cases, 1, n)
  <1>1. \A i \in 1 .. n : cases[i] \in S
    OBVIOUS
  <1> HIDE DEF S
  <1>2. 1 \in Int /\ n \in Int
    OBVIOUS
  <1>3. t \in Seq(S) /\ Len(t) = (IF 1 <= n THEN n - 1 + 1 ELSE 0)
        /\ \A i \in 1 .. n - 1 + 1 : t[i] = cases[1 + i - 1]
    BY <1>1, <1>2, SubSeqProperties
  <1> HIDE DEF t
  <1>4. Len(t) = n /\ DOMAIN t = 1 .. n
    BY <1>3
  <1>5. \A i \in 1 .. n : t[i] = cases[i]
    BY <1>3
  <1>6. RolloutIds(id, split, name, t) =
           {[id |-> id, split |-> split, group |-> name, seed |-> cases[i].seed,
             episode |-> cases[i].episode] : i \in 1 .. n}
    BY <1>4, <1>5 DEF RolloutIds
  <1> QED BY <1>6 DEF t

\* What is new in calls after a step of the search.
LEMMA NewCalls ==
  ASSUME PlaceInv, SearchAction, NEW x \in calls', x \notin calls
  PROVE  GroupDue /\ x.split = NextGroup.split /\ x.group = NextGroup.name
         /\ \E i \in DOMAIN NextGroup.cases : x.seed = NextGroup.cases[i].seed
  <1> DEFINE g == NextGroup
  <1>1. PICK n \in Nat : /\ GroupDue /\ CaseList(g.cases, Len(g.cases)) /\ n <= Len(g.cases)
                         /\ calls' = calls \cup RolloutIds(g.id, g.split, g.name, SubSeq(g.cases, 1, n))
    BY AskStep DEF Requested
  <1> HIDE DEF g
  <1>2. RolloutIds(g.id, g.split, g.name, SubSeq(g.cases, 1, n)) =
           {[id |-> g.id, split |-> g.split, group |-> g.name, seed |-> g.cases[i].seed,
             episode |-> g.cases[i].episode] : i \in 1 .. n}
    BY <1>1, AskedAre
  <1>3. PICK i \in 1 .. n : x = [id |-> g.id, split |-> g.split, group |-> g.name, seed |-> g.cases[i].seed,
                                 episode |-> g.cases[i].episode]
    BY <1>1, <1>2
  <1>4. i \in DOMAIN g.cases
    BY <1>1 DEF CaseList
  <1> QED BY <1>1, <1>3, <1>4 DEF g

ValidInv == pc \in Searching \cup {"ready"} => Valid(cfg)

SeenInv ==
    /\ ValidInv
    /\ cfg.selTasks = <<>> => \A i \in DOMAIN cps : cps[i].seed \in ToSet(cfg.selSeeds)
    /\ HeldoutUnseen

\* The seeds of the group that is due.
LEMMA GroupSeeds ==
  ASSUME PlaceInv, SeenInv, GroupDue, cfg.selTasks = <<>>, NEW i \in DOMAIN NextGroup.cases
  PROVE  /\ pc = "train" => NextGroup.cases[i].seed \in ToSet(cfg.train)
         /\ pc \in {"discover", "select"} => NextGroup.cases[i].seed \in ToSet(cfg.selSeeds)
         /\ pc \in {"baseline", "champion"} => NextGroup.split \in {"heldout", "heldout_baseline"}
  <1>1. /\ cfg.train \in Seq(Int) /\ cfg.trainReps \in Nat /\ cfg.selSeeds \in Seq(Int) /\ cfg.selReps \in Nat
        /\ 1 \in Nat
    BY DEF PlaceInv, Config
  <1>2. ASSUME pc = "train" PROVE NextGroup.cases[i].seed \in ToSet(cfg.train)
    BY <1>2, GroupParts, <1>1, SeedsOfCases
  <1>3. ASSUME pc = "discover" PROVE NextGroup.cases[i].seed \in ToSet(cfg.selSeeds)
    BY <1>3, GroupParts, <1>1, SeedsOfCases DEF DiscoveryCases
  <1>4. ASSUME pc = "select" PROVE NextGroup.cases[i].seed \in ToSet(cfg.selSeeds)
    <2>1. NextGroup.cases \in {BranchCases(cps), SeedCases(cfg.selSeeds, cfg.selReps)}
      BY <1>4, GroupParts DEF SelectionCases
    <2>2. CASE NextGroup.cases = BranchCases(cps)
      BY <2>2 DEF BranchCases, SeenInv
    <2>3. CASE NextGroup.cases = SeedCases(cfg.selSeeds, cfg.selReps)
      BY <1>1, <2>3, SeedsOfCases
    <2> QED BY <2>1, <2>2, <2>3
  <1>5. pc \in {"baseline", "champion"} => NextGroup.split \in {"heldout", "heldout_baseline"}
    BY GroupParts
  <1> QED BY <1>2, <1>3, <1>4, <1>5

\* What is searched has been validated (MapoConfig::validate).
LEMMA ValidSearch ==
  ASSUME PlaceInv, ValidInv, SearchAction
  PROVE  ValidInv'
  <1>1. cfg' = cfg
    BY VerdictStep
  <1>2. CASE Start
    BY <1>2, <1>1 DEF Start, Fail, Searching, ValidInv
  <1>3. CASE ~Start
    <2>1. pc' \in Searching \cup {"ready"} => pc \in Searching \cup {"ready"}
      <3>1. CASE Fails BY <3>1 DEF Fails, Searching
      <3>2. CASE Persists
        <4>1. pc # "start"
          BY <1>3, <3>2 DEF Persists, SearchAction, Ready, Unreachable, Propose, GroupFails, TrainEvaluated,
             TrainEnds, Discover, Rank, SelectionEvaluated, SelectionEnds, GenerationEnds, SearchEnds,
             HeldoutBaseline, HeldoutChampion, Finish, Return, Failed
        <4> QED BY <3>2, <4>1 DEF Persists, Searching
      <3>3. CASE Moves BY <3>3 DEF Moves, Searching
      <3> QED BY <3>1, <3>2, <3>3, SearchKinds
    <2> QED BY <1>1, <2>1 DEF ValidInv
  <1> QED BY <1>2, <1>3

\* The checkpoints branch from selection seeds only.
LEMMA SeedsSearch ==
  ASSUME PlaceInv, SeenInv, SearchAction, cfg.selTasks = <<>>
  PROVE  \A i \in DOMAIN cps' : cps'[i].seed \in ToSet(cfg.selSeeds)
  <1>1. CASE Discover /\ pc' # "failing"
    <2>1. PICK S : cps' \in Seq(S) /\ \A x \in S : \E i \in DOMAIN NextGroup.cases : x.seed = NextGroup.cases[i].seed
      BY <1>1, CheckpointsList
    <2>2. GroupDue /\ pc = "discover"
      BY <1>1 DEF Discover
    <2>3. \A i \in DOMAIN NextGroup.cases : NextGroup.cases[i].seed \in ToSet(cfg.selSeeds)
      BY <2>2, GroupSeeds
    <2>4. \A x \in S : x.seed \in ToSet(cfg.selSeeds)
      BY <2>1, <2>3
    <2>5. \A i \in DOMAIN cps' : cps'[i] \in S
      BY <2>1
    <2> QED BY <2>4, <2>5
  <1>2. CASE TrainEnds
    BY <1>2 DEF TrainEnds
  <1>3. CASE ~TrainEnds /\ ~(Discover /\ pc' # "failing")
    <2>1. UNCHANGED cps
      BY <1>3 DEF SearchAction, Start, Ready, Unreachable, Propose, GroupFails, TrainEvaluated, Discover, Rank,
             SelectionEvaluated, SelectionEnds, GenerationEnds, SearchEnds, HeldoutBaseline, HeldoutChampion,
             Finish, Return, Failed, Fail
    <2> QED BY <2>1 DEF SeenInv
  <1> QED BY <1>1, <1>2, <1>3

\* No step of the search rolls out a heldout seed outside the heldout split.
LEMMA SeenSearch ==
  ASSUME PlaceInv, SeenInv, SearchAction
  PROVE  SeenInv'
  <1>1. cfg' = cfg
    BY VerdictStep
  <1>2. ValidInv'
    BY ValidSearch DEF SeenInv
  <1>3. (cfg.selTasks = <<>> => \A i \in DOMAIN cps : cps[i].seed \in ToSet(cfg.selSeeds))'
    BY <1>1, SeedsSearch
  <1>4. ASSUME cfg.selTasks = <<>>, NEW x \in calls', x.seed \in ToSet(cfg.heldout)
        PROVE  x.split \in {"heldout", "heldout_baseline"}
    <2>1. CASE x \in calls
      BY <1>4, <2>1 DEF SeenInv, HeldoutUnseen
    <2>2. CASE x \notin calls
      <3>1. PICK i \in DOMAIN NextGroup.cases : /\ GroupDue /\ x.split = NextGroup.split
                                                /\ x.seed = NextGroup.cases[i].seed
        BY <2>2, NewCalls
      <3>2. Valid(cfg)
        BY <3>1 DEF SeenInv, ValidInv, Searching
      <3>3. /\ x.seed \notin ToSet(cfg.train)
            /\ x.seed \notin ToSet(cfg.selSeeds)
        BY <1>4, <3>2 DEF Valid
      <3> QED BY <1>4, <3>1, <3>3, GroupSeeds
    <2> QED BY <2>1, <2>2
  <1>5. HeldoutUnseen'
    BY <1>1, <1>4 DEF HeldoutUnseen
  <1> QED BY <1>2, <1>3, <1>5 DEF SeenInv

\* Writes and crashes request nothing.
LEMMA SeenOther ==
  ASSUME PlaceInv, SeenInv, Write \/ WriteFails \/ Crash \/ UNCHANGED vars
  PROVE  SeenInv'
  BY DEF Write, WriteFails, Crash, vars, SeenInv, ValidInv, Searching, HeldoutUnseen

\* A run begins with no rollouts requested.
LEMMA SeenEmpty ==
  ASSUME Empty PROVE SeenInv
  BY DEF Empty, SeenInv, ValidInv, Searching, HeldoutUnseen

HIDE DEF Running, GroupDue

-----------------------------------------------------------------------------
(* Distinct cases *)
USE DEF Running, GroupDue

\* No two cases of a list have both the seed and the episode.
Apart(cases) ==
    \A i, j \in DOMAIN cases :
      cases[i].seed = cases[j].seed /\ cases[i].episode = cases[j].episode => i = j

\* A number is known by its quotient and its remainder.
LEMMA QuotientAndRest ==
  ASSUME NEW l \in Nat \ {0}, NEW a \in Nat, NEW b \in Nat, a % l = b % l, a \div l = b \div l
  PROVE  a = b
  OBVIOUS

\* The n-th round over a list without repetitions.
LEMMA RoundsApart ==
  ASSUME NEW l \in Nat, NEW n \in Nat, n = 0 \/ l # 0, NEW f, NEW i \in 1 .. n, NEW j \in 1 .. n,
         \A a, b \in 1 .. l : f[a] = f[b] => a = b,
         f[((i - 1) % l) + 1] = f[((j - 1) % l) + 1],
         (i - 1) \div l = (j - 1) \div l
  PROVE  i = j
  <1> DEFINE a == i - 1
             b == j - 1
  <1>1. a \in Nat /\ b \in Nat /\ l # 0
    OBVIOUS
  <1>2. f[(a % l) + 1] = f[(b % l) + 1] /\ a \div l = b \div l
    OBVIOUS
  <1>3. i = j <=> a = b
    OBVIOUS
  <1> HIDE DEF a, b
  <1>4. a % l \in 0 .. l - 1 /\ b % l \in 0 .. l - 1
    BY <1>1
  <1> DEFINE p == a % l
             q == b % l
  <1>5. p + 1 \in 1 .. l /\ q + 1 \in 1 .. l
    BY <1>4
  <1>6. f[p + 1] = f[q + 1]
    BY <1>2
  <1>7. p \in Int /\ q \in Int
    BY <1>4
  <1> HIDE DEF p, q
  <1>8. p + 1 = q + 1
    BY <1>5, <1>6
  <1>9. p = q
    BY <1>7, <1>8
  <1>10. a % l = b % l
    BY <1>9 DEF p, q
  <1> QED BY <1>1, <1>2, <1>3, <1>10, QuotientAndRest

\* Distinct seeds make distinct pairs of seed and episode,
LEMMA SeedCasesApart ==
  ASSUME NEW seeds \in Seq(Int), NEW reps \in Nat, IsInjective(seeds)
  PROVE  Apart(SeedCases(seeds, reps))
  <1> DEFINE l == Len(seeds)
             n == reps * l
  <1>1. l \in Nat /\ DOMAIN seeds = 1 .. l
    OBVIOUS
  <1>2. n \in Nat /\ (n = 0 \/ l # 0)
    BY <1>1
  <1>3. DOMAIN SeedCases(seeds, reps) = 1 .. n
    BY DEF SeedCases
  <1>4. \A a, b \in 1 .. l : seeds[a] = seeds[b] => a = b
    BY <1>1 DEF IsInjective
  <1> SUFFICES ASSUME NEW i \in 1 .. n, NEW j \in 1 .. n,
                      SeedCases(seeds, reps)[i].seed = SeedCases(seeds, reps)[j].seed,
                      SeedCases(seeds, reps)[i].episode = SeedCases(seeds, reps)[j].episode
               PROVE  i = j
    BY <1>3 DEF Apart
  <1>5. /\ seeds[((i - 1) % l) + 1] = seeds[((j - 1) % l) + 1]
        /\ (i - 1) \div l = (j - 1) \div l
    BY DEF SeedCases
  <1> HIDE DEF l, n
  <1> QED BY <1>1, <1>2, <1>4, <1>5, RoundsApart

\* and so do tasks with distinct seeds.
LEMMA TaskCasesApart ==
  ASSUME NEW tasks \in Seq(Nat), NEW reps \in Nat,
         IsInjective([i \in DOMAIN tasks |-> TaskSeed(tasks[i])])
  PROVE  Apart(TaskCases(tasks, reps))
  <1> DEFINE l == Len(tasks)
             n == reps * l
             f == [i \in DOMAIN tasks |-> TaskSeed(tasks[i])]
  <1>1. l \in Nat /\ DOMAIN tasks = 1 .. l
    OBVIOUS
  <1>2. n \in Nat /\ (n = 0 \/ l # 0)
    BY <1>1
  <1>3. DOMAIN TaskCases(tasks, reps) = 1 .. n
    BY DEF TaskCases
  <1>4. \A a, b \in 1 .. l : f[a] = f[b] => a = b
    BY <1>1 DEF IsInjective
  <1>t. \A a \in 1 .. l : f[a] = TaskSeed(tasks[a])
    BY <1>1
  <1> SUFFICES ASSUME NEW i \in 1 .. n, NEW j \in 1 .. n,
                      TaskCases(tasks, reps)[i].seed = TaskCases(tasks, reps)[j].seed,
                      TaskCases(tasks, reps)[i].episode = TaskCases(tasks, reps)[j].episode
               PROVE  i = j
    BY <1>3 DEF Apart
  <1>5. /\ TaskSeed(tasks[((i - 1) % l) + 1]) = TaskSeed(tasks[((j - 1) % l) + 1])
        /\ (i - 1) \div l = (j - 1) \div l
    BY DEF TaskCases
  <1> HIDE DEF l, n, f
  <1>6. \A k \in 1 .. n : ((k - 1) % l) + 1 \in 1 .. l
    <2> SUFFICES ASSUME NEW k \in 1 .. n PROVE ((k - 1) % l) + 1 \in 1 .. l
      OBVIOUS
    <2>1. k - 1 \in Nat /\ l # 0
      BY <1>2
    <2>2. (k - 1) % l \in 0 .. l - 1
      BY <1>1, <2>1
    <2> QED BY <1>1, <2>2
  <1>7. f[((i - 1) % l) + 1] = f[((j - 1) % l) + 1]
    BY <1>5, <1>6, <1>t
  <1> QED BY <1>1, <1>2, <1>4, <1>5, <1>7, RoundsApart

\* The cases of the group that is due are distinct.
LEMMA GroupApart ==
  ASSUME PlaceInv, GroupDue, Distinct(cfg)
  PROVE  Apart(NextGroup.cases)
  <1>1. /\ cfg.train \in Seq(Int) /\ cfg.trainReps \in Nat /\ cfg.selSeeds \in Seq(Int)
        /\ cfg.selTasks \in Seq(Nat) /\ cfg.selReps \in Nat /\ 1 \in Nat
        /\ cfg.heldout \in Seq(Int) /\ cfg.heldoutReps \in Nat
    BY DEF PlaceInv, Config
  <1>2. /\ IsInjective(cfg.train) /\ IsInjective(cfg.selSeeds) /\ IsInjective(cfg.heldout)
        /\ IsInjective([i \in DOMAIN cfg.selTasks |-> TaskSeed(cfg.selTasks[i])])
    BY DEF Distinct
  <1>3. CASE pc = "train"
    BY <1>1, <1>2, <1>3, GroupParts, SeedCasesApart
  <1>4. CASE pc = "discover"
    BY <1>4, GroupParts, <1>1, <1>2, SeedCasesApart, TaskCasesApart DEF DiscoveryCases
  <1>5. CASE pc = "select"
    <2>1. NextGroup.cases \in {BranchCases(cps), SeedCases(cfg.selSeeds, cfg.selReps),
                               TaskCases(cfg.selTasks, cfg.selReps)}
      BY <1>5, GroupParts DEF SelectionCases
    <2>2. Apart(BranchCases(cps))
      <3>1. PICK S : cps \in Seq(S)
        BY DEF PlaceInv
      <3>2. DOMAIN cps = 1 .. Len(cps) /\ Len(cps) \in Nat
        BY <3>1
      <3>3. DOMAIN BranchCases(cps) = 1 .. Len(cps) /\ \A i \in 1 .. Len(cps) : BranchCases(cps)[i].episode = i - 1
        BY <3>2 DEF BranchCases
      <3>4. \A i, j \in 1 .. Len(cps) : i - 1 = j - 1 => i = j
        BY <3>2
      <3> QED BY <3>3, <3>4 DEF Apart
    <2> QED BY <1>1, <1>2, <2>1, <2>2, SeedCasesApart, TaskCasesApart
  <1>6. CASE pc \in {"baseline", "champion"}
    BY <1>1, <1>2, <1>6, GroupParts, SeedCasesApart
  <1> QED BY <1>3, <1>4, <1>5, <1>6

\* As many different rollouts as cases asked for.
LEMMA AskedCount ==
  ASSUME NEW cases, NEW m, CaseList(cases, m), NEW n \in Nat, n <= m, Apart(cases), NEW id, NEW split, NEW name
  PROVE  /\ IsFiniteSet(RolloutIds(id, split, name, SubSeq(cases, 1, n)))
         /\ Cardinality(RolloutIds(id, split, name, SubSeq(cases, 1, n))) = n
  <1> DEFINE e(i) == [id |-> id, split |-> split, group |-> name, seed |-> cases[i].seed,
                      episode |-> cases[i].episode]
             R == {e(i) : i \in 1 .. n}
             f == [i \in 1 .. n |-> e(i)]
  <1>1. RolloutIds(id, split, name, SubSeq(cases, 1, n)) = R
    BY AskedAre
  <1>2. \A i, j \in 1 .. n : f[i] = f[j] => i = j
    <2> SUFFICES ASSUME NEW i \in 1 .. n, NEW j \in 1 .. n, f[i] = f[j] PROVE i = j
      OBVIOUS
    <2>1. cases[i].seed = cases[j].seed /\ cases[i].episode = cases[j].episode
      <3>1. f[i].seed = cases[i].seed /\ f[j].seed = cases[j].seed
            /\ f[i].episode = cases[i].episode /\ f[j].episode = cases[j].episode
        OBVIOUS
      <3> HIDE DEF f
      <3> QED BY <3>1
    <2>2. i \in DOMAIN cases /\ j \in DOMAIN cases
      BY DEF CaseList
    <2> QED BY <2>1, <2>2 DEF Apart
  <1>3. f \in [1 .. n -> R] /\ \A x \in R : \E i \in 1 .. n : f[i] = x
    OBVIOUS
  <1> HIDE DEF f, R
  <1>4. f \in Bijection(1 .. n, R)
    BY <1>2, <1>3 DEF IsInjective, Bijection, Injection, Surjection
  <1>5. ExistsBijection(1 .. n, R)
    BY <1>4 DEF ExistsBijection
  <1>6. IsFiniteSet(1 .. n)
    BY FS_Interval
  <1>7. IsFiniteSet(R) /\ Cardinality(R) = n
    BY <1>5, <1>6, FS_Bijection, FS_CountingElements
  <1> QED BY <1>1, <1>7

HIDE DEF Running, GroupDue

-----------------------------------------------------------------------------
(* Rollout ids *)
USE DEF Running, GroupDue

\* A group name that has been used, seen from where the run is now.
Past(g) ==
    /\ g[1] \in Nat /\ g[3] \in Nat /\ g[2] \in {"c", "d", "s", "h"}
    /\ g[2] = "h" => /\ pc \in Late \ {"baseline"}
                     /\ pc = "champion" => g[3] = 0
    /\ g[2] # "h" =>
         /\ g[1] <= gen
         /\ g[1] = gen =>
              /\ pc \notin {"start", "ready", "generation"}
              /\ pc = "train" => g[2] = "c" /\ g[3] > Len(todo)
              /\ pc = "discover" => g[2] = "c"
              /\ pc = "rank" => g[2] \in {"c", "d"}
              /\ pc = "select" => g[2] \in {"c", "d"} \/ g[3] > Len(todo)

UniqueInv ==
    /\ \A x \in calls : Past(x.group)
    /\ Distinct(cfg) => IsFiniteSet(calls) /\ Cardinality(calls) = made

\* The name of the group that is due is a new one.
LEMMA NameIsNew ==
  ASSUME PlaceInv, ListsOK, GroupDue
  PROVE  ~Past(NextGroup.name)
  <1>0. gen \in Nat /\ Len(todo) \in Nat
    BY DEF ListsOK
  <1> DEFINE g == NextGroup.name
  <1>1. CASE pc = "train"
    <2>1. g[1] = gen /\ g[2] = "c" /\ g[3] = Len(todo)
      BY <1>1, GroupParts
    <2> HIDE DEF g
    <2> QED BY <1>0, <1>1, <2>1 DEF Past, g
  <1>2. CASE pc = "discover"
    BY <1>2, GroupParts, <1>0 DEF Past
  <1>3. CASE pc = "select"
    <2>1. g[1] = gen /\ g[2] = "s" /\ g[3] = Len(todo)
      BY <1>3, GroupParts
    <2> HIDE DEF g
    <2> QED BY <1>0, <1>3, <2>1 DEF Past, g
  <1>4. CASE pc = "baseline"
    BY <1>4, GroupParts DEF Past, Late
  <1>5. CASE pc = "champion"
    BY <1>5, GroupParts DEF Past, Late
  <1> QED BY <1>1, <1>2, <1>3, <1>4, <1>5

\* Names stay used.
LEMMA NamesStay ==
  ASSUME PlaceInv, ListsOK, SearchAction, NEW g, Past(g)
  PROVE  Past(g)'
  <1>0. gen \in Nat \ {0} /\ Len(todo) \in Nat /\ g[1] \in Nat /\ g[3] \in Nat
    BY DEF ListsOK, Past
  <1>1. CASE pc' \in Late \ {"baseline", "champion"} /\ gen' = gen
    BY <1>1 DEF Past, Late
  <1>2. CASE pc \in {"start", "ready"} /\ pc' \in {"ready", "generation"} /\ gen' = gen
    BY <1>2 DEF Past, Late
  <1>3. CASE Propose
    BY <1>3 DEF Propose, Past, Late
  <1>4. CASE TrainEvaluated \/ SelectionEvaluated
    <2>1. pc \in {"train", "select"} /\ pc' = pc /\ gen' = gen /\ todo' = Tail(todo) /\ todo # <<>>
      BY <1>4 DEF TrainEvaluated, SelectionEvaluated
    <2>2. PICK S : todo \in Seq(S)
      BY DEF ListsOK
    <2>3. Len(todo') = Len(todo) - 1
      BY <2>1, <2>2
    <2>4. g[3] > Len(todo) => g[3] > Len(todo')
      BY <1>0, <2>3
    <2> QED BY <2>1, <2>4 DEF Past, Late
  <1>5. CASE TrainEnds
    BY <1>5, TrainLeads DEF TrainEnds, Past, Late
  <1>6. CASE Discover /\ pc' # "failing"
    BY <1>6 DEF Discover, Fail, Past, Late
  <1>7. CASE Rank
    BY <1>7 DEF Rank, Past, Late
  <1>8. CASE SelectionEnds /\ pc' # "failing"
    BY <1>8 DEF SelectionEnds, Fail, Past, Late
  <1>9. CASE GenerationEnds
    BY <1>9, <1>0 DEF GenerationEnds, Past, Late
  <1>10. CASE SearchEnds \/ HeldoutBaseline
    BY <1>10 DEF SearchEnds, HeldoutBaseline, Past, Late
  <1>11. CASE Start \/ Ready \/ Unreachable \/ GroupFails \/ (Discover /\ pc' = "failing")
              \/ (SelectionEnds /\ pc' = "failing") \/ HeldoutChampion \/ Finish \/ Return \/ Failed
    <2>1. gen' = gen
      BY <1>11 DEF Start, Ready, Unreachable, GroupFails, Discover, SelectionEnds,
                   HeldoutChampion, Finish, Return, Failed, Fail
    <2>2. \/ pc' \in Late \ {"baseline", "champion"}
          \/ pc \in {"start", "ready"} /\ pc' \in {"ready", "generation"}
      BY <1>11 DEF Start, Ready, Unreachable, GroupFails, Discover, SelectionEnds,
                   HeldoutChampion, Finish, Return, Failed, Fail, Late
    <2> QED BY <1>1, <1>2, <2>1, <2>2
  <1> QED BY <1>3, <1>4, <1>5, <1>6, <1>7, <1>8, <1>9, <1>10, <1>11 DEF SearchAction

\* The name of the group just asked for is used afterwards.
LEMMA NameIsUsed ==
  ASSUME PlaceInv, ListsOK, SearchAction, GroupDue, calls' # calls, NEW g, g = NextGroup.name
  PROVE  Past(g)'
  <1>0. gen \in Nat \ {0} /\ gen \in Nat /\ Len(todo) \in Nat
    BY DEF ListsOK
  <1>n. /\ pc = "train" => g[1] = gen /\ g[2] = "c" /\ g[3] = Len(todo)
        /\ pc = "discover" => g[1] = gen /\ g[2] = "d" /\ g[3] = 0
        /\ pc = "select" => g[1] = gen /\ g[2] = "s" /\ g[3] = Len(todo)
        /\ pc = "baseline" => g[1] = 0 /\ g[2] = "h" /\ g[3] = 0
        /\ pc = "champion" => g[1] = 0 /\ g[2] = "h" /\ g[3] = 1
    BY GroupParts
  <1>t. g[1] \in Nat /\ g[3] \in Nat /\ g[2] \in {"c", "d", "s", "h"}
        /\ (pc \in {"train", "discover", "select"} => g[2] # "h" /\ g[1] = gen)
        /\ (pc \in {"baseline", "champion"} => g[2] = "h")
    BY <1>0, <1>n
  <1>l. g[1] = gen => g[1] <= gen
    BY <1>0
  <1>1. CASE pc' \in Late \ {"baseline", "champion"} /\ gen' = gen
    BY <1>1, <1>t, <1>l DEF Past, Late
  <1>2. CASE TrainEvaluated \/ SelectionEvaluated
    <2>1. pc \in {"train", "select"} /\ pc' = pc /\ gen' = gen /\ todo' = Tail(todo) /\ todo # <<>>
      BY <1>2 DEF TrainEvaluated, SelectionEvaluated
    <2>2. PICK S : todo \in Seq(S)
      BY DEF ListsOK
    <2>3. Len(todo') = Len(todo) - 1
      BY <2>1, <2>2
    <2>4. g[3] = Len(todo) => g[3] > Len(todo')
      BY <1>0, <2>3
    <2> QED BY <1>n, <1>t, <1>l, <2>1, <2>4 DEF Past, Late
  <1>3. CASE Discover /\ pc' # "failing"
    BY <1>3, <1>n, <1>t, <1>l DEF Discover, Fail, Past, Late
  <1>4. CASE HeldoutBaseline
    BY <1>4, <1>n, <1>t, <1>l DEF HeldoutBaseline, Past, Late
  <1>5. CASE GroupFails \/ (Discover /\ pc' = "failing") \/ HeldoutChampion
    BY <1>5, <1>1 DEF GroupFails, Discover, HeldoutChampion, Fail, Late
  <1>6. CASE Start \/ Ready \/ Unreachable \/ Propose \/ TrainEnds \/ Rank \/ SelectionEnds
             \/ GenerationEnds \/ SearchEnds \/ Finish \/ Return \/ Failed
    <2>1. UNCHANGED calls
      BY <1>6 DEF Start, Ready, Unreachable, Propose, TrainEnds, Rank, SelectionEnds, GenerationEnds,
                  SearchEnds, Finish, Return, Failed, Fail
    <2> QED BY <2>1
  <1> QED BY <1>2, <1>3, <1>4, <1>5, <1>6 DEF SearchAction

\* The rollouts asked for are new ones, and as many as were counted.
LEMMA UniqueSearch ==
  ASSUME PlaceInv, ListsOK, UniqueInv, SearchAction
  PROVE  UniqueInv'
  <1>1. cfg' = cfg
    BY VerdictStep
  <1>2. \A x \in calls' : Past(x.group)'
    <2> SUFFICES ASSUME NEW x \in calls' PROVE Past(x.group)'
      OBVIOUS
    <2>1. PICK g : g = x.group
      OBVIOUS
    <2>2. CASE x \in calls
      BY <2>1, <2>2, NamesStay DEF UniqueInv
    <2>3. CASE x \notin calls
      BY <2>1, <2>3, NewCalls, NameIsUsed
    <2> QED BY <2>2, <2>3
  <1>3. ASSUME Distinct(cfg) PROVE IsFiniteSet(calls') /\ Cardinality(calls') = made'
    <2>1. IsFiniteSet(calls) /\ Cardinality(calls) = made /\ made \in Nat
      BY <1>3 DEF UniqueInv, ListsOK
    <2>2. CASE UNCHANGED <<calls, made>>
      BY <2>1, <2>2
    <2>3. CASE ~UNCHANGED <<calls, made>>
      <3> DEFINE g == NextGroup
      <3>1. PICK n \in Nat : /\ GroupDue /\ CaseList(g.cases, Len(g.cases)) /\ n <= Len(g.cases)
                             /\ calls' = calls \cup RolloutIds(g.id, g.split, g.name, SubSeq(g.cases, 1, n))
                             /\ made' = made + n
        BY <2>3, AskStep DEF Requested
      <3>2. Apart(g.cases)
        BY <1>3, <3>1, GroupApart
      <3>3. \A x \in calls : x.group # g.name
        BY <3>1, NameIsNew DEF UniqueInv
      <3> HIDE DEF g
      <3> DEFINE R == RolloutIds(g.id, g.split, g.name, SubSeq(g.cases, 1, n))
      <3>4. IsFiniteSet(R) /\ Cardinality(R) = n
        BY <3>1, <3>2, AskedCount
      <3>5. calls \cap R = {}
        <4>1. \A x \in R : x.group = g.name
          BY DEF RolloutIds
        <4> HIDE DEF R
        <4> QED BY <3>3, <4>1
      <3>6. calls' = calls \cup R
        BY <3>1
      <3> HIDE DEF R
      <3>7. IsFiniteSet(calls \cup R)
            /\ Cardinality(calls \cup R) = Cardinality(calls) + Cardinality(R) - Cardinality(calls \cap R)
        BY <2>1, <3>4, FS_Union
      <3>8. Cardinality(calls \cup R) = made + n
        BY <2>1, <3>4, <3>5, <3>7, FS_EmptySet
      <3> QED BY <3>1, <3>6, <3>7, <3>8
    <2> QED BY <2>2, <2>3
  <1> QED BY <1>1, <1>2, <1>3 DEF UniqueInv

\* Writes and crashes leave the ids alone.
LEMMA UniqueOther ==
  ASSUME PlaceInv, ListsOK, UniqueInv, Write \/ WriteFails \/ Crash \/ UNCHANGED vars
  PROVE  UniqueInv'
  <1>1. UNCHANGED <<cfg, calls, made, gen, todo>> /\ (pc' = pc \/ pc' \in {"failing", "failed", "crashed"})
    BY DEF Write, WriteFails, Crash, vars
  <1>2. ASSUME NEW g, Past(g) PROVE Past(g)'
    BY <1>1, <1>2 DEF Past, Late
  <1>3. \A x \in calls : Past(x.group)'
    <2> SUFFICES ASSUME NEW x \in calls PROVE Past(x.group)'
      OBVIOUS
    <2>1. PICK g : g = x.group
      OBVIOUS
    <2>2. Past(g)
      BY <2>1 DEF UniqueInv
    <2> QED BY <1>2, <2>1, <2>2
  <1> QED BY <1>1, <1>3 DEF UniqueInv

\* A run begins with no ids.
LEMMA UniqueEmpty ==
  ASSUME Empty PROVE UniqueInv
  BY FS_EmptySet DEF Empty, UniqueInv

FairInv == ListsOK /\ RegistryOK /\ CountsInv /\ SeenInv /\ UniqueInv

\* A run that begins in a directory, for the first time or again.
LEMMA FairEmpty == cfg \in Config /\ Empty => FairInv
  BY ListsEmpty, SeenEmpty, UniqueEmpty DEF FairInv

\* The invariant of the comparison holds at first,
LEMMA FairInit == Init => FairInv
  BY MapoAssumption, FairEmpty DEF Init, Empty

\* A rerun changes neither generations nor proposals, so the seed keeps its id.
LEMMA SeedKept ==
  ASSUME cfg \in Config, Rerun
  PROVE  Seed' = Seed
  <1>1. PICK dry \in BOOLEAN : cfg' = [cfg EXCEPT !.dry = dry]
    BY DEF Rerun
  <1>2. cfg'.gens = cfg.gens /\ cfg'.proposals = cfg.proposals
    BY <1>1 DEF Config
  <1> QED BY <1>2 DEF Seed, SeedId, CandidateId

\* after a rerun,
LEMMA FairRerun == PlaceInv /\ Rerun => FairInv'
  <1>1. PlaceInv /\ Rerun => (cfg \in Config /\ Empty)'
    <2> SUFFICES ASSUME PlaceInv, Rerun PROVE (cfg \in Config /\ Empty)'
      OBVIOUS
    <2>1. cfg' \in Config
      BY DryChanges DEF Rerun, PlaceInv
    <2>2. Empty'
      BY SeedKept DEF PlaceInv, Rerun, Fresh, Empty
    <2> QED BY <2>1, <2>2
  <1>2. (cfg \in Config /\ Empty)' => FairInv'
    BY FairEmpty, PTL
  <1> QED BY <1>1, <1>2

\* and after every step.
LEMMA FairStep == PlaceInv /\ FairInv /\ [Next]_vars => FairInv'
  <1> SUFFICES ASSUME PlaceInv, FairInv, [Next]_vars PROVE FairInv'
    OBVIOUS
  <1> USE DEF FairInv
  <1>1. CASE SearchAction
    BY <1>1, ListsSearch, CountsSearch, SeenSearch, UniqueSearch
  <1>2. CASE Write \/ WriteFails \/ Crash \/ UNCHANGED vars
    BY <1>2, ListsOther, SeenOther, UniqueOther
  <1>3. CASE Rerun
    BY <1>3, FairRerun
  <1> QED BY <1>1, <1>2, <1>3 DEF Next, Advance, SearchAction

\* It gives the property the runs check.
LEMMA FairIsFair == PlaceInv /\ DiskInv /\ FairInv => ComparisonIsFair
  <1> SUFFICES ASSUME PlaceInv, DiskInv, FairInv PROVE ComparisonIsFair
    OBVIOUS
  <1>1. TypeOK
    BY RegistryBound DEF PlaceInv, Config, DiskInv, FairInv, CountsInv, Twice, Room, TypeOK, Places
  <1>2. UniqueRollouts
    BY DEF FairInv, UniqueInv, UniqueRollouts
  <1>3. HeldoutUnseen /\ PairsExact
    BY DEF FairInv, SeenInv, PlaceInv
  <1> QED BY <1>1, <1>2, <1>3 DEF ComparisonIsFair

(* The heldout comparison of execute_mapo_run is a fair one: both arms hold  *)
(* the same pairs, the whole product of heldout seeds and episodes, once; no *)
(* heldout seed was rolled out by the search when the selection is by seeds; *)
(* no rollout id was requested twice when the seeds of a split are distinct; *)
(* and no more rollouts are counted than were requested.                     *)
THEOREM ComparisonsAreFair == Spec => []ComparisonIsFair
  <1>1. Init => PlaceInv /\ DiskInv /\ FairInv
    BY PlaceInit, DiskInit, FairInit
  <1>2. PlaceInv /\ DiskInv /\ FairInv /\ [Next]_vars => (PlaceInv /\ DiskInv /\ FairInv)'
    BY PlaceStep, DiskStep, FairStep
  <1>3. PlaceInv /\ DiskInv /\ FairInv => ComparisonIsFair
    BY FairIsFair
  <1> QED BY <1>1, <1>2, <1>3, PTL DEF Spec
-----------------------------------------------------------------------------
(* Sums *)
\* it sums a field of the records over every set of at most k of the places S.
Sums(it, records, field, S, k) ==
    it = [s \in {t \in SUBSET S : Cardinality(t) <= k} |->
            IF s = {} THEN 0
            ELSE records[CHOOSE x \in s : TRUE][field] + it[s \ {CHOOSE x \in s : TRUE}]]

\* A sum is defined for sets of each size: by the least counterexample.
LEMMA SumsExist ==
  ASSUME NEW records, NEW field, NEW S, IsFiniteSet(S), NEW n \in Nat
  PROVE  \E it : Sums(it, records, field, S, n)
  <1> DEFINE T == {k \in Nat : ~\E it : Sums(it, records, field, S, k)}
             Upto(k) == {t \in SUBSET S : Cardinality(t) <= k}
             Of(s) == CHOOSE x \in s : TRUE
  <1> SUFFICES ASSUME T # {} PROVE FALSE
    OBVIOUS
  <1>1. PICK k \in T : \A y \in T : k <= y
    <2> T \subseteq Nat
      OBVIOUS
    <2> HIDE DEF T
    <2> QED BY LeastOf
  <1>2. \A s \in SUBSET S : IsFiniteSet(s) /\ Cardinality(s) \in Nat /\ (Cardinality(s) = 0 <=> s = {})
    BY FS_Subset, FS_CardinalityType, FS_EmptySet
  <1>3. \A s \in SUBSET S : s # {} =>
          /\ Of(s) \in s /\ s \ {Of(s)} \in SUBSET S
          /\ Cardinality(s \ {Of(s)}) = Cardinality(s) - 1
    <2> SUFFICES ASSUME NEW s \in SUBSET S, s # {}
                 PROVE  Of(s) \in s /\ Cardinality(s \ {Of(s)}) = Cardinality(s) - 1
      OBVIOUS
    <2>1. Of(s) \in s
      OBVIOUS
    <2> HIDE DEF Of
    <2> QED BY <1>2, <2>1, FS_RemoveElement
  <1> HIDE DEF Of
  <1>4. k # 0
    <2> SUFFICES ASSUME k = 0 PROVE FALSE
      OBVIOUS
    <2> DEFINE f == [s \in Upto(0) |-> 0]
    <2>1. \A s \in Upto(0) : s = {}
      BY <1>2
    <2>2. f = [s \in Upto(0) |-> IF s = {} THEN 0 ELSE records[Of(s)][field] + f[s \ {Of(s)}]]
      BY <2>1
    <2>3. Sums(f, records, field, S, 0)
      BY <2>2 DEF Sums, Of
    <2> HIDE DEF f
    <2> QED BY <1>1, <2>3
  <1>5. k \in Nat /\ k - 1 \in Nat /\ k - 1 \notin T
    BY <1>1, <1>4
  <1>6. PICK f : Sums(f, records, field, S, k - 1)
    BY <1>5
  <1>7. \A s \in Upto(k - 1) : f[s] = IF s = {} THEN 0 ELSE records[Of(s)][field] + f[s \ {Of(s)}]
    BY <1>6 DEF Sums, Of
  <1> DEFINE g == [s \in Upto(k) |-> IF s = {} THEN 0 ELSE records[Of(s)][field] + f[s \ {Of(s)}]]
  <1>8. ASSUME NEW s \in Upto(k), s # {} PROVE f[s \ {Of(s)}] = g[s \ {Of(s)}]
    <2> DEFINE r == s \ {Of(s)}
    <2>1. r \in SUBSET S /\ Cardinality(r) = Cardinality(s) - 1 /\ Cardinality(s) \in Nat
      BY <1>2, <1>3, <1>8
    <2> HIDE DEF r
    <2>2. r \in Upto(k - 1) /\ r \in Upto(k)
      BY <1>5, <2>1
    <2>3. g[r] = f[r]
      BY <1>7, <2>2
    <2> QED BY <2>3 DEF r
  <1>9. g = [s \in Upto(k) |-> IF s = {} THEN 0 ELSE records[Of(s)][field] + g[s \ {Of(s)}]]
    BY <1>8
  <1> HIDE DEF g
  <1>10. Sums(g, records, field, S, k)
    BY <1>9 DEF Sums, Of
  <1> QED BY <1>1, <1>10

\* A sum of numbers is a number, and of naturals a natural.
LEMMA TotalIsNumber ==
  ASSUME NEW records, NEW field, IsFiniteSet(DOMAIN records),
         NEW N, N = Int \/ N = Nat, \A i \in DOMAIN records : records[i][field] \in N
  PROVE  Total(records, field) \in N
  <1> DEFINE S == DOMAIN records
             Of(s) == CHOOSE x \in s : TRUE
             P(it) == it = [s \in SUBSET S |->
                              IF s = {} THEN 0 ELSE records[Of(s)][field] + it[s \ {Of(s)}]]
             f == CHOOSE it : P(it)
  <1>1. Total(records, field) = f[S]
    BY DEF Total, MapThenSumSet, MapThenFoldSet
  <1>2. \A s \in SUBSET S : IsFiniteSet(s) /\ Cardinality(s) \in Nat /\ Cardinality(s) <= Cardinality(S)
                           /\ (Cardinality(s) = 0 <=> s = {})
    BY FS_Subset, FS_CardinalityType, FS_EmptySet
  <1>3. \E it : P(it)
    <2>1. PICK it : Sums(it, records, field, S, Cardinality(S))
      BY SumsExist, FS_CardinalityType
    <2>2. {t \in SUBSET S : Cardinality(t) <= Cardinality(S)} = SUBSET S
      BY <1>2
    <2>3. P(it)
      BY <2>1, <2>2 DEF Sums
    <2> HIDE DEF P
    <2> QED BY <2>3
  <1>4. P(f)
    <2> HIDE DEF P
    <2> QED BY <1>3
  <1> HIDE DEF f
  <1>5. \A s \in SUBSET S : s # {} =>
          /\ Of(s) \in s /\ s \ {Of(s)} \in SUBSET S
          /\ Cardinality(s \ {Of(s)}) = Cardinality(s) - 1
    <2> SUFFICES ASSUME NEW s \in SUBSET S, s # {}
                 PROVE  Of(s) \in s /\ Cardinality(s \ {Of(s)}) = Cardinality(s) - 1
      OBVIOUS
    <2>1. Of(s) \in s
      OBVIOUS
    <2> HIDE DEF Of, S
    <2> QED BY <1>2, <2>1, FS_RemoveElement
  <1>6. \A s \in SUBSET S : f[s] = IF s = {} THEN 0 ELSE records[Of(s)][field] + f[s \ {Of(s)}]
    BY <1>4
  <1> HIDE DEF Of, S
  <1>7. \A i \in S : records[i][field] \in N
    BY DEF S
  <1> DEFINE T == {k \in Nat : \E s \in SUBSET S : Cardinality(s) = k /\ f[s] \notin N}
  <1>8. T = {}
    <2> SUFFICES ASSUME T # {} PROVE FALSE
      OBVIOUS
    <2>1. PICK k \in T : \A y \in T : k <= y
      <3> T \subseteq Nat
        OBVIOUS
      <3> HIDE DEF T
      <3> QED BY LeastOf
    <2>2. PICK s \in SUBSET S : Cardinality(s) = k /\ f[s] \notin N
      BY <2>1
    <2>3. s # {}
      <3>1. 0 \in N
        OBVIOUS
      <3>2. ASSUME s = {} PROVE f[s] = 0
        BY <1>6, <3>2
      <3> HIDE DEF T
      <3> QED BY <2>2, <3>1, <3>2
    <2> DEFINE r == s \ {Of(s)}
    <2>4. Of(s) \in S /\ r \in SUBSET S /\ Cardinality(r) = k - 1 /\ Cardinality(r) \in Nat /\ k \in Nat
      BY <1>2, <1>5, <2>2, <2>3
    <2>5. f[s] = records[Of(s)][field] + f[r]
      BY <1>6, <2>3
    <2> HIDE DEF r
    <2>6. f[r] \in N
      BY <2>1, <2>4
    <2>7. records[Of(s)][field] \in N
      BY <1>7, <2>4
    <2> HIDE DEF T
    <2> DEFINE a == records[Of(s)][field]
               b == f[r]
    <2>8. a \in N /\ b \in N /\ f[s] = a + b
      BY <2>5, <2>6, <2>7
    <2> HIDE DEF a, b
    <2>9. a + b \in N
      BY <2>8
    <2> QED BY <2>2, <2>8, <2>9
  <1>9. S \in SUBSET S /\ Cardinality(S) \in Nat
    BY <1>2
  <1> QED BY <1>1, <1>8, <1>9 DEF S
-----------------------------------------------------------------------------
(* Scores *)
\* What from_rollouts makes of a group.
Score == [rate : Int, reward : Int, chars : Int, delivered : Nat]

\* A rollout's record, as far as a score reads it.
Recorded(r) == r.success \in Int /\ r.reward \in Int /\ r.chars \in Int /\ r.delivered \in Nat

\* The larger of two numbers is one of them and no smaller than either.
LEMMA MaxOf ==
  ASSUME NEW a \in Int, NEW b \in Int
  PROVE  /\ Max({a, b}) \in {a, b} /\ Max({a, b}) >= a /\ Max({a, b}) >= b
  <1>1. \E x \in {a, b} : \A y \in {a, b} : x >= y
    <2>1. CASE a <= b BY <2>1
    <2>2. CASE b <= a BY <2>2
    <2> QED BY <2>1, <2>2
  <1> QED BY <1>1 DEF Max

\* A group of records has a score, an empty one included.
LEMMA ScoreOfGroup ==
  ASSUME NEW records, NEW n \in Nat, DOMAIN records = 1 .. n, Len(records) = n,
         \A i \in 1 .. n : Recorded(records[i])
  PROVE  FromRollouts(records) \in Score /\ FromRollouts(records) # NoScore
  <1> DEFINE m == Max({Len(records), 1})
             u == Total(records, "success")
             w == Total(records, "reward")
             c == Total(records, "chars")
             d == Total(records, "delivered")
  <1>1. IsFiniteSet(DOMAIN records)
    BY FS_Interval
  <1>2. /\ \A i \in DOMAIN records : records[i]["success"] \in Int
        /\ \A i \in DOMAIN records : records[i]["reward"] \in Int
        /\ \A i \in DOMAIN records : records[i]["chars"] \in Int
        /\ \A i \in DOMAIN records : records[i]["delivered"] \in Nat
    BY DEF Recorded
  <1>3. u \in Int /\ w \in Int /\ c \in Int /\ d \in Nat
    BY <1>1, <1>2, TotalIsNumber
  <1>4. m \in Int /\ m > 0
    <2> DEFINE l == Len(records)
    <2>1. l \in Int /\ 1 \in Int
      OBVIOUS
    <2> HIDE DEF l
    <2>2. Max({l, 1}) \in {l, 1} /\ Max({l, 1}) >= 1
      BY <2>1, MaxOf
    <2> QED BY <2>1, <2>2 DEF l
  <1>5. FromRollouts(records) = [rate |-> (Scale * u) \div m, reward |-> (Scale * w) \div m,
                                 chars |-> c, delivered |-> d]
    BY DEF FromRollouts
  <1> HIDE DEF m, u, w, c, d
  <1>6. Scale * u \in Int /\ Scale * w \in Int
    BY <1>3 DEF Scale
  <1>7. (Scale * u) \div m \in Int /\ (Scale * w) \div m \in Int
    BY <1>4, <1>6
  <1>8. FromRollouts(records) \in Score
    BY <1>3, <1>5, <1>7 DEF Score
  <1>9. FromRollouts(records) # NoScore
    BY <1>5 DEF NoScore
  <1> QED BY <1>8, <1>9

\* mapo_score_better is a strict weak order on scores.
LEMMA BetterOrders ==
  ASSUME NEW a \in Score, NEW b \in Score, NEW c \in Score
  PROVE  /\ ~Better(a, a)
         /\ Better(a, b) => ~Better(b, a)
         /\ Better(a, b) /\ Better(b, c) => Better(a, c)
         /\ ~Better(a, b) /\ ~Better(b, c) => ~Better(a, c)
  BY DEF Better, Score

-----------------------------------------------------------------------------
(* A stable sort *)
\* before orders the places strictly and totally.
Orders(before, places) ==
    /\ \A i \in places : <<i, i>> \notin before
    /\ \A i, j \in places : i # j => <<i, j>> \in before \/ <<j, i>> \in before
    /\ \A i, j, k \in places : <<i, j>> \in before /\ <<j, k>> \in before => <<i, k>> \in before

\* Each place of the sorted list holds the place of the list with as many before it.
LEMMA ArrangedHolds ==
  ASSUME NEW places, IsFiniteSet(places), NEW before, Orders(before, places),
         NEW k \in 1 .. Cardinality(places)
  PROVE  /\ Arranged(places, before)[k] \in places
         /\ Cardinality({j \in places : <<j, Arranged(places, before)[k]>> \in before}) = k - 1
  <1> DEFINE n == Cardinality(places)
             Pred(i) == {j \in places : <<j, i>> \in before}
             rank == [i \in places |-> Cardinality(Pred(i))]
  <1>1. n \in Nat
    BY FS_CardinalityType
  <1>2. \A i \in places : IsFiniteSet(Pred(i)) /\ Cardinality(Pred(i)) \in Nat
    <2>1. \A i \in places : Pred(i) \subseteq places
      OBVIOUS
    <2> HIDE DEF Pred
    <2> QED BY <2>1, FS_Subset, FS_CardinalityType
  <1>3. ASSUME NEW i \in places, NEW j \in places, <<i, j>> \in before
        PROVE  Cardinality(Pred(i)) < Cardinality(Pred(j))
    <2>1. Pred(i) \subseteq Pred(j) /\ i \in Pred(j) /\ i \notin Pred(i)
      BY <1>3 DEF Orders
    <2>2. Pred(i) # Pred(j)
      BY <2>1
    <2> HIDE DEF Pred
    <2>3. Cardinality(Pred(i)) <= Cardinality(Pred(j))
          /\ (Cardinality(Pred(i)) = Cardinality(Pred(j)) => Pred(i) = Pred(j))
      BY <1>2, <2>1, FS_Subset
    <2> QED BY <1>2, <2>2, <2>3
  <1>4. ASSUME NEW i \in places PROVE Cardinality(Pred(i)) \in 0 .. n - 1
    <2>1. Pred(i) \subseteq places /\ i \notin Pred(i)
      BY DEF Orders
    <2> HIDE DEF Pred
    <2>2. Cardinality(Pred(i)) <= n /\ (Cardinality(Pred(i)) = n => Pred(i) = places)
      BY <2>1, FS_Subset
    <2>3. Cardinality(Pred(i)) # n
      BY <2>1, <2>2
    <2> QED BY <1>1, <1>2, <2>2, <2>3
  <1>5. \A i, j \in places : rank[i] = rank[j] => i = j
    <2> SUFFICES ASSUME NEW i \in places, NEW j \in places, rank[i] = rank[j], i # j PROVE FALSE
      OBVIOUS
    <2>1. <<i, j>> \in before \/ <<j, i>> \in before
      BY DEF Orders
    <2>2. rank[i] = Cardinality(Pred(i)) /\ rank[j] = Cardinality(Pred(j))
      OBVIOUS
    <2> DEFINE a == Cardinality(Pred(i))
               b == Cardinality(Pred(j))
    <2>3. a < b \/ b < a
      BY <1>3, <2>1
    <2>4. a \in Nat /\ b \in Nat /\ a = b
      BY <1>2, <2>2
    <2> HIDE DEF a, b
    <2> QED BY <2>3, <2>4
  <1>6. rank \in [places -> 0 .. n - 1]
    BY <1>4
  <1> DEFINE R == {rank[i] : i \in places}
  <1>7. rank \in Bijection(places, R)
    <2> HIDE DEF Pred, rank
    <2> QED BY <1>5, <1>6 DEF Bijection, Injection, Surjection, IsInjective
  <1>8. Cardinality(R) = n /\ IsFiniteSet(R)
    <2> HIDE DEF R, rank
    <2>1. ExistsBijection(places, R)
      BY <1>7 DEF ExistsBijection
    <2> QED BY <2>1, FS_Bijection
  <1>9. R = 0 .. n - 1
    <2>1. R \subseteq 0 .. n - 1
      <3> HIDE DEF Pred, rank
      <3> QED BY <1>6
    <2> HIDE DEF R, n
    <2>2. IsFiniteSet(0 .. n - 1) /\ Cardinality(0 .. n - 1) = n
      BY <1>1, FS_Interval
    <2> QED BY <1>8, <2>1, <2>2, FS_Subset
  <1>10. k - 1 \in 0 .. n - 1
    BY <1>1
  <1>11. PICK i \in places : rank[i] = k - 1
    <2>1. k - 1 \in R
      BY <1>9, <1>10
    <2> HIDE DEF rank
    <2> QED BY <2>1
  <1>12. Cardinality(Pred(i)) = k - 1
    BY <1>11
  <1>13. Arranged(places, before)[k] = CHOOSE x \in places : Cardinality(Pred(x)) = k - 1
    BY DEF Arranged
  <1> DEFINE x == CHOOSE x \in places : Cardinality(Pred(x)) = k - 1
  <1>14. x \in places /\ Cardinality(Pred(x)) = k - 1
    <2> HIDE DEF Pred
    <2> QED BY <1>12
  <1> QED BY <1>13, <1>14

\* What nothing comes before is first, and only that.
LEMMA ArrangedFirst ==
  ASSUME NEW places, IsFiniteSet(places), NEW before, Orders(before, places),
         1 \in 1 .. Cardinality(places), NEW j \in places
  PROVE  <<j, Arranged(places, before)[1]>> \notin before
  <1> DEFINE x == Arranged(places, before)[1]
             P == {i \in places : <<i, x>> \in before}
  <1>1. Cardinality(P) = 1 - 1
    BY ArrangedHolds
  <1>2. P \subseteq places
    OBVIOUS
  <1> HIDE DEF x
  <1>3. j \in P <=> <<j, x>> \in before
    OBVIOUS
  <1> HIDE DEF P
  <1>4. P = {}
    BY <1>1, <1>2, FS_Subset, FS_EmptySet
  <1> QED BY <1>3, <1>4 DEF x
\* A strict weak order on the places, its ties broken by the place, is total.
LEMMA StableOrders ==
  ASSUME NEW P, P \subseteq Nat, NEW L, NEW before,
         \A i \in P : <<i, i>> \notin L,
         \A i, j \in P : <<i, j>> \in L => <<j, i>> \notin L,
         \A i, j, k \in P : <<i, j>> \in L /\ <<j, k>> \in L => <<i, k>> \in L,
         \A i, j, k \in P : <<i, j>> \notin L /\ <<j, k>> \notin L => <<i, k>> \notin L,
         \A i, j \in P : <<i, j>> \in before <=> <<i, j>> \in L \/ (<<j, i>> \notin L /\ i < j)
  PROVE  Orders(before, P)
  <1>1. ASSUME NEW i \in P PROVE <<i, i>> \notin before
    OBVIOUS
  <1>2. ASSUME NEW i \in P, NEW j \in P, i # j
        PROVE  <<i, j>> \in before \/ <<j, i>> \in before
    BY <1>2
  <1>3. ASSUME NEW i \in P, NEW j \in P, NEW k \in P, <<i, j>> \in before, <<j, k>> \in before
        PROVE  <<i, k>> \in before
    <2>1. i \in Nat /\ j \in Nat /\ k \in Nat
      OBVIOUS
    <2>2. <<i, j>> \in L \/ (<<j, i>> \notin L /\ i < j)
      BY <1>3
    <2>3. <<j, k>> \in L \/ (<<k, j>> \notin L /\ j < k)
      BY <1>3
    <2>4. CASE <<i, j>> \in L /\ <<j, k>> \in L
      BY <2>4
    <2>5. CASE <<i, j>> \in L /\ <<j, k>> \notin L
      BY <2>3, <2>5
    <2>6. CASE <<i, j>> \notin L /\ <<j, k>> \in L
      BY <2>2, <2>6
    <2>7. CASE <<i, j>> \notin L /\ <<j, k>> \notin L
      <3>1. <<j, i>> \notin L /\ <<k, j>> \notin L /\ i < j /\ j < k
        BY <2>2, <2>3, <2>7
      <3>2. <<k, i>> \notin L /\ i < k
        BY <2>1, <3>1
      <3> QED BY <3>2
    <2> QED BY <2>4, <2>5, <2>6, <2>7
  <1> QED BY <1>1, <1>2, <1>3 DEF Orders

\* A checkpoint a discovery rollout may return.
Checkpoint == [cp : Nat, at : Nat, reward : Int, delivered : Nat, chars : Nat]

\* checkpoint_order is a strict weak order.
LEMMA CheckpointsOrdered ==
  ASSUME NEW a \in Checkpoint, NEW b \in Checkpoint, NEW c \in Checkpoint, NEW s
  PROVE  /\ ~CheckpointBefore(a, a, s)
         /\ CheckpointBefore(a, b, s) => ~CheckpointBefore(b, a, s)
         /\ CheckpointBefore(a, b, s) /\ CheckpointBefore(b, c, s) => CheckpointBefore(a, c, s)
         /\ ~CheckpointBefore(a, b, s) /\ ~CheckpointBefore(b, c, s) => ~CheckpointBefore(a, c, s)
  <1> DEFINE Lex(x1, x2, x3, y1, y2, y3) == x1 > y1 \/ (x1 = y1 /\ x2 > y2) \/ (x1 = y1 /\ x2 = y2 /\ x3 < y3)
  <1>1. CASE s = "early"
    BY <1>1 DEF CheckpointBefore, Checkpoint
  <1>2. CASE s = "late"
    BY <1>2 DEF CheckpointBefore, Checkpoint
  <1>3. CASE s \notin {"early", "late"}
    BY <1>3 DEF CheckpointBefore, Checkpoint
  <1> QED BY <1>1, <1>2, <1>3

\* What a score reads of a checkpoint.
Measured(x) == x.reward \in Int /\ x.delivered \in Nat /\ x.chars \in Nat

\* The checkpoints that are kept are among those the rollout returned.
LEMMA ExtractMeasures ==
  ASSUME NEW c \in Config, NEW case, NEW schedule \in Schedules,
         NEW j \in DOMAIN Extract(c, case, schedule)
  PROVE  Measured(Extract(c, case, schedule)[j])
  <1> DEFINE late == {i \in DOMAIN schedule : schedule[i].at >= c.minStep}
             before == Stable(schedule, LAMBDA a, b : CheckpointBefore(a, b, c.strategy))
             sorted == Arranged(late, before)
             n == Min({c.keep, Cardinality(late)})
             L == {p \in late \X late : CheckpointBefore(schedule[p[1]], schedule[p[2]], c.strategy)}
  <1>1. DOMAIN schedule = 1 .. Len(schedule) /\ Len(schedule) \in Nat
        /\ \A i \in DOMAIN schedule : schedule[i] \in Checkpoint
    <2>1. schedule \in Seq(Checkpoint)
      BY MapoAssumption DEF Checkpoint
    <2> QED BY <2>1
  <1>2. late \subseteq DOMAIN schedule /\ late \subseteq Nat
    BY <1>1
  <1>3. IsFiniteSet(late) /\ Cardinality(late) \in Nat
    <2>1. IsFiniteSet(1 .. Len(schedule)) /\ late \subseteq 1 .. Len(schedule)
      BY <1>1, <1>2, FS_Interval
    <2> HIDE DEF late
    <2> QED BY <2>1, FS_Subset, FS_CardinalityType
  <1>4. /\ DOMAIN Extract(c, case, schedule) = 1 .. n
        /\ Extract(c, case, schedule)[j].reward = schedule[sorted[j]].reward
        /\ Extract(c, case, schedule)[j].delivered = schedule[sorted[j]].delivered
        /\ Extract(c, case, schedule)[j].chars = schedule[sorted[j]].chars
    BY DEF Extract
  <1>5. \A i, k \in late : <<i, k>> \in before <=>
          CheckpointBefore(schedule[i], schedule[k], c.strategy)
          \/ (~CheckpointBefore(schedule[k], schedule[i], c.strategy) /\ i < k)
    BY <1>2 DEF Stable
  <1>6. \A i, k \in late : <<i, k>> \in L <=> CheckpointBefore(schedule[i], schedule[k], c.strategy)
    OBVIOUS
  <1> HIDE DEF before, L, sorted, n
  <1>7. Orders(before, late)
    <2> DEFINE B(i, k) == CheckpointBefore(schedule[i], schedule[k], c.strategy)
    <2>1. \A i \in late : schedule[i] \in Checkpoint
      BY <1>1, <1>2
    <2> HIDE DEF late
    <2>2. /\ \A i \in late : ~B(i, i)
          /\ \A i, k \in late : B(i, k) => ~B(k, i)
          /\ \A i, k, m \in late : B(i, k) /\ B(k, m) => B(i, m)
          /\ \A i, k, m \in late : ~B(i, k) /\ ~B(k, m) => ~B(i, m)
      BY <2>1, CheckpointsOrdered
    <2>3. \A i, k \in late : (<<i, k>> \in L <=> B(i, k))
             /\ (<<i, k>> \in before <=> B(i, k) \/ (~B(k, i) /\ i < k))
      BY <1>5, <1>6
    <2> HIDE DEF B
    <2>4. /\ \A i \in late : <<i, i>> \notin L
          /\ \A i, k \in late : <<i, k>> \in L => <<k, i>> \notin L
          /\ \A i, k \in late : <<i, k>> \in before <=> <<i, k>> \in L \/ (<<k, i>> \notin L /\ i < k)
      BY <2>2, <2>3
    <2>5. \A i, k, m \in late : <<i, k>> \in L /\ <<k, m>> \in L => <<i, m>> \in L
      BY <2>2, <2>3
    <2>6. \A i, k, m \in late : <<i, k>> \notin L /\ <<k, m>> \notin L => <<i, m>> \notin L
      BY <2>2, <2>3
    <2> QED BY <1>2, <2>4, <2>5, <2>6, StableOrders
  <1>8. n \in Nat /\ n <= Cardinality(late)
    <2> HIDE DEF late
    <2> DEFINE k == Cardinality(late)
               h == c.keep
    <2>1. k \in Int /\ h \in Int /\ k \in Nat /\ h \in Nat
      BY <1>3 DEF Config
    <2> HIDE DEF k, h
    <2>2. Min({h, k}) \in {h, k} /\ Min({h, k}) <= k
      BY <2>1, MinOf
    <2>3. n = Min({h, k})
      BY DEF h, k, n
    <2> QED BY <2>1, <2>2, <2>3 DEF k
  <1>9. j \in 1 .. Cardinality(late)
    BY <1>3, <1>4, <1>8
  <1> HIDE DEF late
  <1>10. sorted[j] \in late
    BY <1>3, <1>7, <1>9, ArrangedHolds DEF sorted
  <1>11. schedule[sorted[j]] \in Checkpoint
    BY <1>1, <1>2, <1>10
  <1> QED BY <1>4, <1>11 DEF Measured, Checkpoint

\* So are those all discovery rollouts of a generation leave.
LEMMA DiscoveredMeasures ==
  ASSUME PlaceInv, Discover, pc' # "failing", NEW i \in DOMAIN cps'
  PROVE  Measured(cps'[i])
  <1>1. PICK schedule \in Schedules :
          cps' = FlattenSeq([k \in DOMAIN NextGroup.cases |-> Extract(cfg, NextGroup.cases[k], schedule)])
    BY DEF Discover, Fail
  <1>2. PICK n : CaseList(NextGroup.cases, n)
    BY GroupList DEF Discover
  <1> DEFINE cs == NextGroup.cases
             found == [k \in DOMAIN cs |-> Extract(cfg, cs[k], schedule)]
             S == UNION {{found[k][j] : j \in DOMAIN found[k]} : k \in 1 .. n}
  <1>3. cfg \in Config /\ n \in Nat /\ DOMAIN cs = 1 .. n
    BY <1>2 DEF PlaceInv, CaseList
  <1> HIDE DEF cs
  <1>4. ASSUME NEW k \in 1 .. n
        PROVE  /\ found[k] \in Seq(S)
               /\ \A j \in DOMAIN found[k] : Measured(found[k][j])
    <2>1. found[k] = Extract(cfg, cs[k], schedule)
      BY <1>3
    <2>2. found[k] \in Seq({found[k][j] : j \in DOMAIN found[k]})
      BY <1>3, <2>1, ExtractIsSeq
    <2>3. \A j \in DOMAIN found[k] : Measured(found[k][j])
      BY <1>3, <2>1, ExtractMeasures
    <2>4. {found[k][j] : j \in DOMAIN found[k]} \subseteq S
      <3> HIDE DEF found
      <3> QED OBVIOUS
    <2> HIDE DEF found, S
    <2> QED BY <2>2, <2>3, <2>4, SeqMonotonic
  <1>5. found = [k \in 1 .. n |-> found[k]] /\ DOMAIN found = 1 .. n
    BY <1>3
  <1>6. \A x \in S : Measured(x)
    <2> SUFFICES ASSUME NEW x \in S PROVE Measured(x)
      OBVIOUS
    <2> HIDE DEF found
    <2>1. PICK k \in 1 .. n : x \in {found[k][j] : j \in DOMAIN found[k]}
      OBVIOUS
    <2>2. PICK j \in DOMAIN found[k] : x = found[k][j]
      BY <2>1
    <2> QED BY <1>4, <2>2
  <1>7. cps' = FlattenSeq(found)
    BY <1>1 DEF cs
  <1> HIDE DEF found, S
  <1>8. found \in [1 .. n -> Seq(S)]
    BY <1>4, <1>5
  <1>9. found \in Seq(Seq(S))
    BY <1>3, <1>8
  <1>10. cps' \in Seq(S)
    BY <1>7, <1>9, FlattenIsSeq
  <1> QED BY <1>6, <1>10
-----------------------------------------------------------------------------
(* Candidates and their rank *)
\* A candidate, evaluated or not.
Candidate == [id : Int, train : Score \cup {NoScore}, selection : Score \cup {NoScore}]

\* Which of two candidates of a generation top_train_candidates puts first.
TopLeads(a, b, id) == IF (a.id = id) = (b.id = id) THEN TrainBefore(a, b) ELSE a.id = id

\* It is a strict weak order on candidates with a train score.
LEMMA TopOrdered ==
  ASSUME NEW a \in Candidate, NEW b \in Candidate, NEW c \in Candidate, NEW id,
         a.train \in Score, b.train \in Score, c.train \in Score
  PROVE  /\ ~TopLeads(a, a, id)
         /\ TopLeads(a, b, id) => ~TopLeads(b, a, id)
         /\ TopLeads(a, b, id) /\ TopLeads(b, c, id) => TopLeads(a, c, id)
         /\ ~TopLeads(a, b, id) /\ ~TopLeads(b, c, id) => ~TopLeads(a, c, id)
  <1>1. a.id \in Int /\ b.id \in Int /\ c.id \in Int
    BY DEF Candidate
  <1>2. \A x, y, z \in {a, b, c} :
          /\ ~TrainBefore(x, x)
          /\ TrainBefore(x, y) => ~TrainBefore(y, x)
          /\ TrainBefore(x, y) /\ TrainBefore(y, z) => TrainBefore(x, z)
          /\ ~TrainBefore(x, y) /\ ~TrainBefore(y, z) => ~TrainBefore(x, z)
    <2> SUFFICES ASSUME NEW x \in {a, b, c}, NEW y \in {a, b, c}, NEW z \in {a, b, c}
                 PROVE  /\ ~TrainBefore(x, x)
                        /\ TrainBefore(x, y) => ~TrainBefore(y, x)
                        /\ TrainBefore(x, y) /\ TrainBefore(y, z) => TrainBefore(x, z)
                        /\ ~TrainBefore(x, y) /\ ~TrainBefore(y, z) => ~TrainBefore(x, z)
      OBVIOUS
    <2>1. x.id \in Int /\ y.id \in Int /\ z.id \in Int
      BY <1>1
    <2>2. x.train \in Score /\ y.train \in Score /\ z.train \in Score
      OBVIOUS
    <2>3. \A r, s, t \in {x.train, y.train, z.train} :
            /\ ~Better(r, r)
            /\ Better(r, s) => ~Better(s, r)
            /\ Better(r, s) /\ Better(s, t) => Better(r, t)
            /\ ~Better(r, s) /\ ~Better(s, t) => ~Better(r, t)
      BY <2>2, BetterOrders
    <2> QED BY <2>1, <2>3 DEF TrainBefore
  <1> QED BY <1>2 DEF TopLeads

\* top_train_candidates returns candidates of the generation, at least one, the champion first.
LEMMA TopTrainHolds ==
  ASSUME NEW cs \in Seq(Candidate), \A i \in 1 .. Len(cs) : cs[i].train \in Score,
         NEW id, NEW c \in 1 .. Len(cs), cs[c].id = id, NEW k \in Nat, k # 0
  PROVE  /\ TopTrain(cs, k, id) \in Seq(Candidate) /\ Len(TopTrain(cs, k, id)) \in Nat \ {0}
         /\ TopTrain(cs, k, id)[1].id = id
  <1> DEFINE n == Len(cs)
             P == DOMAIN cs
             before == Stable(cs, LAMBDA a, b : IF (a.id = id) = (b.id = id) THEN TrainBefore(a, b) ELSE a.id = id)
             L == {p \in P \X P : TopLeads(cs[p[1]], cs[p[2]], id)}
             B(i, j) == TopLeads(cs[i], cs[j], id)
             list == [m \in DOMAIN cs |-> cs[Arranged(DOMAIN cs, before)[m]]]
             q == Min({k, n})
  <1>1. n \in Nat /\ P = 1 .. n /\ n >= 1 /\ P \subseteq Nat
    OBVIOUS
  <1>2. IsFiniteSet(P) /\ Cardinality(P) = n
    <2>1. IsFiniteSet(1 .. n) /\ Cardinality(1 .. n) = n
      <3> HIDE DEF n
      <3>1. 1 \in Int /\ n \in Int /\ n - 1 + 1 = n /\ ~(1 > n)
        BY <1>1
      <3> QED BY <3>1, FS_Interval
    <2> QED BY <1>1, <2>1
  <1>3. TopTrain(cs, k, id) = SubSeq(list, 1, q)
    BY DEF TopTrain, Top
  <1>4. \A i, j \in P : <<i, j>> \in before <=> B(i, j) \/ (~B(j, i) /\ i < j)
    BY DEF Stable, TopLeads
  <1>5. \A i, j \in P : <<i, j>> \in L <=> B(i, j)
    OBVIOUS
  <1>6. /\ \A i \in P : ~B(i, i)
        /\ \A i, j \in P : B(i, j) => ~B(j, i)
        /\ \A i, j, m \in P : B(i, j) /\ B(j, m) => B(i, m)
        /\ \A i, j, m \in P : ~B(i, j) /\ ~B(j, m) => ~B(i, m)
    <2>1. \A i \in P : cs[i] \in Candidate /\ cs[i].train \in Score
      OBVIOUS
    <2> HIDE DEF P
    <2> QED BY <2>1, TopOrdered
  <1> HIDE DEF P, before, L, q
  <1>7. Orders(before, P)
    <2> HIDE DEF B
    <2>1. /\ \A i \in P : <<i, i>> \notin L
          /\ \A i, j \in P : <<i, j>> \in L => <<j, i>> \notin L
          /\ \A i, j \in P : <<i, j>> \in before <=> <<i, j>> \in L \/ (<<j, i>> \notin L /\ i < j)
      BY <1>4, <1>5, <1>6
    <2>2. \A i, j, m \in P : <<i, j>> \in L /\ <<j, m>> \in L => <<i, m>> \in L
      BY <1>5, <1>6
    <2>3. \A i, j, m \in P : <<i, j>> \notin L /\ <<j, m>> \notin L => <<i, m>> \notin L
      BY <1>5, <1>6
    <2>4. P \subseteq Nat
      BY <1>1
    <2> QED BY <2>1, <2>2, <2>3, <2>4, StableOrders
  <1>8. \A m \in 1 .. n : Arranged(P, before)[m] \in P
    BY <1>2, <1>7, ArrangedHolds
  <1>9. list \in [1 .. n -> Candidate] /\ list[1] = cs[Arranged(P, before)[1]]
    <2>1. list = [m \in 1 .. n |-> cs[Arranged(P, before)[m]]]
      BY DEF P
    <2>2. \A m \in 1 .. n : cs[Arranged(P, before)[m]] \in Candidate
      BY <1>8 DEF P
    <2>3. 1 \in 1 .. n
      BY <1>1
    <2> HIDE DEF list, n
    <2> QED BY <2>1, <2>2, <2>3
  <1>10. list[1].id = id
    <2> DEFINE f == Arranged(P, before)[1]
    <2>1. f \in P /\ c \in P /\ 1 \in 1 .. Cardinality(P)
      BY <1>1, <1>2, <1>8
    <2>2. <<c, f>> \notin before
      BY <1>2, <1>7, <2>1, ArrangedFirst
    <2> HIDE DEF f
    <2>3. ~B(c, f)
      <3> HIDE DEF B
      <3> QED BY <1>4, <2>1, <2>2
    <2>4. cs[f].id = id
      BY <2>3 DEF TopLeads
    <2> QED BY <1>9, <2>4 DEF f
  <1>11. q \in 1 .. n
    <2> HIDE DEF n
    <2>1. k \in Int /\ n \in Int /\ k >= 1 /\ n >= 1
      BY <1>1
    <2>2. Min({k, n}) \in {k, n} /\ Min({k, n}) <= n
      BY <2>1, MinOf
    <2> QED BY <2>1, <2>2 DEF q
  <1> HIDE DEF list, n
  <1>12. SubSeq(list, 1, q) \in Seq(Candidate) /\ Len(SubSeq(list, 1, q)) = q /\ SubSeq(list, 1, q)[1] = list[1]
    BY <1>1, <1>9, <1>11, SubSeqProperties
  <1>13. q \in Nat \ {0}
    BY <1>1, <1>11
  <1> QED BY <1>3, <1>10, <1>12, <1>13
-----------------------------------------------------------------------------
(* The champion *)
\* The champion, or another evaluation of it, is on the list.
Here(s) == \E i \in 1 .. Len(s) : s[i].id = champ.id

\* Everybody on record is a candidate, with scores or without.
CandidatesOK ==
    /\ champ \in Candidate /\ best \in Candidate
    /\ todo \in Seq(Candidate) /\ fresh \in Seq(Candidate) /\ reg \in Seq(Candidate)
    /\ \A i \in DOMAIN cps : Measured(cps[i])

\* The best of a selection so far leads those who met the message floor.
BestLeads ==
    /\ best = NoCandidate => \A i \in 1 .. Len(fresh) : ~Eligible(fresh[i].selection)
    /\ best # NoCandidate =>
         /\ best.selection # NoScore /\ Eligible(best.selection)
         /\ \A i \in 1 .. Len(fresh) :
              Eligible(fresh[i].selection) => ~Better(fresh[i].selection, best.selection)

\* Without a selection split the champion leads whoever was evaluated.
TrainLed ==
    ~HasSelection(cfg) =>
      \A i \in 1 .. Len(reg) : reg[i].train # NoScore =>
        champ.train # NoScore /\ ~Better(reg[i].train, champ.train)

PlaceOfChampion ==
    /\ pc \in {"discover", "rank", "select"} => HasSelection(cfg)
    /\ pc \in {"train", "discover", "rank"} => \A i \in 1 .. Len(fresh) : fresh[i].train # NoScore
    /\ pc \in {"train", "select"} => Here(fresh) \/ Here(todo)
    /\ pc \in {"discover", "rank"} => Here(fresh)
    /\ pc = "select" => BestLeads /\ \A i \in 1 .. Len(fresh) : fresh[i].selection # NoScore
    /\ pc = "end" => ChampionLeads

ChampionInv == CandidatesOK /\ TrainLed /\ PlaceOfChampion
\* A group is scored when every case branches from nothing, or from a measured checkpoint.
LEMMA RecordsScored ==
  ASSUME NEW cs, NEW n, CaseList(cs, n), NEW cks,
         \A i \in 1 .. n : cs[i].from = 0 \/ Measured(cks[cs[i].from]),
         NEW p \in Seq(Summary) \ {<<>>}
  PROVE  FromRollouts(Records(cs, p, cks)) \in Score /\ FromRollouts(Records(cs, p, cks)) # NoScore
  <1> DEFINE r == Records(cs, p, cks)
             at(i) == ((i - 1) % Len(p)) + 1
  <1>1. n \in Nat /\ DOMAIN cs = 1 .. n
    BY DEF CaseList
  <1>2. DOMAIN r = 1 .. n /\ Len(r) = n /\ \A i \in 1 .. n : r[i] = Record(cs[i], p[at(i)], cks)
    BY <1>1 DEF Records
  <1>3. ASSUME NEW i \in 1 .. n PROVE Recorded(r[i])
    <2> DEFINE s == p[at(i)]
               c == cs[i]
    <2>1. s \in Summary
      <3> DEFINE l == Len(p)
      <3>1. l \in Nat /\ l # 0 /\ i - 1 \in Int /\ p \in [1 .. l -> Summary]
        BY <1>1
      <3> HIDE DEF l
      <3>2. (i - 1) % l \in 0 .. l - 1
        BY <3>1
      <3>3. ((i - 1) % l) + 1 \in 1 .. l
        BY <3>1, <3>2
      <3>4. p[((i - 1) % l) + 1] \in Summary
        BY <3>1, <3>3
      <3> QED BY <3>4 DEF l
    <2>2. r[i] = Record(c, s, cks)
      BY <1>2
    <2>3. c.from = 0 \/ Measured(cks[c.from])
      OBVIOUS
    <2> HIDE DEF s, c, r
    <2>4. s.success \in Int /\ s.reward \in Int /\ s.delivered \in Nat /\ s.chars \in Int
      BY <2>1 DEF Summary
    <2>5. r[i].success = s.success
      BY <2>2 DEF Record
    <2>6. CASE c.from = 0
      BY <2>2, <2>4, <2>5, <2>6 DEF Record, Recorded
    <2>7. CASE c.from # 0
      <3> DEFINE k == cks[c.from]
      <3>1. k.reward \in Int /\ k.delivered \in Nat /\ k.chars \in Nat
        BY <2>3, <2>7 DEF Measured
      <3>2. r[i].reward = s.reward - k.reward /\ r[i].delivered = Minus(s.delivered, k.delivered)
            /\ r[i].chars = Minus(s.chars, k.chars)
        BY <2>2, <2>7 DEF Record
      <3> HIDE DEF k
      <3> QED BY <2>4, <2>5, <3>1, <3>2 DEF Recorded, Minus
    <2> QED BY <2>6, <2>7
  <1> HIDE DEF r, at
  <1> QED BY <1>1, <1>2, <1>3, ScoreOfGroup DEF r

\* Only a branch begins at a checkpoint.
LEMMA CasesFromNothing ==
  ASSUME NEW list, NEW reps
  PROVE  /\ \A i \in DOMAIN SeedCases(list, reps) : SeedCases(list, reps)[i].from = 0
         /\ \A i \in DOMAIN TaskCases(list, reps) : TaskCases(list, reps)[i].from = 0
  <1>1. ASSUME NEW i \in DOMAIN SeedCases(list, reps) PROVE SeedCases(list, reps)[i].from = 0
    BY DEF SeedCases
  <1>2. ASSUME NEW i \in DOMAIN TaskCases(list, reps) PROVE TaskCases(list, reps)[i].from = 0
    BY DEF TaskCases
  <1> QED BY <1>1, <1>2

\* The group that is due is scored.
LEMMA GroupScored ==
  ASSUME PlaceInv, CandidatesOK, GroupDue, NEW p \in cfg.answers, pc \in {"train", "select"},
         NEW cks, pc = "select" => cks = cps
  PROVE  /\ FromRollouts(Records(NextGroup.cases, p, cks)) \in Score
         /\ FromRollouts(Records(NextGroup.cases, p, cks)) # NoScore
  <1>1. PICK n : CaseList(NextGroup.cases, n)
    BY GroupList
  <1>2. p \in Seq(Summary) \ {<<>>}
    BY DEF PlaceInv, Config
  <1>3. DOMAIN NextGroup.cases = 1 .. n
    BY <1>1 DEF CaseList
  <1>4. ASSUME NEW i \in 1 .. n
        PROVE  NextGroup.cases[i].from = 0 \/ Measured(cks[NextGroup.cases[i].from])
    <2>1. ASSUME NEW l, NEW r, NextGroup.cases = SeedCases(l, r) PROVE NextGroup.cases[i].from = 0
      <3>1. i \in DOMAIN SeedCases(l, r)
        BY <1>3, <2>1
      <3>2. SeedCases(l, r)[i].from = 0
        BY <3>1, CasesFromNothing
      <3> QED BY <2>1, <3>2
    <2>2. ASSUME NEW l, NEW r, NextGroup.cases = TaskCases(l, r) PROVE NextGroup.cases[i].from = 0
      <3>1. i \in DOMAIN TaskCases(l, r)
        BY <1>3, <2>2
      <3>2. TaskCases(l, r)[i].from = 0
        BY <3>1, CasesFromNothing
      <3> QED BY <2>2, <3>2
    <2>3. CASE pc = "select" /\ NextGroup.cases = BranchCases(cps)
      BY <1>3, <2>3 DEF BranchCases, CandidatesOK
    <2>4. \/ NextGroup.cases = SeedCases(cfg.train, cfg.trainReps)
          \/ pc = "select" /\ NextGroup.cases \in {BranchCases(cps), SeedCases(cfg.selSeeds, cfg.selReps),
                                                   TaskCases(cfg.selTasks, cfg.selReps)}
      BY GroupParts DEF SelectionCases
    <2> QED BY <2>1, <2>2, <2>3, <2>4
  <1> QED BY <1>1, <1>2, <1>4, RecordsScored

\* The next candidate of the loop, evaluated, joins the lists.
LEMMA EvaluatedJoins ==
  ASSUME todo \in Seq(Candidate), fresh \in Seq(Candidate), reg \in Seq(Candidate), todo # <<>>,
         NEW e \in Candidate, e.id = Head(todo).id,
         todo' = Tail(todo), fresh' = Append(fresh, e), reg' = Append(reg, e)
  PROVE  /\ todo' \in Seq(Candidate) /\ fresh' \in Seq(Candidate) /\ reg' \in Seq(Candidate)
         /\ Len(fresh') = Len(fresh) + 1 /\ Len(fresh) \in Nat
         /\ Len(reg') = Len(reg) + 1 /\ Len(reg) \in Nat
         /\ fresh'[Len(fresh) + 1] = e /\ \A i \in 1 .. Len(fresh) : fresh'[i] = fresh[i]
         /\ reg'[Len(reg) + 1] = e /\ \A i \in 1 .. Len(reg) : reg'[i] = reg[i]
         /\ \A x : (\E i \in 1 .. Len(fresh) : fresh[i].id = x) \/ (\E i \in 1 .. Len(todo) : todo[i].id = x)
              => \/ \E i \in 1 .. Len(fresh') : fresh'[i].id = x
                 \/ \E i \in 1 .. Len(todo') : todo'[i].id = x
  <1>1. /\ todo' \in Seq(Candidate) /\ Len(todo') = Len(todo) - 1 /\ Len(todo) \in Nat
        /\ \A i \in 1 .. Len(todo') : todo'[i] = todo[i + 1]
        /\ Head(todo) = todo[1]
    OBVIOUS
  <1>2. fresh' \in Seq(Candidate) /\ Len(fresh') = Len(fresh) + 1 /\ Len(fresh) \in Nat
        /\ fresh'[Len(fresh) + 1] = e /\ \A i \in 1 .. Len(fresh) : fresh'[i] = fresh[i]
    OBVIOUS
  <1>3. reg' \in Seq(Candidate) /\ Len(reg') = Len(reg) + 1 /\ Len(reg) \in Nat
        /\ reg'[Len(reg) + 1] = e /\ \A i \in 1 .. Len(reg) : reg'[i] = reg[i]
    OBVIOUS
  <1>4. ASSUME NEW x, NEW i \in 1 .. Len(fresh), fresh[i].id = x
        PROVE  \E j \in 1 .. Len(fresh') : fresh'[j].id = x
    BY <1>2, <1>4
  <1>5. ASSUME NEW x, NEW i \in 1 .. Len(todo), todo[i].id = x
        PROVE  \/ \E j \in 1 .. Len(fresh') : fresh'[j].id = x
               \/ \E j \in 1 .. Len(todo') : todo'[j].id = x
    <2>1. CASE i = 1
      BY <1>1, <1>2, <1>5, <2>1
    <2>2. CASE i # 1
      <3>1. i - 1 \in 1 .. Len(todo') /\ (i - 1) + 1 = i
        BY <1>1, <2>2
      <3>2. todo'[i - 1].id = x
        BY <1>1, <1>5, <3>1
      <3> QED BY <3>1, <3>2
    <2> QED BY <2>1, <2>2
  <1> QED BY <1>1, <1>2, <1>3, <1>4, <1>5
\* A score given to a candidate.
LEMMA ScoreGiven ==
  ASSUME NEW h \in Candidate, NEW s \in Score, s # NoScore
  PROVE  /\ [h EXCEPT !.train = s] \in Candidate /\ [h EXCEPT !.train = s].id = h.id
         /\ [h EXCEPT !.train = s].train = s
         /\ [h EXCEPT !.selection = s] \in Candidate /\ [h EXCEPT !.selection = s].id = h.id
         /\ [h EXCEPT !.selection = s].selection = s
         /\ [h EXCEPT !.selection = s] # NoCandidate
  BY DEF Candidate, NoCandidate

\* A train evaluation: the champion stays ahead of the registry and on the lists.
LEMMA TrainLeadStep ==
  ASSUME PlaceInv, ChampionInv, TrainEvaluated
  PROVE  ChampionInv'
  <1>0. CandidatesOK /\ TrainLed /\ PlaceOfChampion /\ pc = "train" /\ GroupDue /\ todo # <<>>
    BY DEF ChampionInv, TrainEvaluated
  <1>1. PICK p, score :
          LET e == [Head(todo) EXCEPT !.train = score]
          IN  /\ p \in cfg.answers /\ score = FromRollouts(Records(NextGroup.cases, p, <<>>))
              /\ champ' = IF champ.train = NoScore \/ Better(score, champ.train) THEN e ELSE champ
              /\ fresh' = Append(fresh, e) /\ reg' = Append(reg, e)
    BY DEF TrainEvaluated
  <1>2. todo' = Tail(todo) /\ UNCHANGED <<cfg, pc, best, cps>>
    BY DEF TrainEvaluated
  <1> DEFINE h == Head(todo)
             e == [h EXCEPT !.train = score]
  <1>3. score \in Score /\ score # NoScore
    BY <1>0, <1>1, GroupScored
  <1>4. /\ champ \in Candidate /\ best \in Candidate
        /\ todo \in Seq(Candidate) /\ fresh \in Seq(Candidate) /\ reg \in Seq(Candidate)
    BY <1>0 DEF CandidatesOK
  <1>5. h \in Candidate
    BY <1>0, <1>4
  <1>6. champ' = (IF champ.train = NoScore \/ Better(score, champ.train) THEN e ELSE champ)
        /\ fresh' = Append(fresh, e) /\ reg' = Append(reg, e)
    BY <1>1
  <1> HIDE DEF h
  <1>7. e \in Candidate /\ e.id = h.id /\ e.train = score
    BY <1>3, <1>5, ScoreGiven
  <1> HIDE DEF e
  <1>8. /\ todo' \in Seq(Candidate) /\ fresh' \in Seq(Candidate) /\ reg' \in Seq(Candidate)
        /\ Len(fresh') = Len(fresh) + 1 /\ Len(fresh) \in Nat
        /\ Len(reg') = Len(reg) + 1 /\ Len(reg) \in Nat
        /\ fresh'[Len(fresh) + 1] = e /\ \A i \in 1 .. Len(fresh) : fresh'[i] = fresh[i]
        /\ reg'[Len(reg) + 1] = e /\ \A i \in 1 .. Len(reg) : reg'[i] = reg[i]
        /\ \A x : (\E i \in 1 .. Len(fresh) : fresh[i].id = x) \/ (\E i \in 1 .. Len(todo) : todo[i].id = x)
             => (\E i \in 1 .. Len(fresh') : fresh'[i].id = x) \/ (\E i \in 1 .. Len(todo') : todo'[i].id = x)
    BY <1>7, <1>2, <1>6, <1>0, <1>4, EvaluatedJoins DEF h
  <1>9. CandidatesOK'
    BY <1>0, <1>2, <1>4, <1>6, <1>7, <1>8 DEF CandidatesOK
  <1>10. Here(fresh)' \/ Here(todo)'
    <2>1. CASE champ' = e
      BY <1>8, <2>1 DEF Here
    <2>2. CASE champ' = champ
      BY <1>0, <1>8, <2>2 DEF PlaceOfChampion, Here
    <2> QED BY <1>6, <2>1, <2>2
  <1>11. \A i \in 1 .. Len(fresh') : fresh'[i].train # NoScore
    <2> SUFFICES ASSUME NEW i \in 1 .. Len(fresh') PROVE fresh'[i].train # NoScore
      OBVIOUS
    <2>1. CASE i = Len(fresh) + 1
      BY <1>3, <1>7, <1>8, <2>1
    <2>2. CASE i # Len(fresh) + 1
      <3>1. i \in 1 .. Len(fresh)
        BY <1>8, <2>2
      <3> QED BY <1>0, <1>8, <3>1 DEF PlaceOfChampion
    <2> QED BY <2>1, <2>2
  <1>12. PlaceOfChampion'
    BY <1>0, <1>2, <1>10, <1>11 DEF PlaceOfChampion
  <1>13. TrainLed'
    <2> SUFFICES ASSUME ~HasSelection(cfg), NEW i \in 1 .. Len(reg'), reg'[i].train # NoScore
                 PROVE  champ'.train # NoScore /\ ~Better(reg'[i].train, champ'.train)
      BY <1>2 DEF TrainLed
    <2> DEFINE t == champ.train
               r == reg[i].train
    <2>1. champ.train \in Score \cup {NoScore}
      BY <1>4 DEF Candidate
    <2>2. CASE i = Len(reg) + 1
      <3>1. reg'[i].train = score
        BY <1>7, <1>8, <2>2
      <3>2. ~Better(score, score)
        BY <1>3, BetterOrders
      <3>3. CASE champ' = e
        BY <1>3, <1>7, <3>1, <3>2, <3>3
      <3>4. CASE champ' # e
        BY <1>6, <3>4, <3>1
      <3> QED BY <3>3, <3>4
    <2>3. CASE i # Len(reg) + 1
      <3>1. i \in 1 .. Len(reg) /\ reg'[i] = reg[i]
        BY <1>8, <2>3
      <3>2. r # NoScore /\ t # NoScore /\ ~Better(r, t)
        BY <1>0, <3>1 DEF TrainLed
      <3>3. r \in Score /\ t \in Score
        <4>1. reg[i] \in Candidate
          BY <1>4, <3>1
        <4>2. reg[i].train \in Score \cup {NoScore}
          BY <4>1 DEF Candidate
        <4> QED BY <2>1, <3>2, <4>2
      <3> HIDE DEF r, t
      <3>4. reg'[i].train = r
        BY <3>1 DEF r
      <3>5. CASE champ' = champ
        BY <3>2, <3>4, <3>5 DEF t
      <3>6. CASE champ' # champ
        BY <1>6, <3>2, <3>6, <1>3, <3>3, BetterOrders, <1>7, <3>4 DEF t
      <3> QED BY <3>5, <3>6
    <2> QED BY <2>2, <2>3
  <1> QED BY <1>9, <1>12, <1>13 DEF ChampionInv

\* A selection evaluation: the best so far leads those who met the message floor.
LEMMA SelectionLeadStep ==
  ASSUME PlaceInv, ChampionInv, SelectionEvaluated
  PROVE  ChampionInv'
  <1>0. CandidatesOK /\ TrainLed /\ PlaceOfChampion /\ pc = "select" /\ GroupDue /\ todo # <<>> /\ HasSelection(cfg)
    BY DEF ChampionInv, SelectionEvaluated, PlaceOfChampion
  <1>1. PICK p, score :
          LET e == [Head(todo) EXCEPT !.selection = score]
          IN  /\ p \in cfg.answers /\ score = FromRollouts(Records(NextGroup.cases, p, cps))
              /\ best' = IF Eligible(score) /\ (best = NoCandidate \/ Better(score, best.selection)) THEN e ELSE best
              /\ fresh' = Append(fresh, e) /\ reg' = Append(reg, e)
    BY DEF SelectionEvaluated
  <1>2. todo' = Tail(todo) /\ UNCHANGED <<cfg, pc, champ, cps>>
    BY DEF SelectionEvaluated
  <1> DEFINE h == Head(todo)
             e == [h EXCEPT !.selection = score]
  <1>3. score \in Score /\ score # NoScore
    BY <1>0, <1>1, GroupScored
  <1>4. /\ champ \in Candidate /\ best \in Candidate
        /\ todo \in Seq(Candidate) /\ fresh \in Seq(Candidate) /\ reg \in Seq(Candidate)
    BY <1>0 DEF CandidatesOK
  <1>5. h \in Candidate
    BY <1>0, <1>4
  <1>6. best' = (IF Eligible(score) /\ (best = NoCandidate \/ Better(score, best.selection)) THEN e ELSE best)
        /\ fresh' = Append(fresh, e) /\ reg' = Append(reg, e)
    BY <1>1
  <1> HIDE DEF h
  <1>7. e \in Candidate /\ e.id = h.id /\ e.selection = score /\ e # NoCandidate
    BY <1>3, <1>5, ScoreGiven
  <1> HIDE DEF e
  <1>8. /\ todo' \in Seq(Candidate) /\ fresh' \in Seq(Candidate) /\ reg' \in Seq(Candidate)
        /\ Len(fresh') = Len(fresh) + 1 /\ Len(fresh) \in Nat
        /\ fresh'[Len(fresh) + 1] = e /\ \A i \in 1 .. Len(fresh) : fresh'[i] = fresh[i]
        /\ \A x : (\E i \in 1 .. Len(fresh) : fresh[i].id = x) \/ (\E i \in 1 .. Len(todo) : todo[i].id = x)
             => (\E i \in 1 .. Len(fresh') : fresh'[i].id = x) \/ (\E i \in 1 .. Len(todo') : todo'[i].id = x)
    BY <1>7, <1>2, <1>6, <1>0, <1>4, EvaluatedJoins DEF h
  <1>9. CandidatesOK'
    BY <1>0, <1>2, <1>4, <1>6, <1>7, <1>8 DEF CandidatesOK
  <1>10. Here(fresh)' \/ Here(todo)'
    BY <1>0, <1>8, <1>2 DEF PlaceOfChampion, Here
  <1>11. ASSUME NEW i \in 1 .. Len(fresh')
         PROVE  \/ fresh'[i] = e
                \/ i \in 1 .. Len(fresh) /\ fresh'[i] = fresh[i]
    <2>1. CASE i = Len(fresh) + 1
      BY <1>8, <2>1
    <2>2. CASE i # Len(fresh) + 1
      BY <1>8, <2>2
    <2> QED BY <2>1, <2>2
  <1>12. \A i \in 1 .. Len(fresh') : fresh'[i].selection # NoScore
    BY <1>0, <1>3, <1>7, <1>11 DEF PlaceOfChampion
  <1>13. \A x : Eligible(x)' <=> Eligible(x)
    BY <1>2 DEF Eligible
  <1>14. BestLeads'
    <2> DEFINE F(i) == fresh[i].selection
               G(i) == fresh'[i].selection
               b == best.selection
    <2>0. BestLeads /\ \A i \in 1 .. Len(fresh) : F(i) # NoScore
      BY <1>0 DEF PlaceOfChampion
    <2>1. \A i \in 1 .. Len(fresh') : G(i) = score \/ (i \in 1 .. Len(fresh) /\ G(i) = F(i))
      BY <1>7, <1>11
    <2>2. \A i \in 1 .. Len(fresh) : F(i) \in Score
      <3> SUFFICES ASSUME NEW i \in 1 .. Len(fresh) PROVE F(i) \in Score
        OBVIOUS
      <3>1. fresh[i] \in Candidate
        BY <1>4
      <3>2. fresh[i].selection \in Score \cup {NoScore}
        BY <3>1 DEF Candidate
      <3> QED BY <2>0, <3>2
    <2>3. best # NoCandidate => b \in Score /\ b # NoScore /\ Eligible(b)
             /\ \A i \in 1 .. Len(fresh) : Eligible(F(i)) => ~Better(F(i), b)
      BY <1>4, <2>0 DEF Candidate, BestLeads
    <2>4. best = NoCandidate => \A i \in 1 .. Len(fresh) : ~Eligible(F(i))
      BY <2>0 DEF BestLeads
    <2>5. ~Better(score, score)
      BY <1>3, BetterOrders
    <2> HIDE DEF F, G, b
    <2>6. CASE Eligible(score) /\ best = NoCandidate
      BY <1>6, <2>6, <2>1, <2>4, <2>5, <1>3, <1>7, <1>13 DEF BestLeads, G
    <2>7. CASE Eligible(score) /\ best # NoCandidate /\ Better(score, b)
      <3>1. best' = e
        BY <1>6, <2>7 DEF b
      <3>2. ASSUME NEW i \in 1 .. Len(fresh'), Eligible(G(i)) PROVE ~Better(G(i), score)
        <4>1. CASE G(i) = score
          BY <2>5, <4>1
        <4>2. CASE i \in 1 .. Len(fresh) /\ G(i) = F(i)
          BY <2>2, <2>3, <2>7, <3>2, <4>2, <1>3, BetterOrders
        <4> QED BY <2>1, <4>1, <4>2
      <3> QED BY <1>3, <1>7, <1>13, <2>7, <3>1, <3>2 DEF BestLeads, G
    <2>8. CASE Eligible(score) /\ best # NoCandidate /\ ~Better(score, b)
      BY <1>6, <2>8, <2>1, <2>3, <1>13 DEF b, BestLeads, G
    <2>9. CASE ~Eligible(score)
      BY <1>6, <2>9, <2>1, <2>3, <2>4, <1>13 DEF BestLeads, G, b
    <2> QED BY <2>6, <2>7, <2>8, <2>9
  <1>15. PlaceOfChampion'
    BY <1>0, <1>2, <1>10, <1>12, <1>14 DEF PlaceOfChampion
  <1>16. TrainLed'
    BY <1>0, <1>2 DEF TrainLed
  <1> QED BY <1>9, <1>15, <1>16 DEF ChampionInv
\* A step that leaves the candidates alone and goes elsewhere, or nowhere.
LEMMA ChampionKept ==
  ASSUME ChampionInv, UNCHANGED <<cfg, todo, fresh, champ, best, reg, cps>>,
         pc' = pc \/ pc' \notin {"train", "discover", "rank", "select", "end"}
  PROVE  ChampionInv'
  <1>1. CandidatesOK' /\ TrainLed'
    BY DEF ChampionInv, CandidatesOK, TrainLed
  <1>2. PlaceOfChampion'
    <2>1. CASE pc' # pc
      BY <2>1 DEF PlaceOfChampion
    <2>2. CASE pc' = pc
      BY <2>2 DEF Here, BestLeads, Eligible, ChampionLeads, PlaceOfChampion, ChampionInv
    <2> QED BY <2>1, <2>2
  <1> QED BY <1>1, <1>2 DEF ChampionInv

\* The proposals are made; the champion stands behind them.
LEMMA ChampionProposes ==
  ASSUME PlaceInv, ListsOK, ChampionInv, Propose
  PROVE  ChampionInv'
  <1>0. cfg.proposals \in Nat
    BY SizesOK
  <1> DEFINE n == cfg.proposals
             s == [i \in 1 .. n |-> [NoCandidate EXCEPT !.id = CandidateId(gen, i)]]
  <1>1. n \in Nat /\ gen \in Nat
    BY SizesOK DEF ListsOK
  <1>2. CandidatesOK /\ TrainLed
    BY DEF ChampionInv
  <1>3. todo' = Append(s, champ) /\ fresh' = <<>> /\ pc' = "train" /\ UNCHANGED <<cfg, champ, best, reg, cps>>
    BY DEF Propose
  <1>4. s \in Seq(Candidate)
    <2>1. ASSUME NEW i \in 1 .. n PROVE [NoCandidate EXCEPT !.id = CandidateId(gen, i)] \in Candidate
      BY <1>0, <1>1 DEF Candidate, NoCandidate, CandidateId
    <2>2. s \in [1 .. n -> Candidate]
      BY <2>1
    <2> HIDE DEF s, n
    <2> QED BY <1>1, <2>2
  <1>5. champ \in Candidate
    BY <1>2 DEF CandidatesOK
  <1> HIDE DEF s, n
  <1>6. Append(s, champ) \in Seq(Candidate) /\ Len(Append(s, champ)) = Len(s) + 1 /\ Len(s) \in Nat
        /\ Append(s, champ)[Len(s) + 1] = champ
    BY <1>4, <1>5
  <1>7. CandidatesOK'
    BY <1>2, <1>3, <1>6 DEF CandidatesOK
  <1>8. Here(todo)'
    BY <1>3, <1>6 DEF Here
  <1>9. PlaceOfChampion'
    BY <1>3, <1>8 DEF PlaceOfChampion
  <1>10. TrainLed'
    BY <1>2, <1>3 DEF TrainLed
  <1> QED BY <1>7, <1>9, <1>10 DEF ChampionInv

\* The train stage is over: whoever was evaluated is there, the champion among them.
LEMMA ChampionTrained ==
  ASSUME PlaceInv, ValidInv, ChampionInv, TrainEnds
  PROVE  ChampionInv'
  <1>1. CandidatesOK /\ TrainLed /\ PlaceOfChampion
    BY DEF ChampionInv
  <1>2. /\ pc = "train" /\ todo = <<>> /\ cps' = <<>>
        /\ UNCHANGED <<cfg, todo, fresh, champ, best, reg>>
    BY DEF TrainEnds
  <1>3. cfg.branch => HasSelection(cfg)
    BY <1>2 DEF ValidInv, Searching, Valid
  <1>4. /\ pc' \in {"end", "discover", "rank"}
        /\ HasSelection(cfg) <=> pc' # "end"
    <2>1. CASE ~HasSelection(cfg)
      BY <1>3, <2>1 DEF TrainEnds
    <2>2. CASE HasSelection(cfg) /\ cfg.branch
      BY <2>2 DEF TrainEnds
    <2>3. CASE HasSelection(cfg) /\ ~cfg.branch
      BY <2>3 DEF TrainEnds
    <2> QED BY <2>1, <2>2, <2>3
  <1>5. CandidatesOK'
    BY <1>1, <1>2 DEF CandidatesOK
  <1>6. TrainLed'
    BY <1>1, <1>2 DEF TrainLed
  <1>7. Here(fresh)'
    BY <1>1, <1>2 DEF PlaceOfChampion, Here
  <1>8. pc' = "end" => ChampionLeads'
    <2> SUFFICES ASSUME pc' = "end" PROVE ChampionLeads'
      OBVIOUS
    <2>1. ~HasSelection(cfg')
      BY <1>2, <1>4
    <2>2. \A i \in DOMAIN reg' : reg'[i].train # NoScore => ~Better(reg'[i].train, champ'.train)
      BY <1>1, <1>2, <2>1 DEF CandidatesOK, TrainLed
    <2> QED BY <2>1, <2>2 DEF ChampionLeads
  <1>9. PlaceOfChampion'
    BY <1>1, <1>2, <1>4, <1>7, <1>8 DEF PlaceOfChampion
  <1> QED BY <1>5, <1>6, <1>9 DEF ChampionInv

\* A discovery leaves checkpoints a branch can be measured from.
LEMMA ChampionDiscovers ==
  ASSUME PlaceInv, ChampionInv, Discover, pc' # "failing"
  PROVE  ChampionInv'
  BY DiscoveredMeasures DEF ChampionInv, Discover, Fail, CandidatesOK, PlaceOfChampion, Here,
     TrainLed

\* The incumbent leads the list of those the selection compares.
LEMMA ChampionRanked ==
  ASSUME PlaceInv, ValidInv, ChampionInv, Rank
  PROVE  ChampionInv'
  <1>1. CandidatesOK /\ TrainLed /\ PlaceOfChampion
    BY DEF ChampionInv
  <1>2. /\ pc = "rank" /\ pc' = "select" /\ todo' = TopTrain(fresh, cfg.topK, champ.id)
        /\ best' = NoCandidate /\ fresh' = <<>> /\ UNCHANGED <<cfg, champ, reg, cps>>
    BY DEF Rank
  <1>3. HasSelection(cfg) /\ cfg.topK \in Nat /\ cfg.topK # 0
    BY <1>1, <1>2, SizesOK DEF PlaceOfChampion, ValidInv, Valid, Searching
  <1>4. fresh \in Seq(Candidate) /\ \A i \in 1 .. Len(fresh) : fresh[i].train \in Score
    <2> SUFFICES ASSUME NEW i \in 1 .. Len(fresh) PROVE fresh[i].train \in Score
      BY <1>1 DEF CandidatesOK
    <2>1. fresh[i] \in Candidate
      BY <1>1 DEF CandidatesOK
    <2>2. fresh[i].train \in Score \cup {NoScore}
      BY <2>1 DEF Candidate
    <2> QED BY <1>1, <1>2, <2>2 DEF PlaceOfChampion
  <1>5. PICK c \in 1 .. Len(fresh) : fresh[c].id = champ.id
    BY <1>1, <1>2 DEF PlaceOfChampion, Here
  <1>6. todo' \in Seq(Candidate) /\ Len(todo') \in Nat \ {0} /\ todo'[1].id = champ.id
    BY <1>2, <1>3, <1>4, <1>5, TopTrainHolds
  <1>7. Here(todo)'
    BY <1>2, <1>6 DEF Here
  <1>8. NoCandidate \in Candidate /\ <<>> \in Seq(Candidate)
    BY DEF Candidate, NoCandidate
  <1>9. CandidatesOK'
    BY <1>1, <1>2, <1>6, <1>8 DEF CandidatesOK
  <1>10. BestLeads'
    BY <1>2 DEF BestLeads
  <1>11. PlaceOfChampion'
    BY <1>2, <1>3, <1>7, <1>10 DEF PlaceOfChampion
  <1>12. TrainLed'
    BY <1>1, <1>2 DEF TrainLed
  <1> QED BY <1>9, <1>11, <1>12 DEF ChampionInv

\* The selection is over: its best becomes the champion.
LEMMA ChampionSelected ==
  ASSUME PlaceInv, ChampionInv, SelectionEnds, pc' # "failing"
  PROVE  ChampionInv'
  <1>1. CandidatesOK /\ TrainLed /\ PlaceOfChampion
    BY DEF ChampionInv
  <1>2. /\ pc = "select" /\ todo = <<>> /\ pc' = "end"
        /\ ~(best = NoCandidate /\ cfg.minMessages > 0)
        /\ champ' = IF best = NoCandidate THEN champ ELSE best
        /\ UNCHANGED <<cfg, todo, fresh, best, reg, cps>>
    BY DEF SelectionEnds, Fail
  <1>3. HasSelection(cfg) /\ BestLeads /\ Here(fresh) /\ cfg.minMessages \in Nat
        /\ \A i \in 1 .. Len(fresh) : fresh[i].selection # NoScore
    BY <1>2, <1>1 DEF Here, PlaceInv, Config, PlaceOfChampion
  <1>4. best # NoCandidate
    <2> SUFFICES ASSUME best = NoCandidate PROVE FALSE
      OBVIOUS
    <2>1. PICK i \in 1 .. Len(fresh) : TRUE
      BY <1>3 DEF Here
    <2>2. fresh[i] \in Candidate
      BY <1>1 DEF CandidatesOK
    <2>3. fresh[i].selection \in Score
      BY <1>3, <2>2 DEF Candidate
    <2>4. fresh[i].selection.delivered \in Nat
      BY <2>3 DEF Score
    <2>5. Eligible(fresh[i].selection)
      BY <1>2, <1>3, <2>4 DEF Eligible
    <2> QED BY <1>3, <2>5 DEF BestLeads
  <1>5. CandidatesOK'
    BY <1>1, <1>2, <1>4 DEF CandidatesOK
  <1>6. TrainLed'
    BY <1>2, <1>3 DEF TrainLed
  <1>7. ChampionLeads'
    BY <1>2, <1>3, <1>4, <1>1 DEF BestLeads, CandidatesOK, ChampionLeads, Eligible
  <1>8. PlaceOfChampion'
    BY <1>2, <1>7 DEF PlaceOfChampion
  <1> QED BY <1>5, <1>6, <1>8 DEF ChampionInv

\* A run that begins has the seed only.
LEMMA ChampionEmpty ==
  ASSUME cfg \in Config, pc = "start", todo = <<>>, fresh = <<>>, champ = Seed, best = NoCandidate, reg = <<Seed>>, cps = <<>>
  PROVE  ChampionInv
  <1>1. SeedId \in Int
    BY DEF Config, SeedId, CandidateId
  <1>2. Seed \in Candidate /\ Seed.train = NoScore /\ Seed.selection = NoScore /\ NoCandidate \in Candidate
    BY <1>1 DEF Candidate, NoCandidate, Seed
  <1> QED BY <1>2 DEF CandidatesOK, TrainLed, PlaceOfChampion, ChampionInv

\* The invariant of the champion holds at first,
LEMMA ChampionInit == Init => ChampionInv
  BY MapoAssumption, ChampionEmpty DEF Init

\* after a rerun,
LEMMA ChampionRerun == PlaceInv /\ Rerun => ChampionInv'
  <1>1. PlaceInv /\ Rerun =>
                 (/\ cfg \in Config /\ pc = "start" /\ todo = <<>> /\ fresh = <<>> /\ champ = Seed /\ best = NoCandidate
                  /\ reg = <<Seed>> /\ cps = <<>>)'
    <2> SUFFICES ASSUME PlaceInv, Rerun
                 PROVE  (/\ cfg \in Config /\ pc = "start" /\ todo = <<>> /\ fresh = <<>> /\ champ = Seed
                         /\ best = NoCandidate /\ reg = <<Seed>> /\ cps = <<>>)'
      OBVIOUS
    <2>1. cfg' \in Config /\ Seed' = Seed
      BY DryChanges, SeedKept DEF Rerun, PlaceInv
    <2> QED BY <2>1 DEF Rerun, Fresh
  <1>2. (/\ cfg \in Config /\ pc = "start" /\ todo = <<>> /\ fresh = <<>> /\ champ = Seed /\ best = NoCandidate
         /\ reg = <<Seed>> /\ cps = <<>>)' => ChampionInv'
    BY ChampionEmpty, PTL
  <1> QED BY <1>1, <1>2

\* and after every step.
LEMMA ChampionStep == PlaceInv /\ FairInv /\ ChampionInv /\ [Next]_vars => ChampionInv'
  <1> SUFFICES ASSUME PlaceInv, FairInv, ChampionInv, [Next]_vars PROVE ChampionInv'
    OBVIOUS
  <1>0. ListsOK /\ ValidInv
    BY DEF FairInv, SeenInv
  <1>1. CASE Fail
    BY <1>1, ChampionKept DEF Fail
  <1>2. ASSUME Start \/ Ready \/ Unreachable \/ GroupFails PROVE ChampionInv'
    BY <1>2, ChampionKept DEF Start, Ready, Unreachable, GroupFails, Fail
  <1>3. ASSUME GenerationEnds \/ SearchEnds \/ HeldoutBaseline \/ HeldoutChampion \/ Finish \/ Return \/ Failed
        PROVE  ChampionInv'
    BY <1>3, ChampionKept DEF GenerationEnds, SearchEnds, HeldoutBaseline, HeldoutChampion, Finish,
       Return, Failed, Fail
  <1>4. ASSUME Write \/ WriteFails \/ Crash \/ UNCHANGED vars PROVE ChampionInv'
    BY <1>4, ChampionKept DEF Write, WriteFails, Crash, vars
  <1>5. CASE Propose
    BY <1>0, <1>5, ChampionProposes
  <1>6. CASE TrainEvaluated
    BY <1>6, TrainLeadStep
  <1>7. CASE TrainEnds
    BY <1>0, <1>7, ChampionTrained
  <1>8. CASE Discover
    BY <1>8, <1>1, ChampionDiscovers DEF Discover
  <1>9. CASE Rank
    BY <1>0, <1>9, ChampionRanked
  <1>10. CASE SelectionEvaluated
    BY <1>10, SelectionLeadStep
  <1>11. CASE SelectionEnds
    BY <1>11, <1>1, ChampionSelected DEF SelectionEnds
  <1>12. CASE Rerun
    BY <1>12, ChampionRerun
  <1> QED BY <1>2, <1>3, <1>4, <1>5, <1>6, <1>7, <1>8, <1>9, <1>10, <1>11, <1>12 DEF Next, Advance

(* At the end of a generation the champion leads: without a selection split  *)
(* nobody registered has a better train score, with one nobody compared that *)
(* met the message floor has a better selection score, and the incumbent was *)
(* among those compared (execute_mapo_run, top_train_candidates).            *)
THEOREM ChampionsLead == Spec => []ChampionIsBest
  <1>1. Init => PlaceInv /\ FairInv /\ ChampionInv
    BY PlaceInit, FairInit, ChampionInit
  <1>2. PlaceInv /\ FairInv /\ ChampionInv /\ [Next]_vars => (PlaceInv /\ FairInv /\ ChampionInv)'
    BY PlaceStep, FairStep, ChampionStep
  <1>3. ChampionInv => ChampionIsBest
    <2> SUFFICES ASSUME ChampionInv PROVE ChampionIsBest
      OBVIOUS
    <2>1. PlaceOfChampion /\ CandidatesOK
      BY DEF ChampionInv
    <2>2. ChampionLeads
      BY <2>1 DEF PlaceOfChampion, ChampionLeads
    <2>3. ChampionDefends
      <3> SUFFICES ASSUME pc = "select", todo = <<>> PROVE \E i \in DOMAIN fresh : fresh[i].id = champ.id
        BY DEF ChampionDefends
      <3>1. Here(fresh)
        BY <2>1 DEF PlaceOfChampion, Here
      <3>2. DOMAIN fresh = 1 .. Len(fresh)
        BY <2>1 DEF CandidatesOK
      <3> QED BY <3>1, <3>2 DEF Here
    <2> QED BY <2>2, <2>3 DEF ChampionIsBest
  <1> QED BY <1>1, <1>2, <1>3, PTL DEF Spec
=============================================================================
