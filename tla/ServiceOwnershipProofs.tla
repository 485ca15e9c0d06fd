----------------------- MODULE ServiceOwnershipProofs -----------------------
(***************************************************************************)
(* Whom a service may signal, whose crash it may adopt, and who may own the *)
(* service, for any number of processes, pids and faults.                   *)
(*                                                                          *)
(* The heartbeat a service acts on is an old copy of a file that others     *)
(* write.  What carries over from the time it was written is that its       *)
(* writer was started, ran the recorded binary, and keeps its pid for as    *)
(* long as it lives; and that a process that has ended does not come back.  *)
(***************************************************************************)
EXTENDS ServiceOwnership, TLAPS

\* No two live processes share a pid.
UniquePids ==
    \A p, q \in Processes : pid[p] = pid[q] /\ pid[p] # NoPid => p = q

\* What stays true of a heartbeat record after it was written.
RecordOK(r) ==
    r # NoRecord =>
      /\ pc[r.start] # "off"
      /\ r.exe = Exe[r.start]
      /\ pid[r.start] \in {r.pid, NoPid}

Gone(p, s) == pid[s] = NoPid \/ Exe[s] # Exe[p]

RecordsOK ==
    /\ RecordOK(heartbeat) /\ RecordOK(tmp)
    /\ \A p \in Services : RecordOK(seen[p])

\* A service that is about to move a heartbeat aside has seen that its
\* writer is gone.
EvictOK ==
    \A p \in Services :
      pc[p] = "evict" => seen[p] # NoRecord /\ Gone(p, seen[p].start)

AdoptedOK ==
    \A p \in Services :
      adopted[p] # Nobody => pc[adopted[p]] # "off" /\ Gone(p, adopted[p])

OffOK == \A p \in Services : pc[p] = "off" => pid[p] = NoPid

IInv ==
    /\ TypeOK /\ UniquePids /\ OffOK /\ RecordsOK /\ EvictOK /\ AdoptedOK
    /\ KillsOnlyItsLineage

-----------------------------------------------------------------------------

\* No step starts a process again, or gives a new pid to one that was started.
Forward ==
    \A p \in Services :
      /\ pc[p] # "off" => pc'[p] # "off" /\ pid'[p] \in {pid[p], NoPid}
      /\ pc'[p] = "off" => pid'[p] = NoPid

\* Where the records, the decisions and the kills of a step come from.
HeartbeatFrom ==
    \/ heartbeat' \in {NoRecord, heartbeat, tmp}
    \/ heartbeat' = [heartbeat EXCEPT !.fresh = FALSE]

TmpFrom ==
    \/ tmp' \in {NoRecord, tmp}
    \/ \E p \in Services : Alive(p) /\ pc[p] # "off" /\ tmp' = Own(p)

SeenFrom == \A p \in Services : seen'[p] \in {seen[p], heartbeat}

EvictFrom ==
    \A p \in Services :
      pc'[p] = "evict" =>
        /\ seen'[p] = seen[p]
        /\ \/ pc[p] = "evict"
           \/ seen[p] # NoRecord /\ ~MatchesLiveProcess(p, seen[p])

AdoptedFrom ==
    \A p \in Services :
      \/ adopted'[p] = adopted[p]
      \/ /\ adopted'[p] = seen[p].start /\ seen[p] # NoRecord
         /\ pc[p] = "evict" \/ pid'[seen[p].start] = NoPid

KilledFrom ==
    \A k \in killed' :
      \/ k \in killed
      \/ /\ MatchesLiveProcess(k[1], seen[k[1]])
         /\ pid[k[2]] = seen[k[1]].pid

Effect ==
    /\ UniquePids' /\ Forward /\ HeartbeatFrom /\ TmpFrom /\ SeenFrom
    /\ EvictFrom /\ AdoptedFrom /\ KilledFrom

\* A process that fails to match the record it saw is gone.
LEMMA MismatchIsGone ==
  ASSUME IInv, NEW p \in Services, seen[p] # NoRecord,
         ~MatchesLiveProcess(p, seen[p])
  PROVE  Gone(p, seen[p].start)
<1> DEFINE r == seen[p]
<1>1. r \in Record /\ RecordOK(r) /\ OwnershipAssumption
  BY OwnershipAssumption DEF IInv, TypeOK, RecordsOK
<1>2. r.start \in Processes /\ r.pid # NoPid
  BY <1>1 DEF Record, Processes, OwnershipAssumption
<1>3. CASE pid[r.start] = NoPid BY <1>3 DEF Gone
<1>4. CASE pid[r.start] = r.pid
  BY <1>2, <1>4, <1>1 DEF MatchesLiveProcess, RecordOK, Gone
<1> QED BY <1>1, <1>3, <1>4 DEF RecordOK

\* The process under the pid of a matching record is its writer.
LEMMA MatchIsWriter ==
  ASSUME IInv, NEW p \in Services, MatchesLiveProcess(p, seen[p]),
         NEW q \in Processes, pid[q] = seen[p].pid
  PROVE  q = seen[p].start /\ q \in Services /\ Exe[q] = Exe[p]
BY DEF MatchesLiveProcess, NoRecord, IInv, TypeOK, RecordsOK, UniquePids, RecordOK, Record

\* The argument of the module: these effects keep the invariant.
LEMMA EffectKeeps ==
  ASSUME IInv, TypeOK', Effect
  PROVE  IInv'
<1>0. TypeOK /\ RecordsOK /\ Forward BY DEF IInv, Effect
<1>1. ASSUME NEW r \in Record \cup {NoRecord}, RecordOK(r)
      PROVE  r # NoRecord => /\ pc'[r.start] # "off" /\ r.exe = Exe[r.start]
                             /\ pid'[r.start] \in {r.pid, NoPid}
  BY <1>0, <1>1 DEF RecordOK, Forward, Record
<1>2. ASSUME NEW p \in Services, NEW s \in Services, Gone(p, s), pc[s] # "off"
      PROVE  (pid'[s] = NoPid \/ Exe[s] # Exe[p]) /\ pc'[s] # "off"
  BY <1>0, <1>2 DEF Gone, Forward
<1>3. OffOK' BY <1>0 DEF OffOK, Forward
<1>4. RecordOK(heartbeat)'
  <2>1. heartbeat \in Record \cup {NoRecord} /\ tmp \in Record \cup {NoRecord}
        /\ RecordOK(heartbeat) /\ RecordOK(tmp)
    BY <1>0 DEF TypeOK, RecordsOK
  <2>2. CASE heartbeat' \in {NoRecord, heartbeat, tmp}
    BY <1>1, <2>1, <2>2 DEF RecordOK
  <2>3. CASE heartbeat' = [heartbeat EXCEPT !.fresh = FALSE]
    <3>1. CASE heartbeat = NoRecord BY <2>3, <3>1 DEF RecordOK, NoRecord
    <3>2. CASE heartbeat \in Record
      BY <2>3, <3>2, OwnershipAssumption, <1>1, <2>1 DEF Record, NoRecord, OwnershipAssumption,
         Processes, RecordOK
    <3> QED BY <2>1, <3>1, <3>2
  <2> QED BY <2>2, <2>3 DEF Effect, HeartbeatFrom
<1>5. RecordOK(tmp)'
  <2>1. CASE tmp' \in {NoRecord, tmp}
    BY <1>0, <1>1, <2>1 DEF RecordOK, TypeOK, RecordsOK
  <2>2. ASSUME NEW p \in Services, Alive(p), pc[p] # "off", tmp' = Own(p)
        PROVE  RecordOK(tmp)'
    BY <1>0, <2>2 DEF Own, RecordOK, Forward
  <2> QED BY <2>1, <2>2 DEF Effect, TmpFrom
<1>6. (\A p \in Services : RecordOK(seen[p]))'
  <2> SUFFICES ASSUME NEW p \in Services
               PROVE  seen'[p] # NoRecord =>
                        /\ pc'[seen'[p].start] # "off"
                        /\ seen'[p].exe = Exe[seen'[p].start]
                        /\ pid'[seen'[p].start] \in {seen'[p].pid, NoPid}
    BY DEF RecordOK
  <2>1. seen'[p] \in {seen[p], heartbeat} BY DEF Effect, SeenFrom
  <2>2. seen'[p] \in Record \cup {NoRecord} /\ RecordOK(seen'[p])
    BY <1>0, <2>1 DEF TypeOK, RecordsOK
  <2> QED BY <1>1, <2>2
<1>7. RecordsOK' BY <1>4, <1>5, <1>6 DEF RecordsOK
<1>8. EvictOK'
  <2> SUFFICES ASSUME NEW p \in Services, pc'[p] = "evict"
               PROVE  /\ seen'[p] # NoRecord
                      /\ pid'[seen'[p].start] = NoPid \/ Exe[seen'[p].start] # Exe[p]
    BY DEF EvictOK, Gone
  <2>1. seen'[p] = seen[p] BY DEF Effect, EvictFrom
  <2>2. seen[p] # NoRecord /\ Gone(p, seen[p].start)
    BY MismatchIsGone DEF Effect, EvictFrom, IInv, EvictOK
  <2>3. seen[p].start \in Services /\ pc[seen[p].start] # "off"
    BY <1>0, <2>2 DEF TypeOK, RecordsOK, RecordOK, Record
  <2> QED BY <1>2, <2>1, <2>2, <2>3 DEF Gone
<1>9. AdoptedOK'
  <2> SUFFICES ASSUME NEW p \in Services, adopted'[p] # Nobody
               PROVE  /\ pc'[adopted'[p]] # "off"
                      /\ pid'[adopted'[p]] = NoPid \/ Exe[adopted'[p]] # Exe[p]
    BY DEF AdoptedOK, Gone
  <2>1. CASE adopted'[p] = adopted[p]
    BY <1>0, <2>1, <1>2 DEF IInv, AdoptedOK, TypeOK, Gone
  <2>2. CASE /\ adopted'[p] = seen[p].start /\ seen[p] # NoRecord
             /\ pc[p] = "evict" \/ pid'[seen[p].start] = NoPid
    <3>1. seen[p].start \in Services /\ pc[seen[p].start] # "off"
      BY <1>0, <2>2 DEF TypeOK, RecordsOK, RecordOK, Record
    <3>2. CASE pc[p] = "evict"
      BY <3>2, <1>2, <2>2, <3>1 DEF IInv, EvictOK, Gone
    <3>3. CASE pid'[seen[p].start] = NoPid
      BY <1>0, <2>2, <3>1, <3>3 DEF Gone, Forward
    <3> QED BY <2>2, <3>2, <3>3
  <2> QED BY <2>1, <2>2 DEF Effect, AdoptedFrom
<1>10. KillsOnlyItsLineage'
  <2> SUFFICES ASSUME NEW k \in killed'
               PROVE  k[2] \in Services /\ Exe[k[2]] = Exe[k[1]]
    BY DEF KillsOnlyItsLineage
  <2>1. k[1] \in Services /\ k[2] \in Processes BY DEF TypeOK
  <2>2. CASE k \in killed BY <2>2 DEF IInv, KillsOnlyItsLineage
  <2>3. CASE MatchesLiveProcess(k[1], seen[k[1]]) /\ pid[k[2]] = seen[k[1]].pid
    BY <2>1, <2>3, MatchIsWriter
  <2> QED BY <2>2, <2>3 DEF Effect, KilledFrom
<1> QED BY <1>3, <1>7, <1>8, <1>9, <1>10 DEF IInv, Effect


-----------------------------------------------------------------------------

\* The end of a process keeps the types, the pids apart and time forward.
LEMMA EndsEffect ==
  ASSUME IInv, NEW q \in Processes, NEW next, Ends(q, next),
         next \in [Services -> Acquiring \cup Owning \cup Dropping \cup {"off", "ended"}],
         \A p \in Services : pc[p] # "off" => next[p] # "off",
         \A p \in Services : next[p] = "off" => pc[p] = "off"
  PROVE  /\ pid' \in [Processes -> Pids \cup {NoPid}]
         /\ pc' \in [Services -> Acquiring \cup Owning \cup Dropping \cup {"off", "ended"}]
         /\ writer' \in [Services -> {"off", "idle", "write", "publish"}]
         /\ holder' \in [Inodes -> Services \cup {Nobody}]
         /\ hung' \subseteq Services
         /\ UniquePids' /\ Forward
BY DEF IInv, Ends, TypeOK, UniquePids, Forward, OffOK, Processes

\* What a started or finished step of one thread does not touch.
LEMMA StepEffect ==
  ASSUME IInv, NEW p \in Services, pc[p] # "off", NEW label, label # "off",
         pid' = pid, pc' = [pc EXCEPT ![p] = label]
  PROVE  UniquePids' /\ Forward
BY DEF IInv, TypeOK, UniquePids, Forward, OffOK

LEMMA SameEffect ==
  ASSUME IInv, pid' = pid, pc' = pc
  PROVE  UniquePids' /\ Forward
BY DEF IInv, TypeOK, UniquePids, Forward, OffOK

\* Every step of the specification has the effects, and keeps the types.
LEMMA EndingEffect ==
  ASSUME IInv, NEW p \in Services, Ends(p, pc),
         UNCHANGED <<fd, seen, adopted, late, lock, inodes, heartbeat, tmp, killed>>,
         faults' \in [crash : 0 .. MaxCrashes, hang : 0 .. MaxHangs,
                      error : 0 .. MaxErrors, overlap : 0 .. 1]
  PROVE  TypeOK' /\ Effect
<1>1. TypeOK /\ p \in Processes BY DEF IInv, Processes
<1>2. /\ pid' \in [Processes -> Pids \cup {NoPid}]
      /\ pc' \in [Services -> Acquiring \cup Owning \cup Dropping \cup {"off", "ended"}]
      /\ writer' \in [Services -> {"off", "idle", "write", "publish"}]
      /\ holder' \in [Inodes -> Services \cup {Nobody}]
      /\ hung' \subseteq Services
      /\ UniquePids' /\ Forward
  BY <1>1, EndsEffect DEF TypeOK
<1>3. TypeOK' BY <1>1, <1>2 DEF TypeOK
<1>4. EvictFrom BY DEF EvictFrom, Ends
<1>5. HeartbeatFrom /\ TmpFrom /\ SeenFrom /\ AdoptedFrom /\ KilledFrom
  BY DEF HeartbeatFrom, TmpFrom, SeenFrom, AdoptedFrom, KilledFrom
<1> QED BY <1>2, <1>3, <1>4, <1>5 DEF Effect

LEMMA OverlapEffect ==
  ASSUME TypeOK, NEW now, Overlaps(now)
  PROVE  faults' \in [crash : 0 .. MaxCrashes, hang : 0 .. MaxHangs,
                      error : 0 .. MaxErrors, overlap : 0 .. 1]
BY DEF Overlaps, TypeOK

LEMMA FailEffect ==
  ASSUME IInv, NEW p \in Services, Fail(p)
  PROVE  TypeOK' /\ Effect
BY EndingEffect DEF IInv, TypeOK, Fail

LEMMA JumpEffect ==
  ASSUME IInv, NEW p \in Services, pc[p] # "off", NEW label, Step(p, label),
         label \in Acquiring \cup Owning \cup Dropping \cup {"ended"},
         label = "evict" => seen[p] # NoRecord /\ ~MatchesLiveProcess(p, seen[p])
  PROVE  TypeOK' /\ Effect
<1>1. TypeOK /\ label # "off" BY DEF IInv, Acquiring, Owning, Dropping
<1>2. UniquePids' /\ Forward BY <1>1, StepEffect DEF Step, Goto
<1>3. TypeOK' BY <1>1 DEF TypeOK, Step, Goto, local, files, world
<1>4. EvictFrom BY <1>1 DEF EvictFrom, Step, Goto, local, TypeOK
<1>5. HeartbeatFrom /\ TmpFrom /\ SeenFrom /\ AdoptedFrom /\ KilledFrom
  BY DEF HeartbeatFrom, TmpFrom, SeenFrom, AdoptedFrom, KilledFrom, Step,
         local, files, world
<1> QED BY <1>2, <1>3, <1>4, <1>5 DEF Effect

LEMMA KillEffect ==
  ASSUME IInv, NEW p \in Services, pc[p] # "off",
         NEW label \in {"claim", "retry"},
         MatchesLiveProcess(p, seen[p]), KillPeer(p, label)
  PROVE  TypeOK' /\ Effect
<1> DEFINE next == [pc EXCEPT ![p] = label]
<1>1. PICK q \in Processes \ {p} :
        /\ pid[q] = seen[p].pid
        /\ Ends(q, next)
        /\ killed' = killed \cup {<<p, q>>}
        /\ adopted' = [adopted EXCEPT ![p] = seen[p].start]
        /\ UNCHANGED <<fd, seen, late, lock, inodes, heartbeat, tmp, faults>>
  BY DEF KillPeer
<1>2. q = seen[p].start BY <1>1, MatchIsWriter
<1>3. seen[p] # NoRecord BY DEF MatchesLiveProcess, NoRecord
<1>4. TypeOK BY DEF IInv
<1>5. /\ next \in [Services -> Acquiring \cup Owning \cup Dropping \cup {"off", "ended"}]
      /\ \A x \in Services : pc[x] # "off" => next[x] # "off"
      /\ \A x \in Services : next[x] = "off" => pc[x] = "off"
      /\ next[p] # "evict" /\ \A x \in Services \ {p} : next[x] = pc[x]
  BY <1>4 DEF TypeOK, Acquiring, Owning, Dropping
<1> HIDE DEF next
<1>6. /\ pid' \in [Processes -> Pids \cup {NoPid}]
      /\ pc' \in [Services -> Acquiring \cup Owning \cup Dropping \cup {"off", "ended"}]
      /\ writer' \in [Services -> {"off", "idle", "write", "publish"}]
      /\ holder' \in [Inodes -> Services \cup {Nobody}]
      /\ hung' \subseteq Services
      /\ UniquePids' /\ Forward
  BY <1>1, <1>5, EndsEffect
<1>7. seen[p].start \in Services BY <1>3, <1>4 DEF TypeOK, Record
<1>8. TypeOK' BY <1>1, <1>4, <1>6, <1>7 DEF TypeOK
<1>9. EvictFrom BY <1>1, <1>5 DEF EvictFrom, Ends
<1>10. pid'[q] = NoPid BY <1>1, <1>4 DEF Ends, TypeOK
<1>11. AdoptedFrom BY <1>1, <1>2, <1>3, <1>4, <1>10 DEF AdoptedFrom, TypeOK
<1>12. KilledFrom BY <1>1 DEF KilledFrom
<1>13. HeartbeatFrom /\ TmpFrom /\ SeenFrom
  BY <1>1 DEF HeartbeatFrom, TmpFrom, SeenFrom
<1> QED BY <1>6, <1>8, <1>9, <1>11, <1>12, <1>13 DEF Effect


Labels == Acquiring \cup Owning \cup Dropping \cup {"ended"}

\* A thread of a started process moves, and no process comes or goes.
Moves(p) ==
    /\ pid' = pid
    /\ pc' = pc \/ \E label \in Labels \ {"evict"} : pc' = [pc EXCEPT ![p] = label]

LEMMA MoveEffect ==
  ASSUME IInv, NEW p \in Services, pc[p] # "off", Moves(p), seen' = seen
  PROVE  /\ pid' \in [Processes -> Pids \cup {NoPid}]
         /\ pc' \in [Services -> Acquiring \cup Owning \cup Dropping \cup {"off", "ended"}]
         /\ UniquePids' /\ Forward /\ EvictFrom /\ SeenFrom
<1>1. TypeOK BY DEF IInv
<1>2. CASE pc' = pc
  BY <1>1, <1>2, SameEffect DEF Moves, TypeOK, EvictFrom, SeenFrom
<1>3. ASSUME NEW label \in Labels \ {"evict"}, pc' = [pc EXCEPT ![p] = label]
      PROVE  /\ pc' \in [Services -> Acquiring \cup Owning \cup Dropping \cup {"off", "ended"}]
             /\ UniquePids' /\ Forward /\ EvictFrom /\ SeenFrom
  BY <1>3, StepEffect, <1>1 DEF Labels, Acquiring, Owning, Dropping, Moves, TypeOK, EvictFrom,
     SeenFrom
<1> QED BY <1>1, <1>2, <1>3 DEF Moves, TypeOK

LEMMA WriteEffect ==
  ASSUME IInv, NEW p \in Services, pc[p] # "off", Alive(p), WriteTmp(p), Moves(p),
         writer' \in [Services -> {"off", "idle", "write", "publish"}]
  PROVE  TypeOK' /\ Effect
<1>1. TypeOK BY DEF IInv
<1>2. seen' = seen BY DEF WriteTmp
<1>3. /\ pid' \in [Processes -> Pids \cup {NoPid}]
      /\ pc' \in [Services -> Acquiring \cup Owning \cup Dropping \cup {"off", "ended"}]
      /\ UniquePids' /\ Forward /\ EvictFrom /\ SeenFrom
  BY <1>2, MoveEffect
<1>4. Own(p) \in Record BY <1>1 DEF Own, Record, Alive, TypeOK, Processes
<1>5. TypeOK' BY <1>1, <1>3, <1>4 DEF TypeOK, WriteTmp, world
<1>6. HeartbeatFrom /\ TmpFrom /\ AdoptedFrom /\ KilledFrom
  BY DEF HeartbeatFrom, TmpFrom, AdoptedFrom, KilledFrom, WriteTmp, world
<1> QED BY <1>3, <1>5, <1>6 DEF Effect

LEMMA RenameEffect ==
  ASSUME IInv, NEW p \in Services, pc[p] # "off", RenameTmp(p), Moves(p),
         writer' \in [Services -> {"off", "idle", "write", "publish"}]
  PROVE  TypeOK' /\ Effect
BY MoveEffect DEF IInv, RenameTmp, TypeOK, world, HeartbeatFrom, TmpFrom, AdoptedFrom, KilledFrom,
   Effect

\* A move that leaves the records alone.
LEMMA PlainEffect ==
  ASSUME IInv, NEW p \in Services, pc[p] # "off", Moves(p), TypeOK',
         UNCHANGED <<seen, adopted, tmp, killed>>, heartbeat' \in {NoRecord, heartbeat}
  PROVE  Effect
BY MoveEffect DEF HeartbeatFrom, TmpFrom, AdoptedFrom, KilledFrom, Effect

LEMMA AcquireEffect ==
  ASSUME IInv, NEW p \in Services, Runs(p), Acquire(p)
  PROVE  TypeOK' /\ Effect
<1>1. TypeOK /\ Alive(p) /\ pc[p] # "off" BY DEF IInv, OffOK, Runs, Alive
<1>2. CASE OpenLock(p)
  <2>1. Moves(p) BY <1>2 DEF OpenLock, Moves, Goto, Labels, Acquiring
  <2>2. seen' = seen BY <1>2 DEF OpenLock
  <2>3. pc' \in [Services -> Acquiring \cup Owning \cup Dropping \cup {"off", "ended"}]
    BY <1>1, <2>1, <2>2, MoveEffect
  <2>4. /\ lock' \in 0 .. MaxInodes /\ inodes' \in 0 .. MaxInodes
        /\ fd' \in [Services -> 0 .. MaxInodes]
    BY <1>1, <1>2, OwnershipAssumption DEF OpenLock, TypeOK, OwnershipAssumption
  <2>5. TypeOK' BY <1>1, <1>2, <2>3, <2>4 DEF OpenLock, TypeOK, world
  <2> QED BY <1>1, <1>2, <2>1, <2>5, PlainEffect DEF OpenLock, world
<1>3. CASE TryLock(p)
  BY <1>3, <1>1, MoveEffect, PlainEffect DEF TryLock, Moves, Goto, Labels, Acquiring, local,
     TypeOK, world
<1>4. CASE ReadHeartbeat(p)
  <2>1. UniquePids' /\ Forward
    BY <1>1, <1>4, StepEffect DEF ReadHeartbeat, Goto
  <2>2. TypeOK'
    BY <1>1, <1>4 DEF ReadHeartbeat, Goto, TypeOK, Acquiring, files, world
  <2>3. SeenFrom /\ EvictFrom
    BY <1>1, <1>4 DEF ReadHeartbeat, Goto, TypeOK, SeenFrom, EvictFrom
  <2>4. HeartbeatFrom /\ TmpFrom /\ AdoptedFrom /\ KilledFrom
    BY <1>4 DEF ReadHeartbeat, HeartbeatFrom, TmpFrom, AdoptedFrom, KilledFrom,
                files, world
  <2> QED BY <2>1, <2>2, <2>3, <2>4 DEF Effect
<1>5. CASE Decide(p)
  <2>1. CASE Step(p, "claim") \/ Step(p, "retry")
    BY <1>1, <2>1, JumpEffect DEF Acquiring
  <2>2. CASE Step(p, "evict") /\ seen[p] # NoRecord /\ ~MatchesLiveProcess(p, seen[p])
    BY <1>1, <2>2, JumpEffect DEF Acquiring
  <2>3. CASE Fail(p) BY <2>3, FailEffect
  <2>4. CASE /\ MatchesLiveProcess(p, seen[p])
             /\ KillPeer(p, "claim") \/ KillPeer(p, "retry")
    BY <1>1, <2>4, KillEffect
  <2> QED BY <1>5, <2>1, <2>2, <2>3, <2>4 DEF Decide, DecideWinner, DecideBlocked
<1>6. CASE Retry(p)
  <2>1. CASE Step(p, "open") BY <1>1, <2>1, JumpEffect DEF Acquiring
  <2> QED BY <1>6, <2>1, FailEffect DEF Retry
<1>7. CASE EvictHeartbeat(p)
  <2>1. Moves(p) BY <1>7 DEF EvictHeartbeat, Moves, Goto, Labels, Acquiring
  <2>2. /\ UniquePids' /\ Forward /\ EvictFrom /\ SeenFrom
        /\ pc' \in [Services -> Acquiring \cup Owning \cup Dropping \cup {"off", "ended"}]
    BY <1>1, <1>7, <2>1, MoveEffect DEF EvictHeartbeat
  <2>3. seen[p] # NoRecord /\ seen[p].start \in Services
    BY <1>1, <1>7 DEF IInv, EvictOK, TypeOK, Record, EvictHeartbeat
  <2>4. TypeOK' BY <1>1, <1>7, <2>2, <2>3 DEF EvictHeartbeat, TypeOK, world
  <2>5. AdoptedFrom BY <1>1, <1>7, <2>3 DEF EvictHeartbeat, AdoptedFrom, TypeOK
  <2>6. HeartbeatFrom /\ TmpFrom /\ KilledFrom
    BY <1>7 DEF EvictHeartbeat, HeartbeatFrom, TmpFrom, KilledFrom, world
  <2> QED BY <2>2, <2>4, <2>5, <2>6 DEF Effect
<1>8. CASE EvictLock(p)
  <2>1. Moves(p) BY <1>8 DEF EvictLock, Moves, Goto, Labels, Acquiring
  <2>2. pc' \in [Services -> Acquiring \cup Owning \cup Dropping \cup {"off", "ended"}]
    BY <1>1, <1>8, <2>1, MoveEffect DEF EvictLock, local
  <2>3. TypeOK'
    BY <1>1, <1>8, <2>2, OwnershipAssumption
    DEF EvictLock, TypeOK, local, world, OwnershipAssumption
  <2> QED BY <1>1, <1>8, <2>1, <2>3, PlainEffect DEF EvictLock, local, world
<1>9. CASE Claim(p)
  BY <1>9, <1>1, WriteEffect DEF Claim, Moves, Goto, WriteTmp, Labels, Acquiring, TypeOK
<1>10. CASE Publish(p)
  <2>1. CASE RenameTmp(p) /\ Goto(p, "bind") /\ writer' = [writer EXCEPT ![p] = "idle"]
    BY <2>1, <1>1, RenameEffect DEF Moves, Goto, RenameTmp, Labels, Owning, TypeOK
  <2> QED BY <1>10, <2>1, FailEffect DEF Publish
<1> QED BY <1>2, <1>3, <1>4, <1>5, <1>6, <1>7, <1>8, <1>9, <1>10 DEF Acquire


LEMMA ServeEffect ==
  ASSUME IInv, NEW p \in Services, Runs(p), Serve(p)
  PROVE  TypeOK' /\ Effect
<1>1. TypeOK /\ Alive(p) /\ pc[p] # "off" BY DEF IInv, OffOK, Runs, Alive
<1>2. ASSUME Error(p, "drop") PROVE TypeOK' /\ Effect
  <2>1. Moves(p) BY <1>2 DEF Error, Moves, Goto, Labels, Dropping
  <2>2. pc' \in [Services -> Acquiring \cup Owning \cup Dropping \cup {"off", "ended"}]
    BY <1>1, <1>2, <2>1, MoveEffect DEF Error, local
  <2>3. faults' \in [crash : 0 .. MaxCrashes, hang : 0 .. MaxHangs,
                     error : 0 .. MaxErrors, overlap : 0 .. 1]
    BY <1>1, <1>2, OwnershipAssumption DEF Error, TypeOK, OwnershipAssumption
  <2>4. TypeOK' BY <1>1, <1>2, <2>2, <2>3 DEF Error, TypeOK, local, files
  <2> QED BY <1>1, <1>2, <2>1, <2>4, PlainEffect DEF Error, local, files
<1>3. CASE Bind(p)
  <2>1. CASE Step(p, "refresh") BY <1>1, <2>1, JumpEffect DEF Owning
  <2> QED BY <1>2, <1>3, <2>1 DEF Bind
<1>4. CASE Refresh(p)
  <2>1. CASE Step(p, "serving") BY <1>1, <2>1, JumpEffect DEF Owning
  <2>2. CASE WriteTmp(p) /\ Goto(p, "refreshPublish") /\ UNCHANGED writer
    BY <2>2, <1>1, WriteEffect DEF Moves, Goto, WriteTmp, Labels, Owning, TypeOK
  <2> QED BY <1>4, <2>1, <2>2 DEF Refresh
<1>5. CASE RefreshPublish(p)
  <2>1. CASE Step(p, "drop") BY <1>1, <2>1, JumpEffect DEF Dropping
  <2>2. CASE RenameTmp(p) /\ Goto(p, "serving") /\ UNCHANGED writer
    BY <2>2, <1>1, RenameEffect DEF Moves, Goto, RenameTmp, Labels, Owning, TypeOK
  <2> QED BY <1>5, <2>1, <2>2 DEF RefreshPublish
<1>6. CASE AcceptFails(p) BY <1>2, <1>6 DEF AcceptFails
<1>7. CASE Drop(p)
  BY <1>7, <1>1, MoveEffect, OverlapEffect, PlainEffect DEF Drop, Moves, Goto, Labels, Dropping,
     TypeOK, files
<1>8. CASE DropRemove(p)
  BY <1>8, <1>1, MoveEffect, PlainEffect DEF DropRemove, Moves, Goto, Labels, Dropping, local,
     TypeOK, world
<1>9. CASE DropUnlock(p)
  BY <1>9, <1>1, MoveEffect, PlainEffect DEF DropUnlock, Moves, Goto, Labels, Dropping, local,
     TypeOK, world
<1>10. CASE Exit(p) BY <1>10, FailEffect DEF Exit
<1> QED BY <1>3, <1>4, <1>5, <1>6, <1>7, <1>8, <1>9, <1>10 DEF Serve

LEMMA WriterEffect ==
  ASSUME IInv, NEW p \in Services, Runs(p), Writer(p)
  PROVE  TypeOK' /\ Effect
<1>1. TypeOK /\ Alive(p) /\ pc[p] # "off" BY DEF IInv, OffOK, Runs, Alive
<1>2. writer' \in [Services -> {"off", "idle", "write", "publish"}]
  BY <1>1 DEF Writer, WriterWakes, WriterWrites, WriterPublishes, TypeOK
<1>3. Moves(p)
  BY DEF Writer, WriterWakes, WriterWrites, WriterPublishes, WriteTmp,
         RenameTmp, Moves
<1>4. CASE WriterWrites(p) BY <1>1, <1>2, <1>3, <1>4, WriteEffect DEF WriterWrites
<1>5. CASE RenameTmp(p) BY <1>1, <1>2, <1>3, <1>5, RenameEffect
<1>6. CASE UNCHANGED <<pid, pc, fd, seen, adopted, late, files, world>>
  BY <1>1, <1>2, <1>6, <1>3, PlainEffect DEF TypeOK, files, world
<1> QED BY <1>4, <1>5, <1>6 DEF Writer, WriterWakes, WriterPublishes

LEMMA NewProcessEffect ==
  ASSUME IInv, NEW p \in Processes, TakesPid(p),
         UNCHANGED <<local, files, hung, killed>>,
         faults' \in [crash : 0 .. MaxCrashes, hang : 0 .. MaxHangs,
                      error : 0 .. MaxErrors, overlap : 0 .. 1],
         \/ p \in Services /\ pc[p] = "off" /\ pc' = [pc EXCEPT ![p] = "open"]
         \/ p \in Strangers /\ pc' = pc
  PROVE  TypeOK' /\ Effect
<1>1. TypeOK /\ UniquePids /\ OffOK BY DEF IInv
<1>2. PICK n \in Pids : /\ \A q \in Processes : pid[q] # n
                        /\ pid' = [pid EXCEPT ![p] = n]
  BY DEF TakesPid
<1>3. UniquePids' BY <1>1, <1>2 DEF UniquePids, TypeOK
<1>4. Services \cap Strangers = {} BY OwnershipAssumption DEF OwnershipAssumption
<1>5. Forward BY <1>1, <1>2, <1>4 DEF Forward, OffOK, TypeOK, Processes
<1>6. EvictFrom BY <1>1 DEF EvictFrom, TypeOK, local
<1>7. TypeOK'
  BY <1>1, <1>2 DEF TypeOK, Acquiring, local, files
<1>8. HeartbeatFrom /\ TmpFrom /\ SeenFrom /\ AdoptedFrom /\ KilledFrom
  BY DEF HeartbeatFrom, TmpFrom, SeenFrom, AdoptedFrom, KilledFrom, local, files
<1> QED BY <1>3, <1>5, <1>6, <1>7, <1>8 DEF Effect

LEMMA EnvironmentEffect ==
  ASSUME IInv,
         \/ Stale
         \/ \E p \in Services : Deadline(p) \/ Crash(p) \/ Hang(p) \/ Wake(p)
  PROVE  TypeOK' /\ Effect
<1>1. TypeOK BY DEF IInv
<1>2. CASE Stale
  <2>1. UniquePids' /\ Forward BY <1>2, SameEffect DEF Stale
  <2>2. heartbeat \in Record BY <1>1, <1>2 DEF Stale, TypeOK, NoRecord
  <2>3. heartbeat' \in Record BY <1>2, <2>2 DEF Stale, Record
  <2>4. TypeOK' BY <1>1, <1>2, <2>3 DEF Stale, TypeOK, local, world
  <2>5. /\ HeartbeatFrom /\ TmpFrom /\ SeenFrom /\ AdoptedFrom /\ KilledFrom
        /\ EvictFrom
    BY <1>2 DEF Stale, HeartbeatFrom, TmpFrom, SeenFrom, AdoptedFrom, KilledFrom,
                EvictFrom, local, world
  <2> QED BY <2>1, <2>4, <2>5 DEF Effect
<1>3. ASSUME NEW p \in Services, Deadline(p) \/ Hang(p) \/ Wake(p)
      PROVE  TypeOK' /\ Effect
  <2>1. UniquePids' /\ Forward BY <1>3, SameEffect DEF Deadline, Hang, Wake
  <2>2. faults' \in [crash : 0 .. MaxCrashes, hang : 0 .. MaxHangs,
                     error : 0 .. MaxErrors, overlap : 0 .. 1]
    BY <1>1, <1>3, OwnershipAssumption
    DEF Deadline, Hang, Wake, world, TypeOK, OwnershipAssumption
  <2>3. late' \subseteq Services /\ hung' \subseteq Services
    BY <1>1, <1>3 DEF Deadline, Hang, Wake, TypeOK, local, world
  <2>4. UNCHANGED <<pid, pc, writer, fd, seen, adopted, files, killed>>
    BY <1>3 DEF Deadline, Hang, Wake, local, world
  <2>5. TypeOK' BY <1>1, <2>2, <2>3, <2>4 DEF TypeOK, files
  <2>6. /\ HeartbeatFrom /\ TmpFrom /\ SeenFrom /\ AdoptedFrom /\ KilledFrom
        /\ EvictFrom
    BY <2>4 DEF HeartbeatFrom, TmpFrom, SeenFrom, AdoptedFrom, KilledFrom,
                EvictFrom, files
  <2> QED BY <2>1, <2>5, <2>6 DEF Effect
<1>4. ASSUME NEW p \in Services, Crash(p) PROVE TypeOK' /\ Effect
  BY <1>1, <1>4, OwnershipAssumption, EndingEffect DEF Crash, TypeOK, OwnershipAssumption
<1> QED BY <1>2, <1>3, <1>4

\* The invariant holds initially and is kept by every step.
LEMMA Invariance == Spec => []IInv
<1>1. Init => IInv
  <2> SUFFICES ASSUME Init PROVE IInv OBVIOUS
  <2>1. TypeOK
    BY OwnershipAssumption DEF Init, TypeOK, OwnershipAssumption, Inodes
  <2>2. UniquePids /\ OffOK BY DEF Init, UniquePids, OffOK, Processes
  <2>3. RecordsOK /\ EvictOK /\ AdoptedOK /\ KillsOnlyItsLineage
    BY DEF Init, RecordsOK, RecordOK, EvictOK, AdoptedOK, KillsOnlyItsLineage
  <2> QED BY <2>1, <2>2, <2>3 DEF IInv
<1>2. IInv /\ [Next]_vars => IInv'
  <2> SUFFICES ASSUME IInv, [Next]_vars PROVE IInv' OBVIOUS
  <2>1. CASE UNCHANGED vars
    BY <2>1 DEF vars, IInv, TypeOK, UniquePids, OffOK, RecordsOK, RecordOK, EvictOK,
                AdoptedOK, Gone, KillsOnlyItsLineage
  <2>2. CASE Next
    <3>1. ASSUME NEW p \in Services, StartService(p) PROVE TypeOK' /\ Effect
      BY <2>2, <3>1, OverlapEffect, NewProcessEffect
      DEF StartService, Goto, Processes, IInv
    <3>2. ASSUME NEW q \in Strangers, StartStranger(q) PROVE TypeOK' /\ Effect
      BY <2>2, <3>2, NewProcessEffect
      DEF StartStranger, Processes, IInv, TypeOK, world
    <3>3. TypeOK' /\ Effect
      BY <2>2, <3>1, <3>2, AcquireEffect, ServeEffect, WriterEffect,
         EnvironmentEffect DEF Next
    <3> QED BY <3>3, EffectKeeps
  <2> QED BY <2>1, <2>2
<1> QED BY <1>1, <1>2, PTL DEF Spec

\* However many processes start, crash, hang and reuse pids, a service only
\* ever signals a service process that runs its own binary: the guard of
\* kill_pid (service_ownership.rs) is sound.
THEOREM OnlyLineageIsSignalled == Spec => []KillsOnlyItsLineage
<1>1. IInv => KillsOnlyItsLineage BY DEF IInv
<1> QED BY <1>1, Invariance, PTL

\* The crash for which a new owner fails the runs in progress
\* (fail_orphaned_run_requests) is that of a process that is gone, or of
\* another binary.
THEOREM AdoptedCrashIsReal == Spec => []AdoptedIsGone
<1>1. IInv => AdoptedIsGone
  BY DEF IInv, AdoptedOK, AdoptedIsGone, Gone, Alive, TypeOK
<1> QED BY <1>1, Invariance, PTL

-----------------------------------------------------------------------------
(* One owner at a time.  While processes of one binary are started one after    *)
(* the other and a drop meets no heartbeat write, whoever is past its decision  *)
(* holds the lock at the path alone, and the heartbeat that a newcomer reads is *)
(* the holder's own: a newcomer that moves the lock aside has read the          *)
(* heartbeat of a process that is gone, so there is no holder.                  *)

OneLineage == \A p, q \in Services : Exe[p] = Exe[q]

\* Where a process has the lock file at the path open, where it holds its lock,
\* and where its heartbeat is out as well.
Shown   == Owning \cup {"drop", "dropRemove"}
Holding == {"claim", "publish", "dropUnlock"} \cup Shown
Opened  == {"lock", "read", "decide", "evict", "evictLock"} \cup Holding

\* A process that has started and not ended has a pid.
StartedOK == \A p \in Services : pc[p] \notin {"off", "ended"} => Alive(p)

\* Processes acquire one after the other, and only an owner writes heartbeats.
InTurn ==
    /\ \A p, q \in Services : pc[p] \in Acquiring /\ pc[q] \in Acquiring => p = q
    /\ \A p \in Services : writer[p] # "off" => pc[p] \in Owning \cup {"drop"}

LocksOK ==
    \A p \in Services :
      /\ pc[p] \in Opened => fd[p] # 0 /\ lock = fd[p]
      /\ pc[p] \in Holding => holder[fd[p]] = p

\* What the holder has put into the temporary file and the heartbeat.
ShownOK ==
    \A p \in Services :
      /\ pc[p] \in {"publish"} \cup Shown => tmp = NoRecord \/ tmp.start = p
      /\ pc[p] \in Shown => heartbeat # NoRecord /\ heartbeat.start = p
      /\ pc[p] = "dropUnlock" => heartbeat = NoRecord

\* What a newcomer has read of a holder.
NewcomersOK ==
    \A p, q \in Services :
      pc[p] \in Holding /\ p # q =>
        /\ pc[q] = "decide" => seen[q] = NoRecord \/ seen[q].start = p
        /\ pc[q] \notin {"evict", "evictLock"}

Calm == InTurn /\ LocksOK /\ ShownOK /\ NewcomersOK

CalmInv == StartedOK /\ (faults.overlap = 0 => Calm)

\* What a process writes of itself is a record of itself.
LEMMA OwnIsRecord == \A p \in Services : Own(p).start = p /\ Own(p) # NoRecord
  BY OwnershipAssumption DEF Own, NoRecord, OwnershipAssumption, Processes

\* No two processes hold the lock at the path.
LEMMA HolderIsAlone ==
  ASSUME Calm, NEW p \in Services, NEW q \in Services, pc[p] \in Holding, pc[q] \in Holding
  PROVE  p = q
  BY DEF Calm, LocksOK, Opened

\* Every step of a process keeps it all, while no overlap is remembered.
LEMMA CalmStartService ==
  ASSUME IInv, IInv', StartedOK, Calm, NEW p \in Services, StartService(p), faults'.overlap = 0
  PROVE  Calm'
  <1>0. TypeOK /\ TypeOK' /\ RecordsOK /\ InTurn /\ LocksOK /\ ShownOK /\ NewcomersOK
    BY DEF IInv, Calm
  <1>1. InTurn'
    BY <1>0
    DEF StartService, Goto, local, files, Overlaps, InTurn, Acquiring, Owning, Dropping, TypeOK
  <1>2. LocksOK'
    BY <1>0
    DEF StartService, Goto, local, files, Overlaps, LocksOK, Opened, Holding, Shown, Acquiring, Owning, Dropping, TypeOK, Inodes
  <1>3. ShownOK'
    BY <1>0, OwnIsRecord, HolderIsAlone
    DEF StartService, Goto, local, files, Overlaps, ShownOK, Holding, Shown, Owning, TypeOK
  <1>4. NewcomersOK'
    BY <1>0, HolderIsAlone
    DEF StartService, Goto, local, files, Overlaps, NewcomersOK, Holding, Shown, Owning, TypeOK
  <1> QED BY <1>1, <1>2, <1>3, <1>4 DEF Calm

LEMMA CalmOpenLock ==
  ASSUME IInv, IInv', StartedOK, Calm, NEW p \in Services, Runs(p), OpenLock(p), faults'.overlap = 0
  PROVE  Calm'
  <1>0. TypeOK /\ TypeOK' /\ RecordsOK /\ InTurn /\ LocksOK /\ ShownOK /\ NewcomersOK
    BY DEF IInv, Calm
  <1>1. InTurn'
    BY <1>0
    DEF OpenLock, Goto, InTurn, Acquiring, Owning, Dropping, TypeOK
  <1>2. LocksOK'
    BY <1>0
    DEF OpenLock, Goto, LocksOK, Opened, Holding, Shown, Acquiring, Owning, Dropping, TypeOK, Inodes
  <1>3. ShownOK'
    BY <1>0, OwnIsRecord, HolderIsAlone
    DEF OpenLock, Goto, ShownOK, Holding, Shown, Owning, TypeOK
  <1>4. NewcomersOK'
    BY <1>0, HolderIsAlone
    DEF OpenLock, Goto, NewcomersOK, Holding, Shown, Owning, TypeOK
  <1> QED BY <1>1, <1>2, <1>3, <1>4 DEF Calm

LEMMA CalmTryLock ==
  ASSUME IInv, IInv', StartedOK, Calm, NEW p \in Services, Runs(p), TryLock(p), faults'.overlap = 0
  PROVE  Calm'
  <1>0. TypeOK /\ TypeOK' /\ RecordsOK /\ InTurn /\ LocksOK /\ ShownOK /\ NewcomersOK
    BY DEF IInv, Calm
  <1>1. InTurn'
    BY <1>0
    DEF TryLock, Goto, local, InTurn, Acquiring, Owning, Dropping, TypeOK
  <1>2. LocksOK'
    BY <1>0, OwnershipAssumption
    DEF TryLock, Goto, local, LocksOK, Opened, Holding, Shown, Acquiring, Owning, Dropping, TypeOK, Inodes, OwnershipAssumption, Processes
  <1>3. ShownOK'
    BY <1>0, OwnIsRecord, HolderIsAlone
    DEF TryLock, Goto, local, ShownOK, Holding, Shown, Owning, TypeOK
  <1>4. NewcomersOK'
    BY <1>0, HolderIsAlone
    DEF TryLock, Goto, local, NewcomersOK, Holding, Shown, Owning, TypeOK
  <1> QED BY <1>1, <1>2, <1>3, <1>4 DEF Calm

LEMMA CalmReadHeartbeat ==
  ASSUME IInv, IInv', StartedOK, Calm, NEW p \in Services, Runs(p), ReadHeartbeat(p), faults'.overlap = 0
  PROVE  Calm'
  <1>0. TypeOK /\ TypeOK' /\ RecordsOK /\ InTurn /\ LocksOK /\ ShownOK /\ NewcomersOK
    BY DEF IInv, Calm
  <1>1. InTurn'
    BY <1>0
    DEF ReadHeartbeat, Goto, files, InTurn, Acquiring, Owning, Dropping, TypeOK
  <1>2. LocksOK'
    BY <1>0
    DEF ReadHeartbeat, Goto, files, LocksOK, Opened, Holding, Shown, Acquiring, Owning, Dropping, TypeOK, Inodes
  <1>3. ShownOK'
    BY <1>0, OwnIsRecord, HolderIsAlone
    DEF ReadHeartbeat, Goto, files, ShownOK, Holding, Shown, Owning, TypeOK
  <1>4. NewcomersOK'
    BY <1>0, HolderIsAlone
    DEF ReadHeartbeat, Goto, files, NewcomersOK, Holding, Shown, Owning, TypeOK, InTurn, Acquiring, ShownOK
  <1> QED BY <1>1, <1>2, <1>3, <1>4 DEF Calm

\* A newcomer that has read the heartbeat of a live process of its lineage recognises it.
LEMMA WriterIsRecognised ==
  ASSUME OneLineage, IInv, NEW p \in Services, seen[p] # NoRecord, Alive(seen[p].start)
  PROVE  MatchesLiveProcess(p, seen[p])
  BY DEF IInv, TypeOK, RecordsOK, Record, RecordOK, Alive, OneLineage, MatchesLiveProcess,
     Processes

\* A process that has the lock goes on to claim, and one that has not tries again.
LEMMA CalmKill ==
  ASSUME IInv, IInv', Calm, NEW p \in Services, NEW label \in {"claim", "retry"}, pc[p] = "decide",
         KillPeer(p, label), label = "claim" => HoldsLock(p)
  PROVE  Calm'
  <1>0. TypeOK /\ TypeOK' /\ InTurn /\ LocksOK /\ ShownOK /\ NewcomersOK
    BY DEF IInv, Calm
  <1>1. PICK q \in Processes \ {p} : Ends(q, [pc EXCEPT ![p] = label])
    BY DEF KillPeer
  <1>2. /\ pc' = [r \in Services |-> IF r = q THEN "ended" ELSE IF r = p THEN label ELSE pc[r]]
        /\ writer' = [r \in Services |-> IF r = q THEN "off" ELSE writer[r]]
        /\ holder' = [i \in Inodes |-> IF holder[i] = q THEN Nobody ELSE holder[i]]
        /\ UNCHANGED <<fd, seen, lock, heartbeat, tmp>>
    BY <1>0, <1>1 DEF Ends, KillPeer, TypeOK
  <1>3. InTurn'
    BY <1>0, <1>1, <1>2 DEF InTurn, Acquiring, Owning
  <1>4. LocksOK'
    BY <1>0, <1>1, <1>2 DEF LocksOK, HoldsLock, Opened, Holding, Shown, Owning, TypeOK, Inodes
  <1>5. ShownOK'
    BY <1>0, <1>1, <1>2 DEF ShownOK, Shown, Owning
  <1>6. NewcomersOK'
    BY <1>0, <1>1, <1>2 DEF LocksOK, HoldsLock, Opened, NewcomersOK, InTurn, Acquiring, Holding,
       Shown, Owning
  <1> QED BY <1>3, <1>4, <1>5, <1>6 DEF Calm

LEMMA CalmDecide ==
  ASSUME OneLineage, IInv, IInv', StartedOK, Calm, NEW p \in Services, Runs(p), Decide(p)
  PROVE  Calm'
  <1>0. /\ TypeOK /\ TypeOK' /\ InTurn /\ LocksOK /\ ShownOK /\ NewcomersOK
        /\ pc[p] = "decide"
    BY DEF IInv, Calm, Decide
  <1>1. CASE Step(p, "claim") /\ HoldsLock(p)
    <2>1. \A r \in Services \ {p} : pc[r] \notin Holding
      BY <1>0, <1>1 DEF LocksOK, HoldsLock, Opened
    <2>2. /\ pc' = [pc EXCEPT ![p] = "claim"]
          /\ UNCHANGED <<writer, fd, seen, lock, holder, heartbeat, tmp>>
      BY <1>1 DEF Step, Goto, local, files
    <2>3. InTurn'
      BY <1>0, <2>2 DEF InTurn, Acquiring, Owning, TypeOK
    <2>4. LocksOK'
      BY <1>0, <1>1, <2>2 DEF LocksOK, HoldsLock, Opened, Holding, Shown, Owning, TypeOK
    <2>5. ShownOK'
      BY <1>0, <2>2 DEF ShownOK, Shown, Owning, TypeOK
    <2>6. NewcomersOK'
      BY <1>0, <2>1, <2>2 DEF NewcomersOK, InTurn, Acquiring, Holding, Shown, Owning, TypeOK
    <2> QED BY <2>3, <2>4, <2>5, <2>6 DEF Calm
  <1>2. CASE Step(p, "retry")
    BY <1>0, <1>2
    DEF Step, Goto, local, files, Calm, InTurn, LocksOK, ShownOK, NewcomersOK, Opened, Holding, Shown,
        Acquiring, Owning, TypeOK
  <1>3. CASE Step(p, "evict") /\ seen[p] # NoRecord /\ ~MatchesLiveProcess(p, seen[p])
    <2>1. \A r \in Services \ {p} : pc[r] \notin Holding
      <3> SUFFICES ASSUME NEW r \in Services \ {p}, pc[r] \in Holding PROVE FALSE
        OBVIOUS
      <3>1. seen[p].start = r /\ Alive(r)
        BY <1>0, <1>3 DEF NewcomersOK, StartedOK, Holding, Shown, Owning
      <3> QED BY <1>3, <3>1, WriterIsRecognised
    <2>2. /\ pc' = [pc EXCEPT ![p] = "evict"]
          /\ UNCHANGED <<writer, fd, seen, lock, holder, heartbeat, tmp>>
      BY <1>3 DEF Step, Goto, local, files
    <2>3. InTurn'
      BY <1>0, <2>2 DEF InTurn, Acquiring, Owning, TypeOK
    <2>4. LocksOK'
      BY <1>0, <2>2 DEF LocksOK, Opened, Holding, Shown, Owning, TypeOK
    <2>5. ShownOK'
      BY <1>0, <2>2 DEF ShownOK, Shown, Owning, TypeOK
    <2>6. NewcomersOK'
      BY <1>0, <2>1, <2>2 DEF NewcomersOK, Holding, Shown, Owning, TypeOK
    <2> QED BY <2>3, <2>4, <2>5, <2>6 DEF Calm
  <1>4. CASE Fail(p)
    BY <1>0, <1>4
    DEF Fail, Ends, Calm, InTurn, LocksOK, ShownOK, NewcomersOK, Opened, Holding, Shown, Acquiring, Owning,
        TypeOK, Inodes
  <1>5. CASE KillPeer(p, "claim") /\ HoldsLock(p)
    BY <1>0, <1>5, CalmKill
  <1>6. CASE KillPeer(p, "retry")
    BY <1>0, <1>6, CalmKill
  <1> QED BY <1>1, <1>2, <1>3, <1>4, <1>5, <1>6 DEF Decide, DecideWinner, DecideBlocked

LEMMA CalmRetry ==
  ASSUME IInv, IInv', StartedOK, Calm, NEW p \in Services, Runs(p), Retry(p), faults'.overlap = 0
  PROVE  Calm'
  <1>0. TypeOK /\ TypeOK' /\ RecordsOK /\ InTurn /\ LocksOK /\ ShownOK /\ NewcomersOK
    BY DEF IInv, Calm
  <1>1. InTurn'
    BY <1>0
    DEF Retry, Step, Fail, Ends, Goto, local, files, InTurn, Acquiring, Owning, Dropping, TypeOK
  <1>2. LocksOK'
    BY <1>0
    DEF Retry, Step, Fail, Ends, Goto, local, files, LocksOK, Opened, Holding, Shown, Acquiring, Owning, Dropping, TypeOK, Inodes
  <1>3. ShownOK'
    BY <1>0, OwnIsRecord, HolderIsAlone
    DEF Retry, Step, Fail, Ends, Goto, local, files, ShownOK, Holding, Shown, Owning, TypeOK
  <1>4. NewcomersOK'
    BY <1>0, HolderIsAlone
    DEF Retry, Step, Fail, Ends, Goto, local, files, NewcomersOK, Holding, Shown, Owning, TypeOK
  <1> QED BY <1>1, <1>2, <1>3, <1>4 DEF Calm

LEMMA CalmEvictHeartbeat ==
  ASSUME IInv, IInv', StartedOK, Calm, NEW p \in Services, Runs(p), EvictHeartbeat(p), faults'.overlap = 0
  PROVE  Calm'
  <1>0. TypeOK /\ TypeOK' /\ RecordsOK /\ InTurn /\ LocksOK /\ ShownOK /\ NewcomersOK
    BY DEF IInv, Calm
  <1>1. InTurn'
    BY <1>0
    DEF EvictHeartbeat, Goto, HoldsLock, InTurn, Acquiring, Owning, Dropping, TypeOK
  <1>2. LocksOK'
    BY <1>0
    DEF EvictHeartbeat, Goto, HoldsLock, LocksOK, Opened, Holding, Shown, Acquiring, Owning, Dropping, TypeOK, Inodes
  <1>3. ShownOK'
    BY <1>0, OwnIsRecord, HolderIsAlone
    DEF EvictHeartbeat, Goto, HoldsLock, ShownOK, Holding, Shown, Owning, TypeOK, NewcomersOK
  <1>4. NewcomersOK'
    BY <1>0, HolderIsAlone
    DEF EvictHeartbeat, Goto, HoldsLock, NewcomersOK, Holding, Shown, Owning, TypeOK, InTurn, Acquiring
  <1> QED BY <1>1, <1>2, <1>3, <1>4 DEF Calm

LEMMA CalmEvictLock ==
  ASSUME IInv, IInv', StartedOK, Calm, NEW p \in Services, Runs(p), EvictLock(p), faults'.overlap = 0
  PROVE  Calm'
  <1>0. TypeOK /\ TypeOK' /\ RecordsOK /\ InTurn /\ LocksOK /\ ShownOK /\ NewcomersOK
    BY DEF IInv, Calm
  <1>1. InTurn'
    BY <1>0
    DEF EvictLock, Goto, local, InTurn, Acquiring, Owning, Dropping, TypeOK
  <1>2. LocksOK'
    BY <1>0
    DEF EvictLock, Goto, local, LocksOK, Opened, Holding, Shown, Acquiring, Owning, Dropping, TypeOK, Inodes, InTurn, NewcomersOK
  <1>3. ShownOK'
    BY <1>0, OwnIsRecord, HolderIsAlone
    DEF EvictLock, Goto, local, ShownOK, Holding, Shown, Owning, TypeOK
  <1>4. NewcomersOK'
    BY <1>0, HolderIsAlone
    DEF EvictLock, Goto, local, NewcomersOK, Holding, Shown, Owning, TypeOK
  <1> QED BY <1>1, <1>2, <1>3, <1>4 DEF Calm

LEMMA CalmClaim ==
  ASSUME IInv, IInv', StartedOK, Calm, NEW p \in Services, Runs(p), Claim(p), faults'.overlap = 0
  PROVE  Calm'
  <1>0. TypeOK /\ TypeOK' /\ RecordsOK /\ InTurn /\ LocksOK /\ ShownOK /\ NewcomersOK
    BY DEF IInv, Calm
  <1>1. InTurn'
    BY <1>0
    DEF Claim, WriteTmp, Goto, InTurn, Acquiring, Owning, Dropping, TypeOK
  <1>2. LocksOK'
    BY <1>0
    DEF Claim, WriteTmp, Goto, LocksOK, Opened, Holding, Shown, Acquiring, Owning, Dropping, TypeOK, Inodes
  <1>3. ShownOK'
    BY <1>0, OwnIsRecord, HolderIsAlone
    DEF Claim, WriteTmp, Goto, ShownOK, Holding, Shown, Owning, TypeOK
  <1>4. NewcomersOK'
    BY <1>0, HolderIsAlone
    DEF Claim, WriteTmp, Goto, NewcomersOK, Holding, Shown, Owning, TypeOK
  <1> QED BY <1>1, <1>2, <1>3, <1>4 DEF Calm

LEMMA CalmPublish ==
  ASSUME IInv, IInv', StartedOK, Calm, NEW p \in Services, Runs(p), Publish(p), faults'.overlap = 0
  PROVE  Calm'
  <1>0. TypeOK /\ TypeOK' /\ RecordsOK /\ InTurn /\ LocksOK /\ ShownOK /\ NewcomersOK
    BY DEF IInv, Calm
  <1>1. InTurn'
    BY <1>0
    DEF Publish, RenameTmp, Fail, Ends, Goto, InTurn, Acquiring, Owning, Dropping, TypeOK
  <1>2. LocksOK'
    BY <1>0
    DEF Publish, RenameTmp, Fail, Ends, Goto, LocksOK, Opened, Holding, Shown, Acquiring, Owning, Dropping, TypeOK, Inodes
  <1>3. ShownOK'
    BY <1>0, OwnIsRecord, HolderIsAlone
    DEF Publish, RenameTmp, Fail, Ends, Goto, ShownOK, Holding, Shown, Owning, TypeOK
  <1>4. NewcomersOK'
    BY <1>0, HolderIsAlone
    DEF Publish, RenameTmp, Fail, Ends, Goto, NewcomersOK, Holding, Shown, Owning, TypeOK
  <1> QED BY <1>1, <1>2, <1>3, <1>4 DEF Calm

LEMMA CalmBind ==
  ASSUME IInv, IInv', StartedOK, Calm, NEW p \in Services, Runs(p), Bind(p), faults'.overlap = 0
  PROVE  Calm'
  <1>0. TypeOK /\ TypeOK' /\ RecordsOK /\ InTurn /\ LocksOK /\ ShownOK /\ NewcomersOK
    BY DEF IInv, Calm
  <1>1. InTurn'
    BY <1>0
    DEF Bind, Step, Error, Goto, local, files, InTurn, Acquiring, Owning, Dropping, TypeOK
  <1>2. LocksOK'
    BY <1>0
    DEF Bind, Step, Error, Goto, local, files, LocksOK, Opened, Holding, Shown, Acquiring, Owning, Dropping, TypeOK, Inodes
  <1>3. ShownOK'
    BY <1>0, OwnIsRecord, HolderIsAlone
    DEF Bind, Step, Error, Goto, local, files, ShownOK, Holding, Shown, Owning, TypeOK
  <1>4. NewcomersOK'
    BY <1>0, HolderIsAlone
    DEF Bind, Step, Error, Goto, local, files, NewcomersOK, Holding, Shown, Owning, TypeOK
  <1> QED BY <1>1, <1>2, <1>3, <1>4 DEF Calm

LEMMA CalmRefresh ==
  ASSUME IInv, IInv', StartedOK, Calm, NEW p \in Services, Runs(p), Refresh(p), faults'.overlap = 0
  PROVE  Calm'
  <1>0. TypeOK /\ TypeOK' /\ RecordsOK /\ InTurn /\ LocksOK /\ ShownOK /\ NewcomersOK
    BY DEF IInv, Calm
  <1>1. InTurn'
    BY <1>0
    DEF Refresh, Step, WriteTmp, Goto, local, files, InTurn, Acquiring, Owning, Dropping, TypeOK
  <1>2. LocksOK'
    BY <1>0
    DEF Refresh, Step, WriteTmp, Goto, local, files, LocksOK, Opened, Holding, Shown, Acquiring, Owning, Dropping, TypeOK, Inodes
  <1>3. ShownOK'
    BY <1>0, OwnIsRecord, HolderIsAlone
    DEF Refresh, Step, WriteTmp, Goto, local, files, ShownOK, Holding, Shown, Owning, TypeOK
  <1>4. NewcomersOK'
    BY <1>0, HolderIsAlone
    DEF Refresh, Step, WriteTmp, Goto, local, files, NewcomersOK, Holding, Shown, Owning, TypeOK
  <1> QED BY <1>1, <1>2, <1>3, <1>4 DEF Calm

LEMMA CalmRefreshPublish ==
  ASSUME IInv, IInv', StartedOK, Calm, NEW p \in Services, Runs(p), RefreshPublish(p), faults'.overlap = 0
  PROVE  Calm'
  <1>0. TypeOK /\ TypeOK' /\ RecordsOK /\ InTurn /\ LocksOK /\ ShownOK /\ NewcomersOK
    BY DEF IInv, Calm
  <1>1. InTurn'
    BY <1>0
    DEF RefreshPublish, Step, RenameTmp, Goto, local, files, InTurn, Acquiring, Owning, Dropping, TypeOK
  <1>2. LocksOK'
    BY <1>0
    DEF RefreshPublish, Step, RenameTmp, Goto, local, files, LocksOK, Opened, Holding, Shown, Acquiring, Owning, Dropping, TypeOK, Inodes
  <1>3. ShownOK'
    BY <1>0, OwnIsRecord, HolderIsAlone
    DEF RefreshPublish, Step, RenameTmp, Goto, local, files, ShownOK, Holding, Shown, Owning, TypeOK
  <1>4. NewcomersOK'
    BY <1>0, HolderIsAlone
    DEF RefreshPublish, Step, RenameTmp, Goto, local, files, NewcomersOK, Holding, Shown, Owning, TypeOK
  <1> QED BY <1>1, <1>2, <1>3, <1>4 DEF Calm

LEMMA CalmAcceptFails ==
  ASSUME IInv, IInv', StartedOK, Calm, NEW p \in Services, Runs(p), AcceptFails(p), faults'.overlap = 0
  PROVE  Calm'
  <1>0. TypeOK /\ TypeOK' /\ RecordsOK /\ InTurn /\ LocksOK /\ ShownOK /\ NewcomersOK
    BY DEF IInv, Calm
  <1>1. InTurn'
    BY <1>0
    DEF AcceptFails, Error, Goto, local, files, InTurn, Acquiring, Owning, Dropping, TypeOK
  <1>2. LocksOK'
    BY <1>0
    DEF AcceptFails, Error, Goto, local, files, LocksOK, Opened, Holding, Shown, Acquiring, Owning, Dropping, TypeOK, Inodes
  <1>3. ShownOK'
    BY <1>0, OwnIsRecord, HolderIsAlone
    DEF AcceptFails, Error, Goto, local, files, ShownOK, Holding, Shown, Owning, TypeOK
  <1>4. NewcomersOK'
    BY <1>0, HolderIsAlone
    DEF AcceptFails, Error, Goto, local, files, NewcomersOK, Holding, Shown, Owning, TypeOK
  <1> QED BY <1>1, <1>2, <1>3, <1>4 DEF Calm

LEMMA CalmDrop ==
  ASSUME IInv, IInv', StartedOK, Calm, NEW p \in Services, Runs(p), Drop(p), faults'.overlap = 0
  PROVE  Calm'
  <1>0. TypeOK /\ TypeOK' /\ RecordsOK /\ InTurn /\ LocksOK /\ ShownOK /\ NewcomersOK
    BY DEF IInv, Calm
  <1>1. InTurn'
    BY <1>0
    DEF Drop, Overlaps, Goto, files, InTurn, Acquiring, Owning, Dropping, TypeOK
  <1>2. LocksOK'
    BY <1>0
    DEF Drop, Overlaps, Goto, files, LocksOK, Opened, Holding, Shown, Acquiring, Owning, Dropping, TypeOK, Inodes
  <1>3. ShownOK'
    <2>1. heartbeat.pid = pid[p]
      BY <1>0 DEF Drop, Runs, Alive, ShownOK, Shown, RecordsOK, RecordOK
    <2>2. pc' = [pc EXCEPT ![p] = "dropRemove"] /\ UNCHANGED <<tmp, heartbeat>>
      BY <2>1 DEF Drop, Goto, files
    <2> QED BY <1>0, <2>2 DEF Drop, ShownOK, Shown, Owning, TypeOK
  <1>4. NewcomersOK'
    BY <1>0, HolderIsAlone
    DEF Drop, Overlaps, Goto, files, NewcomersOK, Holding, Shown, Owning, TypeOK
  <1> QED BY <1>1, <1>2, <1>3, <1>4 DEF Calm

LEMMA CalmDropRemove ==
  ASSUME IInv, IInv', StartedOK, Calm, NEW p \in Services, Runs(p), DropRemove(p), faults'.overlap = 0
  PROVE  Calm'
  <1>0. TypeOK /\ TypeOK' /\ RecordsOK /\ InTurn /\ LocksOK /\ ShownOK /\ NewcomersOK
    BY DEF IInv, Calm
  <1>1. InTurn'
    BY <1>0
    DEF DropRemove, Goto, local, InTurn, Acquiring, Owning, Dropping, TypeOK
  <1>2. LocksOK'
    BY <1>0
    DEF DropRemove, Goto, local, LocksOK, Opened, Holding, Shown, Acquiring, Owning, Dropping, TypeOK, Inodes
  <1>3. ShownOK'
    BY <1>0, OwnIsRecord, HolderIsAlone
    DEF DropRemove, Goto, local, ShownOK, Holding, Shown, Owning, TypeOK
  <1>4. NewcomersOK'
    BY <1>0, HolderIsAlone
    DEF DropRemove, Goto, local, NewcomersOK, Holding, Shown, Owning, TypeOK
  <1> QED BY <1>1, <1>2, <1>3, <1>4 DEF Calm

LEMMA CalmDropUnlock ==
  ASSUME IInv, IInv', StartedOK, Calm, NEW p \in Services, Runs(p), DropUnlock(p), faults'.overlap = 0
  PROVE  Calm'
  <1>0. TypeOK /\ TypeOK' /\ RecordsOK /\ InTurn /\ LocksOK /\ ShownOK /\ NewcomersOK
    BY DEF IInv, Calm
  <1>1. InTurn'
    BY <1>0
    DEF DropUnlock, Goto, local, InTurn, Acquiring, Owning, Dropping, TypeOK
  <1>2. LocksOK'
    BY <1>0
    DEF DropUnlock, Goto, local, LocksOK, Opened, Holding, Shown, Acquiring, Owning, Dropping, TypeOK, Inodes
  <1>3. ShownOK'
    BY <1>0, OwnIsRecord, HolderIsAlone
    DEF DropUnlock, Goto, local, ShownOK, Holding, Shown, Owning, TypeOK
  <1>4. NewcomersOK'
    BY <1>0, HolderIsAlone
    DEF DropUnlock, Goto, local, NewcomersOK, Holding, Shown, Owning, TypeOK
  <1> QED BY <1>1, <1>2, <1>3, <1>4 DEF Calm

LEMMA CalmExit ==
  ASSUME IInv, IInv', StartedOK, Calm, NEW p \in Services, Runs(p), Exit(p), faults'.overlap = 0
  PROVE  Calm'
  <1>0. TypeOK /\ TypeOK' /\ RecordsOK /\ InTurn /\ LocksOK /\ ShownOK /\ NewcomersOK
    BY DEF IInv, Calm
  <1>1. InTurn'
    BY <1>0
    DEF Exit, Fail, Ends, InTurn, Acquiring, Owning, Dropping, TypeOK
  <1>2. LocksOK'
    BY <1>0
    DEF Exit, Fail, Ends, LocksOK, Opened, Holding, Shown, Acquiring, Owning, Dropping, TypeOK, Inodes
  <1>3. ShownOK'
    BY <1>0, OwnIsRecord, HolderIsAlone
    DEF Exit, Fail, Ends, ShownOK, Holding, Shown, Owning, TypeOK
  <1>4. NewcomersOK'
    BY <1>0, HolderIsAlone
    DEF Exit, Fail, Ends, NewcomersOK, Holding, Shown, Owning, TypeOK
  <1> QED BY <1>1, <1>2, <1>3, <1>4 DEF Calm

LEMMA CalmWriterWakes ==
  ASSUME IInv, IInv', StartedOK, Calm, NEW p \in Services, Runs(p), WriterWakes(p), faults'.overlap = 0
  PROVE  Calm'
  <1>0. TypeOK /\ TypeOK' /\ RecordsOK /\ InTurn /\ LocksOK /\ ShownOK /\ NewcomersOK
    BY DEF IInv, Calm
  <1>1. InTurn'
    BY <1>0
    DEF WriterWakes, files, InTurn, Acquiring, Owning, Dropping, TypeOK
  <1>2. LocksOK'
    BY <1>0
    DEF WriterWakes, files, LocksOK, Opened, Holding, Shown, Acquiring, Owning, Dropping, TypeOK, Inodes
  <1>3. ShownOK'
    BY <1>0, OwnIsRecord, HolderIsAlone
    DEF WriterWakes, files, ShownOK, Holding, Shown, Owning, TypeOK
  <1>4. NewcomersOK'
    BY <1>0, HolderIsAlone
    DEF WriterWakes, files, NewcomersOK, Holding, Shown, Owning, TypeOK
  <1> QED BY <1>1, <1>2, <1>3, <1>4 DEF Calm

LEMMA CalmWriterWrites ==
  ASSUME IInv, IInv', StartedOK, Calm, NEW p \in Services, Runs(p), WriterWrites(p), faults'.overlap = 0
  PROVE  Calm'
  <1>0. TypeOK /\ TypeOK' /\ RecordsOK /\ InTurn /\ LocksOK /\ ShownOK /\ NewcomersOK
    BY DEF IInv, Calm
  <1>1. InTurn'
    BY <1>0
    DEF WriterWrites, WriteTmp, InTurn, Acquiring, Owning, Dropping, TypeOK
  <1>2. LocksOK'
    BY <1>0
    DEF WriterWrites, WriteTmp, LocksOK, Opened, Holding, Shown, Acquiring, Owning, Dropping, TypeOK, Inodes
  <1>3. ShownOK'
    BY <1>0, OwnIsRecord, HolderIsAlone
    DEF WriterWrites, WriteTmp, ShownOK, Holding, Shown, Owning, TypeOK, InTurn
  <1>4. NewcomersOK'
    BY <1>0, HolderIsAlone
    DEF WriterWrites, WriteTmp, NewcomersOK, Holding, Shown, Owning, TypeOK
  <1> QED BY <1>1, <1>2, <1>3, <1>4 DEF Calm

LEMMA CalmWriterPublishes ==
  ASSUME IInv, IInv', StartedOK, Calm, NEW p \in Services, Runs(p), WriterPublishes(p), faults'.overlap = 0
  PROVE  Calm'
  <1>0. TypeOK /\ TypeOK' /\ RecordsOK /\ InTurn /\ LocksOK /\ ShownOK /\ NewcomersOK
    BY DEF IInv, Calm
  <1>1. InTurn'
    BY <1>0
    DEF WriterPublishes, RenameTmp, files, InTurn, Acquiring, Owning, Dropping, TypeOK
  <1>2. LocksOK'
    BY <1>0
    DEF WriterPublishes, RenameTmp, files, LocksOK, Opened, Holding, Shown, Acquiring, Owning, Dropping, TypeOK, Inodes
  <1>3. ShownOK'
    BY <1>0, OwnIsRecord, HolderIsAlone
    DEF WriterPublishes, RenameTmp, files, ShownOK, Holding, Shown, Owning, TypeOK, InTurn
  <1>4. NewcomersOK'
    BY <1>0, HolderIsAlone
    DEF WriterPublishes, RenameTmp, files, NewcomersOK, Holding, Shown, Owning, TypeOK
  <1> QED BY <1>1, <1>2, <1>3, <1>4 DEF Calm

LEMMA CalmCrash ==
  ASSUME IInv, IInv', StartedOK, Calm, NEW p \in Services, Crash(p), faults'.overlap = 0
  PROVE  Calm'
  <1>0. TypeOK /\ TypeOK' /\ RecordsOK /\ InTurn /\ LocksOK /\ ShownOK /\ NewcomersOK
    BY DEF IInv, Calm
  <1>1. InTurn'
    BY <1>0
    DEF Crash, Ends, InTurn, Acquiring, Owning, Dropping, TypeOK
  <1>2. LocksOK'
    BY <1>0
    DEF Crash, Ends, LocksOK, Opened, Holding, Shown, Acquiring, Owning, Dropping, TypeOK, Inodes
  <1>3. ShownOK'
    BY <1>0, OwnIsRecord, HolderIsAlone
    DEF Crash, Ends, ShownOK, Holding, Shown, Owning, TypeOK
  <1>4. NewcomersOK'
    BY <1>0, HolderIsAlone
    DEF Crash, Ends, NewcomersOK, Holding, Shown, Owning, TypeOK
  <1> QED BY <1>1, <1>2, <1>3, <1>4 DEF Calm

\* The environment leaves it all alone, but for the age of the heartbeat.
LEMMA CalmEnvironment ==
  ASSUME IInv, Calm,
         \/ Stale
         \/ \E p \in Services : Deadline(p) \/ Hang(p) \/ Wake(p)
         \/ \E q \in Strangers : StartStranger(q)
  PROVE  Calm'
  <1>1. UNCHANGED <<pc, writer, fd, seen, lock, holder, tmp>>
    BY DEF Stale, Deadline, Hang, Wake, StartStranger, local, files
  <1>2. \/ heartbeat' = heartbeat
        \/ heartbeat \in Record /\ heartbeat' = [heartbeat EXCEPT !.fresh = FALSE]
    <2>1. CASE Stale
      BY <2>1 DEF Stale, IInv, TypeOK, NoRecord
    <2> QED BY <2>1 DEF Deadline, Hang, Wake, StartStranger, files
  <1>3. ShownOK'
    <2>1. CASE heartbeat' = heartbeat
      BY <1>1, <2>1 DEF Calm, ShownOK
    <2>2. CASE heartbeat \in Record /\ heartbeat' = [heartbeat EXCEPT !.fresh = FALSE]
      BY <2>2, OwnershipAssumption, <1>1 DEF Record, NoRecord, OwnershipAssumption, Processes,
         Calm, ShownOK
    <2> QED BY <1>2, <2>1, <2>2
  <1> QED BY <1>1, <1>3 DEF Calm, InTurn, LocksOK, NewcomersOK

\* Once two starts have overlapped, that is remembered.
LEMMA OverlapStays ==
  ASSUME IInv, [Next]_vars, faults'.overlap = 0 PROVE faults.overlap = 0
  <1>1. faults \in [crash : 0 .. MaxCrashes, hang : 0 .. MaxHangs, error : 0 .. MaxErrors, overlap : 0 .. 1]
    BY DEF IInv, TypeOK
  <1>2. CASE faults' = faults
    BY <1>2
  <1>3. ASSUME NEW now, Overlaps(now) PROVE faults.overlap = 0
    BY <1>1, <1>3 DEF Overlaps
  <1>4. ASSUME NEW p \in Services, NEW label, Error(p, label) PROVE faults.overlap = 0
    BY <1>1, <1>4 DEF Error
  <1>5. ASSUME NEW p \in Services, Crash(p) \/ Hang(p) PROVE faults.overlap = 0
    BY <1>1, <1>5 DEF Crash, Hang
  <1>6. ASSUME NEW p \in Services, Acquire(p) PROVE faults' = faults
    BY <1>6
    DEF Acquire, OpenLock, TryLock, ReadHeartbeat, Decide, DecideWinner, DecideBlocked, Retry, EvictHeartbeat,
        EvictLock, Claim, Publish, Step, Fail, KillPeer, WriteTmp, RenameTmp, world
  <1>7. ASSUME NEW p \in Services, Serve(p) PROVE faults.overlap = 0
    <2>1. CASE faults' = faults
      BY <2>1
    <2> QED BY <1>3, <1>4, <1>7, <2>1
      DEF Serve, Bind, Refresh, RefreshPublish, AcceptFails, Drop, DropRemove, DropUnlock, Exit, Step, Fail,
          WriteTmp, RenameTmp, world
  <1>8. ASSUME NEW p \in Services, Writer(p) \/ Deadline(p) \/ Wake(p) PROVE faults' = faults
    BY <1>8
    DEF Writer, WriterWakes, WriterWrites, WriterPublishes, WriteTmp, RenameTmp, Deadline, Wake, world
  <1>9. ASSUME Stale \/ \E q \in Strangers : StartStranger(q) PROVE faults' = faults
    BY <1>9 DEF Stale, StartStranger, world
  <1>10. ASSUME NEW p \in Services, StartService(p) PROVE faults.overlap = 0
    BY <1>3, <1>10 DEF StartService
  <1> QED BY <1>2, <1>5, <1>6, <1>7, <1>8, <1>9, <1>10 DEF Next, vars

\* A process has a pid from its start to its end.
LEMMA StartedStep ==
  ASSUME IInv, StartedOK, [Next]_vars PROVE StartedOK'
  <1>0. TypeOK
    BY DEF IInv
  <1>1. CASE pid' = pid /\ pc' = pc
    BY <1>1 DEF StartedOK, Alive
  <1>2. ASSUME NEW p \in Services, NEW label, Alive(p), pid' = pid, pc' = [pc EXCEPT ![p] = label]
        PROVE  StartedOK'
    BY <1>0, <1>2 DEF StartedOK, Alive, TypeOK
  <1>3. ASSUME NEW p \in Services, Ends(p, pc) PROVE StartedOK'
    BY <1>0, <1>3 DEF StartedOK, Alive, Ends, TypeOK, Processes
  <1>4. ASSUME NEW p \in Services, NEW label, Alive(p), KillPeer(p, label) PROVE StartedOK'
    BY <1>0, <1>4 DEF StartedOK, Alive, KillPeer, Ends, TypeOK, Processes
  <1>5. ASSUME NEW p \in Services, Runs(p), Acquire(p) PROVE StartedOK'
    <2>1. Alive(p)
      BY <1>5 DEF Runs
    <2> QED BY <1>2, <1>3, <1>4, <1>5, <2>1
      DEF Acquire, OpenLock, TryLock, ReadHeartbeat, Decide, DecideWinner, DecideBlocked, Retry, EvictHeartbeat,
          EvictLock, Claim, Publish, Step, Fail, WriteTmp, RenameTmp, Goto
  <1>6. ASSUME NEW p \in Services, Runs(p), Serve(p) PROVE StartedOK'
    <2>1. Alive(p)
      BY <1>6 DEF Runs
    <2> QED BY <1>2, <1>3, <1>6, <2>1
      DEF Serve, Bind, Refresh, RefreshPublish, AcceptFails, Drop, DropRemove, DropUnlock, Exit, Step, Fail,
          Error, WriteTmp, RenameTmp, Goto
  <1>7. ASSUME NEW p \in Services, Writer(p) \/ Deadline(p) \/ Hang(p) \/ Wake(p) PROVE StartedOK'
    BY <1>1, <1>7
    DEF Writer, WriterWakes, WriterWrites, WriterPublishes, WriteTmp, RenameTmp, Deadline, Hang, Wake
  <1>8. ASSUME NEW p \in Services, Crash(p) PROVE StartedOK'
    BY <1>3, <1>8 DEF Crash
  <1>9. ASSUME NEW p \in Services, StartService(p) PROVE StartedOK'
    BY <1>0, <1>9, OwnershipAssumption
    DEF StartService, TakesPid, Goto, StartedOK, Alive, TypeOK, Processes, OwnershipAssumption
  <1>10. ASSUME NEW q \in Strangers, StartStranger(q) PROVE StartedOK'
    BY <1>0, <1>10, OwnershipAssumption
    DEF StartStranger, TakesPid, StartedOK, Alive, TypeOK, Processes, OwnershipAssumption
  <1>11. CASE Stale
    BY <1>1, <1>11 DEF Stale
  <1> QED BY <1>1, <1>5, <1>6, <1>7, <1>8, <1>9, <1>10, <1>11 DEF Next, vars

\* So does every step of the specification.
LEMMA CalmStep ==
  ASSUME OneLineage, IInv, IInv', StartedOK, Calm, [Next]_vars, faults'.overlap = 0 PROVE Calm'
  <1>1. CASE UNCHANGED vars
    BY <1>1 DEF vars, Calm, InTurn, LocksOK, ShownOK, NewcomersOK
  <1>2. ASSUME NEW p \in Services, Runs(p), Acquire(p) PROVE Calm'
    BY <1>2, CalmOpenLock, CalmTryLock, CalmReadHeartbeat, CalmDecide, CalmRetry, CalmEvictHeartbeat,
       CalmEvictLock, CalmClaim, CalmPublish DEF Acquire
  <1>3. ASSUME NEW p \in Services, Runs(p), Serve(p) PROVE Calm'
    BY <1>3, CalmBind, CalmRefresh, CalmRefreshPublish, CalmAcceptFails, CalmDrop, CalmDropRemove,
       CalmDropUnlock, CalmExit DEF Serve
  <1>4. ASSUME NEW p \in Services, Runs(p), Writer(p) PROVE Calm'
    BY <1>4, CalmWriterWakes, CalmWriterWrites, CalmWriterPublishes DEF Writer
  <1>5. ASSUME NEW p \in Services, StartService(p) \/ Crash(p) PROVE Calm'
    BY <1>5, CalmStartService, CalmCrash
  <1> QED BY <1>1, <1>2, <1>3, <1>4, <1>5, CalmEnvironment DEF Next

\* While processes of one binary are started one after the other and no drop
\* meets a heartbeat write, whoever crashes, hangs, is killed or is bypassed, at
\* most one process owns the service of the database, and it holds the lock that
\* a newcomer opens (acquire_service_ownership_in, service_ownership.rs).
THEOREM OwnerIsSole ==
  ASSUME OneLineage PROVE Spec => []SoleOwnerAtPath
  <1>1. Init => CalmInv
    BY DEF Init, CalmInv, StartedOK, Calm, InTurn, LocksOK, ShownOK, NewcomersOK, Opened, Holding, Shown,
           Acquiring, Owning
  <1>2. IInv /\ IInv' /\ CalmInv /\ [Next]_vars => CalmInv'
    BY OverlapStays, StartedStep, CalmStep DEF CalmInv
  <1>3. IInv /\ CalmInv => SoleOwnerAtPath
    <2> SUFFICES ASSUME IInv, CalmInv, faults.overlap = 0 PROVE SoleOwner /\ OwnerHoldsThePath
      BY DEF SoleOwnerAtPath, IInv
    <2>1. Calm
      BY DEF CalmInv
    <2>2. \A p \in Services : Owns(p) => pc[p] \in Holding
      BY DEF Owns, Holding, Shown
    <2>3. SoleOwner
      BY <2>1, <2>2, HolderIsAlone DEF SoleOwner
    <2>4. OwnerHoldsThePath
      BY <2>1, <2>2 DEF OwnerHoldsThePath, HoldsLock, Calm, LocksOK, Opened
    <2> QED BY <2>3, <2>4
  <1> QED BY <1>1, <1>2, <1>3, Invariance, PTL DEF Spec
=============================================================================
