---------------------------- MODULE MCRunService ----------------------------
(* Small instances of RunService for TLC. *)
EXTENDS RunService, TLC

AllWorkers == Slots \cup {ManualWorker}

\* Every request in its own cache namespace, or the first two in one.
OwnNamespaces  == [r \in Requests |-> Unshared]
PairNamespaces == [r \in Requests |-> IF r \in {1, 2} THEN 1 ELSE Unshared]

\* The control run starts two instances.  In the first one request is queued, a step
\* call and all other calls come, and the process does not end; in the second all of
\* Submitted is queued, every step call and no other call comes, and the process may end.
MCInit ==
    /\ \E calling \in BOOLEAN, p \in Steps :
         /\ row = [r \in Requests |-> IF r \in (IF calling THEN {1} ELSE Submitted)
                                        THEN SubmitRunConfig(FALSE) ELSE AbsentRow]
         /\ call = [c \in Calls |-> CallAt(IF calling THEN "fresh" ELSE "done", NoRequest)]
         /\ tick = [t \in Threads |-> CASE t \in Slots -> Resting("idle")
                                        [] t \in Steps /\ (calling => t = p) -> Resting("fresh")
                                        [] OTHER -> Resting("done")]
         /\ crashes = IF calling THEN MaxCrashes ELSE 0
    /\ res = [r \in Requests |-> {}]
    /\ cursor = [r \in Requests |-> NoCursor]
    /\ service = "up"
    /\ expiries = 0

MCSpec == MCInit /\ [][Next]_vars

\* Step calls, and other calls, do not differ from one another.
Alike == Permutations(Steps) \cup Permutations(Calls)
=============================================================================
