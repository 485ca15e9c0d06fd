---------------------------- MODULE BudgetLedger ----------------------------
(***************************************************************************)
(* The budget ledger of a run, as SQL computes it from the rows of          *)
(* budget_reservations and budget_commits                                   *)
(* (workspace.rs budget_ledger_snapshot, limits.rs BudgetLedgerSnapshot).   *)
(*                                                                          *)
(* One dimension is kept, the cost: it is the only one whose spend may be   *)
(* unknown (NULL).  Tokens, rollouts and seconds follow the same arithmetic *)
(* without that case.                                                       *)
(***************************************************************************)
EXTENDS Integers, FiniteSetsExt

CONSTANTS
    MaxCost,   \* run limit max_cost_usd
    NoLimit,   \* the value of MaxCost when the run has none
    Unknown    \* a NULL cost_usd

ASSUME LedgerAssumption ==
    /\ MaxCost \in Nat \cup {NoLimit}
    /\ NoLimit \notin Int /\ Unknown \notin Int

Cost == Nat \cup {Unknown}

\* A reservation row, by its status, and the cost it holds.  "absent": no row.
ReservationStatus == {"absent", "reserved", "committed", "failed", "cancelled"}

\* A commit row: whether it is there, and its cost_usd.
Commit == [there : BOOLEAN, cost : Cost]

NoCommit      == [there |-> FALSE, cost |-> 0]
CommitOf(c)   == [there |-> TRUE, cost |-> c]

-----------------------------------------------------------------------------
(* budget_ledger_snapshot.  commit and held are functions on the effects of
   the run; held[e] is the cost that e's reservation keeps aside. *)

\* SUM(cost_usd) when every commit has one, NULL otherwise.
SpentCost(commit) ==
    LET rows == {e \in DOMAIN commit : commit[e].there}
    IN  IF \E e \in rows : commit[e].cost = Unknown THEN Unknown
        ELSE SumFunctionOnSet([e \in rows |-> commit[e].cost], rows)

\* Only the reservations that are still active count.
HeldCost(reservation, estimate) ==
    SumFunctionOnSet(estimate, {e \in DOMAIN reservation : reservation[e] = "reserved"})

\* What the limit checks compare: spent + reserved, unknown when spent is.
Current(commit, reservation, estimate) ==
    LET spent == SpentCost(commit)
    IN  IF spent = Unknown THEN Unknown ELSE spent + HeldCost(reservation, estimate)

\* breach_for_request: nothing is admitted at the limit, beyond it, or while
\* the spend is unknown.
BreachForRequest(current, requested) ==
    /\ MaxCost # NoLimit
    /\ \/ current = Unknown
       \/ current # Unknown /\ (current >= MaxCost \/ requested > MaxCost - current)

\* exceeded_limit, looked at after every settlement.
ExceededLimit(current) ==
    /\ MaxCost # NoLimit
    /\ \/ current = Unknown
       \/ current # Unknown /\ current > MaxCost

\* settled_effect_cost: the reported cost, or the reserved ceiling when the
\* effect completed without one, or unknown.
SettledEffectCost(status, reported, reserved) ==
    IF reported # Unknown THEN reported
    ELSE IF status = "completed" THEN reserved ELSE Unknown
=============================================================================
