------------------------------ MODULE MCGepaRun ------------------------------
(* Small instances of GepaRun for TLC. *)
EXTENDS GepaRun

\* The serial pipeline admits every proposal (usize::MAX).
Unlimited(c) == Len(c.queue) + 1

Proposal(x, parent) == [payload |-> x, parent |-> parent]

\* Four payloads, of which z quotes a training label.  The first proposer turn
\* returns a leaky candidate and the same good one twice, or more candidates than
\* the budget can evaluate on all rows; the second one a candidate already seen.
PhasePayloads == {"p", "q", "r", "z"}
PhaseLeaky == {"z"}
PhaseOrder == <<"q", "seed", "z", "p", "r">>
PhaseBatches ==
    (0 :> {<<Proposal("z", None), Proposal("q", None), Proposal("q", "seed")>>,
           <<Proposal("p", None), Proposal("q", None), Proposal("r", None)>>}) @@
    (1 :> {<<Proposal("q", "seed")>>})
=============================================================================
