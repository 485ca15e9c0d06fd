-------------------------- MODULE MCRuntimeEffects --------------------------
(* Small instances of RuntimeEffects for TLC. *)
EXTENDS RuntimeEffects

\* Every effect is estimated at 2.
EstimateTwo == [e \in Effects |-> 2]

\* A provider reports less than the estimate, more than it, or nothing.
ReportedAny == {1, 3, Unknown}

ReportedOne == {1}
=============================================================================
