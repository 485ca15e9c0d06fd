------------------------- MODULE MCServiceOwnership -------------------------
(* Instance of ServiceOwnership for TLC. *)
EXTENDS ServiceOwnership

CONSTANTS s1, s2, other, n1, n2

OneBinary == [p \in Processes |-> IF p \in Services THEN "v1" ELSE "other"]

=============================================================================
