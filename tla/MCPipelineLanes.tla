--------------------------- MODULE MCPipelineLanes ---------------------------
(* Small instances of PipelineLanes for TLC. *)
EXTENDS PipelineLanes

Proposal(x, parent) == [payload |-> x, parent |-> parent]
LaneAdmission(c) == MaxInFlight[c.pipe.mode]

\* Two generations; the second one repeats a proposal of the first.
LanePayloads == {"p", "q", "r"}
LaneOrder == <<"p", "q", "r", "seed">>
LaneCapacity == [async_pipelined |-> 2, flash_evolve |-> 1]
LaneBatches ==
    (0 :> {<<Proposal("p", None), Proposal("q", None)>>}) @@
    (1 :> {<<Proposal("q", None)>>})
=============================================================================
