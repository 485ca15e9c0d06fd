---------------------------- MODULE TransitionLog ----------------------------
(***************************************************************************)
(* The entity tables of the transition log (transitions.sqlite): which next *)
(* states machines.rs allows to a candidate and to a proposer round, which  *)
(* ones state_machine.rs allows to the run, and what fsm.rs does with a     *)
(* transition: refuse it, or make it the latest state of the entity.        *)
(***************************************************************************)
EXTENDS Naturals, Sequences, FiniteSets

\* latest_state of an entity the log has never seen.
Unlogged == "unlogged"

CandidateNext ==
    [Registered          |-> {"MinibatchEvaluating", "FullTrainEvaluating", "DeferredBudget",
                              "Archived", "RejectedLeakage"},
     MinibatchEvaluating |-> {"MinibatchEvaluated"},
     MinibatchEvaluated  |-> {"AcceptedMinibatch", "RejectedMinibatch", "DeferredBudget"},
     AcceptedMinibatch   |-> {"FullTrainEvaluating", "DeferredBudget"},
     FullTrainEvaluating |-> {"FullTrainEvaluated"},
     FullTrainEvaluated  |-> {"Accepted", "RejectedFullTrain"},
     Accepted            |-> {"HeldoutEvaluating", "Archived"},
     RejectedFullTrain   |-> {"HeldoutEvaluating", "Archived"},
     HeldoutEvaluating   |-> {"HeldoutScored"},
     HeldoutScored       |-> {"Accepted"},
     DeferredBudget      |-> {"Archived"},
     RejectedMinibatch   |-> {"Archived"},
     RejectedLeakage     |-> {"Archived"},
     Archived            |-> {}]

RoundNext ==
    [Requested   |-> {"Dispatched"},
     Dispatched  |-> {"Generating"},
     Generating  |-> {"Returned"},
     Returned    |-> {"ParsedOk", "ParseFailed"},
     ParsedOk    |-> {"Closed"},
     ParseFailed |-> {"Closed"},
     Closed      |-> {}]

CandidateState == DOMAIN CandidateNext
RoundState     == DOMAIN RoundNext

\* is_allowed: an entity starts in its initial state; a candidate may be logged
\* again in the state it is in, unless it is archived.
CandidateAllowed(from, to) ==
    IF from = Unlogged
    THEN to = "Registered"
    ELSE /\ from # "Archived"
         /\ to = from \/ to \in CandidateNext[from]

RoundAllowed(from, to) ==
    IF from = Unlogged THEN to = "Requested" ELSE to \in RoundNext[from]

-----------------------------------------------------------------------------
(* OptimizerRunStateMachine *)

RunNext ==
    [Created           |-> {"Initializing", "Restoring"},
     Initializing      |-> {"Ready"},
     Restoring         |-> {"Ready"},
     Ready             |-> {"Proposing", "RolloutQueueing", "RolloutRunning", "Evaluating",
                            "Checkpointing", "Completed"},
     Proposing         |-> {"TrialQueueing", "RolloutQueueing", "Evaluating", "Ready"},
     TrialQueueing     |-> {"RolloutQueueing", "Proposing"},
     RolloutQueueing   |-> {"RolloutRunning", "Evaluating", "Ready"},
     RolloutRunning    |-> {"RolloutQueueing", "Annotating", "Verifying", "Evaluating"},
     Annotating        |-> {"Verifying", "Evaluating", "RolloutQueueing"},
     Verifying         |-> {"Evaluating", "RolloutQueueing"},
     Evaluating        |-> {"Ready", "Proposing", "RolloutQueueing", "Checkpointing",
                            "Completed"},
     Checkpointing     |-> {"Ready", "Proposing", "Completed"},
     WaitingHumanInput |-> {"Ready", "Paused", "Proposing"},
     Paused            |-> {"Ready"},
     Completed         |-> {},
     Failed            |-> {},
     Cancelled         |-> {}]

RunState    == DOMAIN RunNext
RunTerminal == {"Completed", "Failed", "Cancelled"}

\* validate_transition: failure and cancellation have triggers of their own.
RunAllowed(from, to) ==
    \/ to \in RunNext[from]
    \/ from \notin RunTerminal /\ to \in {"Failed", "Cancelled"}
=============================================================================
