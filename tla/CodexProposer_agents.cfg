CONSTANTS
    Jobs <- MCJobs
    Inputs <- MCInputs
    MaxTurnsPerSession = 2
    MaxFaults = 1
    MaxAttempts = 2
SPECIFICATION FairSpec
CHECK_DEADLOCK FALSE
INVARIANTS CallLeavesNothing WorkspaceSound
PROPERTIES OutcomeIsItsOwn AttemptEnds
