SPECIFICATION Spec
CHECK_DEADLOCK FALSE
CONSTANTS
    Soft = 8
    Hard = 9
    Requests <- MCRequests
    CacheMax = 2
    Scenarios <- MCScenarios
    PageLimit = 2
    MaxEvents = 3
    MaxSaves = 2
    MaxCalls = 1
    MaxForeign = 1
    MaxFaults = 1
INVARIANTS StorageSound
PROPERTIES EmitsBelowHard LiveRunKeepsItsStorage FeedAsPromised
