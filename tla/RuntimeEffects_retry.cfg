SPECIFICATION FairSpec
CONSTANTS
    MaxCost = 3
    NoLimit = NoLimit
    Unknown = Unknown
    Last = 2
    Proposals = {1}
    Estimate <- EstimateTwo
    Reported <- ReportedAny
    Errors = {"transient", "failed", "io", "fatal"}
    Workers = {w1}
    Canceller = canceller
    Cancellable = FALSE
    MaxExpiries = 2
    MaxCrashes = 2
    MaxSteals = 0
CHECK_DEADLOCK FALSE
INVARIANTS DispatchBound BooksHold
PROPERTIES RunSettles
