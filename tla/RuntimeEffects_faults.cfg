SPECIFICATION FairSpec
CONSTANTS
    MaxCost = 5
    NoLimit = NoLimit
    Unknown = Unknown
    Last = 1
    Proposals = {1}
    Estimate <- EstimateTwo
    Reported <- ReportedOne
    Errors = {"io"}
    Workers = {w1, w2}
    Canceller = canceller
    Cancellable = TRUE
    MaxExpiries = 1
    MaxCrashes = 0
    MaxSteals = 1
CHECK_DEADLOCK FALSE
INVARIANTS PaidOnTheBooks
PROPERTIES CancelReachesCursor
