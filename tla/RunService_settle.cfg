\* Two workers and a cancelled request, one lost deadline and one process end.
SPECIFICATION FairSpec
CONSTANTS
    Requests = {1}
    Submitted = {1}
    ManualStep = {}
    Namespace <- OwnNamespaces
    Unshared = Unshared
    Slots = {s0, s1}
    Primary = s0
    Steps = {}
    ManualWorker = ManualWorker
    Workers <- AllWorkers
    NoWorker = NoWorker
    Millis = {1}
    Calls = {c1}
    Ops = {"cancel"}
    NoRequest = NoRequest
    MaxExpiries = 1
    MaxCrashes = 1
INVARIANTS SingleAdvancer CompletedCursorAgrees
PROPERTIES QueuedIsSettled CancelReachesCursor
