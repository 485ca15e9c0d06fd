\* A worker and step calls of one worker id and one millisecond, one lost deadline; with
\* two overlapping calls of every kind on requests of which two share a cache namespace,
\* or with three queued requests and one process end (MCInit).
SPECIFICATION MCSpec
CONSTANTS
    Requests = {1, 2, 3}
    Submitted = {1, 2, 3}
    ManualStep = {2}
    Namespace <- PairNamespaces
    Unshared = Unshared
    Slots = {s0}
    Primary = s0
    Steps = {p1, p2}
    ManualWorker = ManualWorker
    Workers <- AllWorkers
    NoWorker = NoWorker
    Millis = {1}
    Calls = {c1, c2}
    Ops = {"create", "cancel", "stop", "pause", "resume", "delete"}
    NoRequest = NoRequest
    MaxExpiries = 1
    MaxCrashes = 1
SYMMETRY Alike
INVARIANTS CompletedHasResult LeaseOwner SlotHoldsOne
PROPERTIES TerminalIsFinal
