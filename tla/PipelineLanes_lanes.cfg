SPECIFICATION LanesSpec
CONSTANTS
    Seed = "seed"
    Payloads <- LanePayloads
    Leaky = {}
    Batches <- LaneBatches
    IdOrder <- LaneOrder
    NTrain = 2
    NMini = 1
    NHeldout = 1
    MaxGenerations = 2
    ProposalsPerGeneration = 2
    MaxRollouts = 8
    TrainLimit = 6
    HeldoutLimit = 2
    SplitBudgets = FALSE
    AdmissionLimit <- LaneAdmission
    Chunk = 2
    Rewards = {0, 1}
    AcceptEqual = FALSE
    DeployHeldout = TRUE
    Window = 4
    MinSamples = 2
    Tolerance = 50
    MaxFailures = 1
    MaxCrashes = 1
    Cancellable = TRUE
    Modes = {"async_pipelined", "flash_evolve"}
    Guarded = FALSE
    DeltaMax = 1
    ProposeWorkers = 1
    RolloutWorkers = 2
    MaxInFlight <- LaneCapacity
    Speculative = FALSE
    Alpha = 50
    Adaptive = FALSE
    MinLimit = 1
    MaxLimit = 2
    InitialLimit = 1
    IncreaseAfter = 2
CHECK_DEADLOCK FALSE
INVARIANTS LanesSound
PROPERTIES LanesEnd
