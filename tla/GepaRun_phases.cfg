SPECIFICATION Spec
CONSTANTS
    Seed = "seed"
    Payloads <- PhasePayloads
    Leaky <- PhaseLeaky
    Batches <- PhaseBatches
    IdOrder <- PhaseOrder
    NTrain = 2
    NMini = 1
    NHeldout = 1
    MaxGenerations = 2
    ProposalsPerGeneration = 3
    MaxRollouts = 12
    TrainLimit = 11
    HeldoutLimit = 2
    SplitBudgets = FALSE
    AdmissionLimit <- Unlimited
    Chunk = 2
    Rewards = {0, 1}
    AcceptEqual = FALSE
    DeployHeldout = TRUE
    Window = 4
    MinSamples = 2
    Tolerance = 50
    MaxFailures = 1
    MaxCrashes = 1
    Cancellable = TRUE
INVARIANTS CompletedHasHeldout MachineFollowsPhase BestLeadsOnTrain AsksAreGranted
PROPERTIES RunEnds
