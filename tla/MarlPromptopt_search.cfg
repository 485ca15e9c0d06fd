SPECIFICATION Spec
CONSTANTS
    EnvelopeLimit = 1
    NoMetric = NoMetric
    Configs <- MCConfigs
    RowArms <- MCRowArms
    Answers <- MCAnswers
    Proposals <- MCProposals
    SeedPayload = 0
    MayFail = TRUE
CHECK_DEADLOCK FALSE
INVARIANTS ComparisonIsFair ChampionLeads FailsOnlyForCause
