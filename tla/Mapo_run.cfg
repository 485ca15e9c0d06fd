CONSTANTS
    Configs <- MCConfigs
    Schedules <- MCSchedules
SPECIFICATION Spec
CHECK_DEADLOCK FALSE
INVARIANTS ComparisonIsFair ChampionIsBest DiskIsTruthful
