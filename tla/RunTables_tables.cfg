SPECIFICATION Spec
CONSTANTS
    Scenarios <- MCScenarios
    Rewards = {0, 1}
INVARIANTS ReportClean FrontierAgrees
