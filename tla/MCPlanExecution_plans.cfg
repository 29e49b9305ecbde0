SPECIFICATION Spec
CONSTANTS
    Batches <- MCBatches
    Drafts <- MCDrafts
    MaxLeaves = 6
    MaxReport = 2
    MaxStructured = 2
    MaxStepAttempts = 2
    Limits <- MCLimits
    MaxForced = 5
INVARIANTS PlanIsTrue EndsWithAMessage WithinBudget
PROPERTIES CompletedTopStepsKept RunEnds
CHECK_DEADLOCK FALSE
