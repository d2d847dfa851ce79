SPECIFICATION Spec
CONSTANTS
    Intents <- MCIntents
    Scores <- MCScores
    MaxRuns = 2
INVARIANTS
    TypeOK
    RunInvariant
    AutoApprovalIsEarned
    FinalStateTellsTheRun
    FactsSurvive
    RetryBudget
PROPERTIES
    ConfidenceNeverRises
    ImplementsPromise
CHECK_DEADLOCK FALSE
