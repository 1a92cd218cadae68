CONSTANTS
    HopRequests = {0, 9}
    Ceiling = 3
    Threshold = 70
    Scores = {40, 80}
    EnableCritique = TRUE
    AttemptLimits = {0, 3}
    Estimates = {30, 60}
    ConfidenceLow = 50
    MaxHopsLow = 0
    MaxHopsMid = 1
    MaxHopsHigh = 5
    DegradedHops = 2
    FallbackOnConstraint = TRUE
SPECIFICATION Spec
INVARIANTS
    CostBounded
    AnswerUsesAllHops
    ReportedStrategyAnswered
    EscalationClimbs
PROPERTIES
    EveryQueryAnswered
    GraphImplementsBudget
