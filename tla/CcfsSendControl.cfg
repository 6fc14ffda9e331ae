SPECIFICATION Spec
CONSTANTS
    DefaultRate = 2
    MinRate = 2
    MaxRate = 3
    ProbingRate = 1
    ReceivedRates = {1, 3}
    QDelays = {0, 30, 160}
    Fractions = {70, 100}
    Intervals = {1, 2}
    Lag = 1
    Window = 2
    CompeteMaintain = 3
    CompeteIncrTime = 3
    IncrMinDuration = 1
    ProbingTimeout = 3
    AgeCap = 5
INVARIANTS
    TypeOK
    RateInRange
    TargetFollowsStatus
    ThrottleKeepsEstimate
    ProbingIsBounded
PROPERTIES
    ReturnsToDefault
