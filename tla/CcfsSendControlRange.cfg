SPECIFICATION Spec
CONSTANTS
    DefaultRate = 1
    MinRate = 2
    MaxRate = 4
    ProbingRate = 1
    ReceivedRates = {1, 3}
    QDelays = {0, 30, 160}
    Fractions = {70, 100}
    Intervals = {1}
    Lag = 1
    Window = 3
    CompeteMaintain = 3
    CompeteIncrTime = 2
    IncrMinDuration = 1
    ProbingTimeout = 3
    AgeCap = 5
INVARIANT
    RateInRange
