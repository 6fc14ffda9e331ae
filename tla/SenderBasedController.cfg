SPECIFICATION Spec
CONSTANTS
    SeqMod = 8
    MaxInterPacketTime = 1
    KeepFactor = 2
    HistoryLength = 2
    WrapMargin = 1
    MaxIntervals = 2
    Sizes = {1}
    FirstSequences = {6}
    MaxDelay = 2
    MaxBurst = 2
    MaxResets = 1
    MaxTime = 5
INVARIANTS
    TypeOK
    AssertionsHold
    TransitContiguous
    HistoryWindow
    NeverBoth
    MetricsWellDefined
    IntervalsConsistent
    CurrentIntervalSinceHole
PROPERTY
    CreditedFromTransit
CHECK_DEADLOCK FALSE
