SPECIFICATION NadaSpec
CONSTANTS
    SeqMod = 12
    MaxInterPacketTime = 3
    KeepFactor = 1
    HistoryLength = 3
    WrapMargin = 1
    MaxIntervals = 2
    Sizes = {1}
    FirstSequences = {7}
    MaxDelay = 1
    MaxBurst = 2
    MaxResets = 0
    MaxTime = 4
    Delta = 2
    QEps = 2
    MinLogLen = 3
    Rounding = 1
PROPERTY
    RampUpAsDocumented
CHECK_DEADLOCK FALSE
