SPECIFICATION NadaSpec
CONSTANTS
    SeqMod = 10
    MaxInterPacketTime = 3
    KeepFactor = 1
    HistoryLength = 3
    WrapMargin = 1
    MaxIntervals = 2
    Sizes = {1}
    FirstSequences = {7}
    MaxDelay = 1
    MaxBurst = 2
    MaxResets = 1
    MaxTime = 5
    Delta = 2
    QEps = 0
    MinLogLen = 3
    Rounding = 1
INVARIANTS
    NadaTypeOK
    NadaAssertsHold
    UpdatedByBatch
    LossesAgree
PROPERTY
    RampUpIsClean
CHECK_DEADLOCK FALSE
