SPECIFICATION Spec
CONSTANTS
    SeqMod = 8
    MaxInterPacketTime = 1
    KeepFactor = 2
    HistoryLength = 2
    WrapMargin = 1
    MaxIntervals = 2
    Sizes = {1}
    FirstSequences = {6}
    MaxDelay = 1
    MaxBurst = 2
    MaxResets = 0
    MaxTime = 5
INVARIANT
    NoAssertFails
CHECK_DEADLOCK FALSE
