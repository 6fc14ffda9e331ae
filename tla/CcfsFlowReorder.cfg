CONSTANTS
    SeqMod = 10
    Half = 5
    WrapFront = 3
    MaxAto = 3
    MaxOctets = 100
    UsPerMs = 2
    RxUsPerMs = 2
    FbPeriod = 1
    VqBaseDelay = 1
    MaxQDelay = 90
    InitMinQDelay = 100
    Services = {0, 1}
    Ssrc = "stream"
    KeepTime = 3
    BrWindow = 1
    TimeMod = 1000
    FirstSequences = {8}
    StartTime = 5
    MaxTime = 12
    MaxPackets = 4
    MaxMishaps = 1
    Sizes = {1}
    Reach = 2
    MaxLatency = 2

SPECIFICATION Spec
INVARIANT NoAssertFails
CHECK_DEADLOCK FALSE
