SPECIFICATION Spec
CONSTANTS
    Sizes = {1, 2}
    Rates = {1, 2}
    BitTime = 2
    OversleepDivisor = 2
    CodecIntervals = {1, 3}
    MaxBuffer = 3
INVARIANTS
    TypeOK
    TimerIffBacklog
    BufferAccounted
    QuietUnlessActive
PROPERTIES
    Paced
    BacklogIsServed
