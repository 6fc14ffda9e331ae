SPECIFICATION Spec
CONSTANTS
    SeqMod = 6
    MaxLength = 8
    UsPerSecond = 3
    NtpPerSecond = 4
    AtoUnit = 4
    AtoMod = 8
    Overrange = 4
    Ssrcs = {s1, s2}
    Times = {2, 4, 15}
    Ecns = {1, 4}
INVARIANTS
    TypeOK
    SurvivesTheWire
    TimesSurvive
    ShortestRange
CHECK_DEADLOCK FALSE
