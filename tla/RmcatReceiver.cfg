SPECIFICATION Spec
CONSTANTS
    SeqMod = 8
    MaxLength = 5
    UsPerSecond = 3
    NtpPerSecond = 4
    AtoUnit = 2
    AtoMod = 16
    Overrange = 8
    Period = 2
    Remote = s1
    First = 6
    FirstArrival = 1
    MaxSpan = 4
    MaxPackets = 5
    MaxTime = 5
INVARIANTS
    TypeOK
    NoAssertFails
    ReportIsComplete
    Timely
CHECK_DEADLOCK FALSE
