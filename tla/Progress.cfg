SPECIFICATION ProgressSpec
CONSTANTS
    None = None
    Callers = {c1, c2, c3, c4}
    Threshold = 3
    HalfOpenMax = 2
INVARIANTS
    BreakerTypeOK
    Consistent
    ProbeOutstanding
PROPERTIES
    RecoveryNotPostponed
    HalfOpenEnds
    ImplementsContract
    HealthSettles
    ChecksEnd
    ShutdownEnds
    LogReturns
CHECK_DEADLOCK FALSE
