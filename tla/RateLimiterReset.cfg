SPECIFICATION LimiterSpec
CONSTANTS
    orgMinute = orgMinute
    g1 = g1  g2 = g2  g3 = g3
    Slots = {g1, g2, g3}
    Counters <- OneCounter
    Limit <- LimitOfTwo
    Length <- OneMinute
    Checks <- OneCheck
    LastMinute = 1
    MaxRequests = 4
    MaxEvicted = 0
INVARIANTS
    RejectsWhenExceeded
CHECK_DEADLOCK FALSE
