SPECIFICATION UsageSpec
CONSTANTS
    buffered = buffered  late = late  streamed = streamed
    key1 = key1  key2 = key2
    Events <- AllThree
    Bucket <- TwoBuckets
    BufferSize = 2
    DropOnFull = TRUE
    MaxFailures = 1
    StreamingRequests = {streamed}
    Slots = {"g1", "g2"}
    Counters = {"keyDay", "orgDays"}
    Limit <- Budget
    Length <- DaysOf
    Scopes <- TwoScopes
    MaxDay = 1
    MaxRequests = 4
    MaxEvictions = 1
    MaxCrashes = 1
INVARIANTS
    ShutdownTypeOK
    Conserved
    RollupsFollowTable
    HandlersOutlived
    BufferedUsageKept
    BudgetsKept
CHECK_DEADLOCK FALSE
