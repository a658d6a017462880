SPECIFICATION FairShutdown
CONSTANTS
    buffered = buffered  late = late  streamed = streamed  key1 = key1  key2 = key2
    Events <- BothKinds
    Bucket <- TwoBuckets
    BufferSize = 1
    DropOnFull = TRUE
    MaxFailures = 0
    StreamingRequests = {streamed}
PROPERTIES
    DrainCoversStreams
CHECK_DEADLOCK FALSE
