SPECIFICATION Spec
CONSTANTS
  wide = wide
  ours = ours
  ax = ax
  ay = ay
  reader = reader
  c1 = c1
  c2 = c2
  i1 = i1
  i2 = i2
  None = None
  Instances = {i1, i2}
  Callers = {c1, c2}
  At <- CallerAt
  Models = {"m1"}
  Servers = {wide, ours}
  FirstServers <- GlobalServer
  Aliases = {ax, ay}
  FileAlias = ax
  Tools = {reader}
  FirstBlocked <- NoneBlocked
  Fetchers = {1}
  MaxSessions = 3
  PoolSize = 1
  MaxToolCalls = 1
  MaxEvents = 2
INVARIANTS TypeOK AccessFollows PurgedStaysGone  SlotsKept
CHECK_DEADLOCK FALSE
