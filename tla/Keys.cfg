SPECIFICATION AccessSpec
CONSTANTS
  founder = founder
  guest = guest
  c1 = c1
  c2 = c2
  i1 = i1
  i2 = i2
  None = None
  Instances = {i1, i2}
  Callers = {c1, c2}
  At <- CallerAt
  Users = {founder, guest}
  Founder = founder
  MaxInvites = 2
  MaxKeys = 3
  InitialKeys <- KeyAndSession
  MaxDay = 2
  MaxEvents = 3
  InitialInvites <- GuestInvited
  NoEntry = NoEntry
  Clients = {"w1", "w2"}
  Ip <- OneAddress
  Accounts = {"account"}
  PerMinute = 2
  Threshold = 2
  Lockout = 1
  IdleEviction = 2
  MaxMinute = 2
  MaxAttempts = 5
  MaxEvictions = 1
  Slots = {"g1", "g2", "g3"}
  Counters = {"keyDay", "orgMinute"}
  Limit <- KeyAndOrg
  Length <- KeyAndOrg
  Checks <- TwoKeys
  LastMinute = 1
  MaxRequests = 3
  MaxEvicted = 1
INVARIANTS TypeOK InviteOnce RefusedOnceReloaded LoginsThrottled LimitExact OverrunBounded
CHECK_DEADLOCK FALSE
