SPECIFICATION FairSpec
CONSTANTS
  User = user
  Mon = mon
  Net = net
  Addresses = {n1, n2}
  Brokers = "brokers"
  Timers = 1
  Concurrent = FALSE
  MayFail = TRUE
  MaxCalls = 4
  MaxStops = 1
  MaxFlaps = 3
  MaxEvents = 1
  None = None
INVARIANTS TypeOK  ToldOnce
PROPERTIES  CallsReturn FollowsDevice
CHECK_DEADLOCK FALSE
