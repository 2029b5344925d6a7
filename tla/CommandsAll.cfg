SPECIFICATION FairSpec
CONSTANTS
  a1 = a1  a2 = a2 
  Agents = {a1, a2}
  Born = {a1}
  NameOf <- OneName
  Observed = {a1}
  Elements = {"e1"}
  States = {"s1"}
  Paths = {"p1"}
  Commands <- Whispers
  Calls <- UserCalls
  Users = {u1}
  Net = net
  MaxCommands = 2
  MaxCalls = 2
  MaxVisits = 1
  None = none
INVARIANTS TypeOK TakeEffect
PROPERTIES  EveryCommandEnds
CHECK_DEADLOCK FALSE
