SPECIFICATION FairSpec
CONSTANTS
  Agents = {a1, a2, a3}
  Remotes = {r1}
  Observers = 2
  Users = {u1, u2}
  Network = net
  MaxOps = 3
  Nobody = none
INVARIANTS TypeOK ViewsRight
PROPERTY OperationsEnd
CHECK_DEADLOCK FALSE
