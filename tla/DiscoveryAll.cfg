SPECIFICATION FairSpec
CONSTANTS
  p1 = p1  p2 = p2  a1 = a1  a2 = a2  b1 = b1
  Peers = {p1, p2}
  Agents = {a1, a2, b1}
  Home <- TwoAndOne
  Churn <- TwoKinds
  None = none
INVARIANTS TypeOK RegistrySound
PROPERTY RegistryConverges
CHECK_DEADLOCK FALSE
