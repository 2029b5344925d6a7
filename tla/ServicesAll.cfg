SPECIFICATION Spec
CONSTANTS
  a1 = a1  a2 = a2  b1 = b1  P = P  Q = Q  t1 = t1  t2 = t2
  Agents = {a1, a2, b1}
  Peers = {P, Q}
  Home <- HomeOf
  Names = {"server"}
  NameOf <- TwoServers
  Threads = {t1, t2}
  CallerOf <- Callers
  Lists <- GoodAndBad
  Starts <- Beginnings
  Sizes = {8}
  Stamped = {a1}
  Virtual = {}
  MaxCalls <- TwoAndOne
  MaxEdits = 1
  NoCall = NoCall
INVARIANTS TypeOK 
PROPERTIES CallsAreABag EveryCallEnds
CHECK_DEADLOCK FALSE
