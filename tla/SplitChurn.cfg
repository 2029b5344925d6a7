SPECIFICATION Spec
CONSTANTS
  a1 = a1  a2 = a2  s1 = s1  s2 = s2  s3 = s3  o1 = o1  o2 = o2
  Agents = {a1, a2}
  Splits = {s1, s2, s3}
  Outputs = {o1, o2}
  Works = {w1, w2}
  Publishers = {p1}
  Network = net
  None = none
  Credit = 1
  Churn = {"publisher", "worker", "split"}
  MaxChurn = 2
  AgentOf <- ThreeAgentOf
  InputOf <- ThreeInputOf
  OutputOf <- ThreeOutputOf
  InitialSplits <- ThreeInitial
INVARIANTS TypeOK QueueHasWorker WorksAndCredit
SYMMETRY WorkSymmetry
CHECK_DEADLOCK FALSE
