SPECIFICATION FairSpec
CONSTANTS
  a1 = a1  a2 = a2  s1 = s1  s2 = s2  s3 = s3  o1 = o1  o2 = o2
  Agents = {a1}
  Splits = {s1}
  Outputs = {o1}
  Works = {w1, w2, w3}
  Publishers = {p1, p2}
  Network = net
  None = none
  Credit = 2
  Churn = {"publisher"}
  MaxChurn = 2
  AgentOf <- OneAgentOf
  InputOf <- OneInputOf
  OutputOf <- OneOutputOf
  InitialSplits <- OneInitial
PROPERTY QueuedIsReceived
CHECK_DEADLOCK FALSE
