SPECIFICATION Spec
CONSTANTS
  a1 = a1  a2 = a2  r1 = r1  i1 = i1  i2 = i2
  Locals = {a1, a2}
  Remotes = {r1}
  Inputs = {i1, i2}
  Requesting = {a1}
  AnyAgent = any
  None = none
  MaxValue <- Writes
  Refused <- RefusesFirst
  Addable <- TwoElements
  InitialMapping <- CrossMapping
  Churn <- AllChurn
  MaxChurn = 2
INVARIANTS TypeOK NothingLost
PROPERTY InOrder
CHECK_DEADLOCK FALSE
