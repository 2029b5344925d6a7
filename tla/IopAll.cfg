SPECIFICATION IopSpec
CONSTANTS
  out = out  in = in  attr = attr
  Outputs = {out}
  Inputs = {in}
  Attributes = {}
  InputOf <- OneInput
  Types = {"INTEGER", "DOUBLE", "BOOL", "STRING", "DATA"}
  Writes <- SomeWrites
  Constraints <- SomeConstraints
  Threads = {t1}
  Net = net
  Observers = {o1, o2}
  Times = {7}
  MaxWrites = 2
  MaxEdits = 2
  NotCalled = NotCalled
  Null = Null
INVARIANTS IopTypeOK ValuesRight ObserversUpToDate
CHECK_DEADLOCK FALSE
