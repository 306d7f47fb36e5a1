SPECIFICATION Spec
CONSTANTS
  Pids = {p1, p2, p3}
  a1 = a1
  a2 = a2
  Addresses = {a1, a2}
  InitialConfig <- KeepOne
  ConfigFiles <- Edited
  DefaultMax = 2
  MaxRequests = 2
  PipeCapacity = 2
  Backlog = 1
  MaxSignals = 1
  MaxForkFailures = 1
SYMMETRY PidSymmetry
INVARIANTS TypeOK ChildrenHaveSlots Accounting StatusesAgree
PROPERTIES StartsBelowLimit
CHECK_DEADLOCK FALSE
