SPECIFICATION FairSpec
CONSTANTS
  Pids = {p1, p2}
  a1 = a1
  a2 = a2
  Addresses = {a1, a2}
  InitialConfig <- OneOnDemand
  ConfigFiles <- EditedOne
  DefaultMax = 2
  MaxRequests = 2
  PipeCapacity = 1
  Backlog = 1
  MaxSignals = 1
  MaxForkFailures = 0

PROPERTIES WaitingIsServed MinimumIsRunning OldFiltersLeave DrainEnds
CHECK_DEADLOCK FALSE
