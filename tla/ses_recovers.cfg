CONSTANTS
  Filters = {f1, f2}
  Profiles = {p1}
  s1 = s1
  s2 = s2
  i1 = i1
  Sessions <- OneSession
  Infs <- OneInf
  InfOf <- SharedInf
  LastVersion = 2
  VarsSum <- SumsChange
  FunctionsSum <- SumsStay
  None = None
  Main = Main
  User = User
  Drawn = {}
  Serial = TRUE
  MaxCount = 1
  MaxFaults = 2
SPECIFICATION FairSpec
INVARIANTS IdsFit CountIsServed
PROPERTIES Recovers
CHECK_DEADLOCK FALSE
