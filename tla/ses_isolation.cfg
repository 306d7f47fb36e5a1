CONSTANTS
  Filters = {f1}
  Profiles = {p1, p2}
  s1 = s1
  s2 = s2
  i1 = i1
  Sessions <- TwoSessions
  Infs <- OneInf
  InfOf <- SharedInf
  LastVersion = 1
  VarsSum <- SumsStay
  FunctionsSum <- SumsStay
  None = None
  Main = Main
  User = User
  Drawn = {User}
  Serial = TRUE
  MaxCount = 1
  MaxFaults = 2
SPECIFICATION Spec
SYMMETRY Symmetry
INVARIANTS TypeOK VarsAreOwn UserDictsFresh
