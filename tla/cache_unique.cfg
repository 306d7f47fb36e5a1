SPECIFICATION Spec
CONSTANTS
  Keys = {k1}
  Procs = {p1, p2}
  short = short
  long1 = long1
  long2 = long2
  Values = {short, long1, long2}
  Size <- Boundary
  ValueMax = 2
  MaxParts = 2
  MaxSecond = 1
  UniqueBases = TRUE
  Miss = Miss
SYMMETRY Symmetric
INVARIANTS TypeOK NeverTorn CopyFits Consistent
PROPERTIES ImplementsRegister
