CONSTANTS
  u = u
  s = s
  m = m
  Dicts = {u, s, m}
  a = a
  b = b
  Lines = {a, b}
  Uses <- AllUses
  EventUses <- UdictOnly
  Searches = 1
  DictsChange = TRUE
  MaxLog = 3
SPECIFICATION Spec
SYMMETRY Symmetric
INVARIANTS UdictHasLines SudictOnce
PROPERTIES NothingLost FailureUndone
