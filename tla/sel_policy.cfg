CONSTANTS
  p = p
  q = q
  p1 = p1
  p2 = p2
  p3 = p3
  q1 = q1
  q2 = q2
  Patterns = {p, q}
  Answers = {p1, p2, p3, q1, q2}
  PatternOf <- Owner
  Weights = {1, 2}
  Modifier <- PrefersP2
  Uniq = {p1}
  LUniq = {p2, p3, q1}
  Last = {q1, q2}
  Zero = q2
  None = None
SPECIFICATION Spec
INVARIANTS UniqMatchesGiven
PROPERTIES UniqOnce ImplementsPolicy
