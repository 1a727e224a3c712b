SPECIFICATION Spec
CONSTANTS
  a = a
  b = b
  r1 = r1
  r2 = r2
  m1 = m1
  m2 = m2
  Ops = {a, b}
  Texts = {m1, m2}
  None = None
  Redos = {r1, r2}
  MaxSame = 1
  Bounds <- MCBounds
SYMMETRY MCSymmetry
CHECK_DEADLOCK FALSE
INVARIANTS TypeOK LastDecisionSent InOwnSlot
PROPERTIES NewestWins
