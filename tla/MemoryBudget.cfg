SPECIFICATION Spec
CONSTANTS
  p = p
  q = q
  a = a
  b = b
  Items = {p, q, a, b}
  Tokens <- Sizes
  Protected = {p, q}
  Clients = {c1, c2}
  None = None
  MaxTokens = 5
  MaxReflects = 2
SYMMETRY Symmetry
CHECK_DEADLOCK FALSE
INVARIANTS
  ListSound
  EndedUnlessHung
PROPERTIES
  NoNeedlessEviction
