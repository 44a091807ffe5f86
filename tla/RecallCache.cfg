SPECIFICATION Spec
CONSTANTS
  Ids = {i1, i2}
  Texts = {a, b}
  Clients = {c1, c2}
  None = None
  Modes = {"plain", "super", "text"}
  Offered = {"recall", "remember", "amend", "forget", "consolidate"}
  MaxOps = 4
  MaxOutages = 1
SYMMETRY Symmetry
CHECK_DEADLOCK FALSE
INVARIANTS
  
  HotFresh
  RetiredOnlyFromCache
