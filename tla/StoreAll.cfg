SPECIFICATION Spec
CONSTANTS
  c1 = c1
  c2 = c2
  k1 = k1
  Ids = {i1, i2}
  Contents = {a, b}
  Clients = {c1, c2}
  Keys = {}
  KeyOf <- MasterKeys
  LinkRels = {"resolved_by"}
  Offered = {"remember", "link", "amend", "forget", "consolidate"}
  Flags = {TRUE, FALSE}
  None = None
  MaxOps = 3
  MaxFailures = 1
CHECK_DEADLOCK FALSE
SYMMETRY Symmetry
INVARIANTS
  TypeOK
  OneRowPerContent
  TxnKeepsRow
  HistoryComplete
  LinksMirrored
  SuccessorLinked
PROPERTIES
  ImplementsLedger
