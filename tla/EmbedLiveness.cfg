SPECIFICATION FairSpec
CONSTANTS
  f1 = f1
  f2 = f2
  c1 = c1
  c2 = c2
  Frags = {f1, f2}
  Rank <- FirstFirst
  Poison = {f1}
  Main = Main
  Cycles = {c1}
  None = None
  BatchSize = 2
  RetryLimit = 2
  OrphanLimit = 2
  Offered = {"amend", "forget", "restart"}
  MaxVersion = 2
  MaxQueue = 1
  MaxTrouble = 1
CHECK_DEADLOCK FALSE
INVARIANTS
  NoneLost
  EmbeddingFits
PROPERTIES
  EventuallyEmbedded
