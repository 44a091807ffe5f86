SPECIFICATION Spec
CONSTANTS
  Frags <- ThreeFrags
  Born <- Apart
  Milli = 2
  Similar <- OtherPairs
  VerySimilar <- NewPair
  Near <- LastPair
  Anchors = {2}
  InOrder = TRUE
  Cycles = {c1, c2}
  Gemini = {TRUE, FALSE}
  Limit = 20
  CandLimit = 3
  PairLimit = 10
  Batch = 10
  MaxCycles = 2
  MaxTrouble = 1
  MaxPending = 1
  None = None
SYMMETRY Symmetry
CHECK_DEADLOCK FALSE
INVARIANTS
  
  SuccessorOnRecord
  OneSideStands
  
