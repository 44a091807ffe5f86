SPECIFICATION FairSpec
CONSTANTS
  p = p
  w = w
  x = x
  y = y
  blank = blank
  Initial <- WholeAndParts
  Length <- LengthOf
  Answers <- Few
  Blank = blank
  None = None
  MinItems = 2
  MaxItems = 2
  BatchSize = 2
  Popular = {}
  Cycles = {c1, c2}
  Timer = c1
  Clients = {"remember", "amend", "pin", "forget", "supersede"}
  MaxOps = 1
  MaxFeedback = 1
  MaxTrouble = 1

CHECK_DEADLOCK FALSE
INVARIANTS
  SplitSound
  NoTextLost
  
PROPERTIES
  AnchorsStand
  
