SPECIFICATION FairSpec
CONSTANTS
  old = old
  mid = mid
  new = new
  why = why
  far = far
  Frag = {mid, new, why, far}
  Initial = {mid}
  Born <- TimesOf
  Kind <- KindOf
  Resolved = {new}
  Close <- CloseOf
  Session <- ErrorAndDecision
  Passes = {r}
  Reflect = reflect
  MaxCandidates = 2
  BatchSize = 1
  MaxHops = 20
  MaxHandlers = 1
  MaxTrouble = 1

CHECK_DEADLOCK FALSE
INVARIANTS
  TypeOK
  
  
  SessionJoined
PROPERTIES
  EventuallyLinked
