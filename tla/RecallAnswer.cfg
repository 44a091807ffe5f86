SPECIFICATION AnswerSpec
CONSTANTS
  a = a
  b = b
  c = c
  d = d
  Frag = {a, b, c}
  Kind <- KindOf
  Importance <- ImportanceOf
  Born <- BornOf
  Length <- LengthOf
  Matches = {a, b, c}
  Alike <- AlikeOf
  Proximity <- Nearness
  Unindexed = {c}
  Superseded = {c}
  Start = 2
  Queries <- Usual
  Types <- ErrorAndDecision
  Budget = 3
  CoreBudget = 3
  MaxCore = 3
  Slots = 2
  PageSize = 1
  RecentCount = 1
  MaxNow = 1
  MaxOps = 1
  MaxRecalls = 2

CHECK_DEADLOCK FALSE
INVARIANTS
  
  PagesShowAll
  MatchesFound
  
