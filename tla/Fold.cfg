SPECIFICATION FoldSpec
CONSTANTS
  c1 = c1
  c2 = c2
  e1 = e1
  e2 = e2
  e3 = e3
  Contents <- AllContents
  Hashes = {1, 2, 3}
  MaxEvents = 4
INVARIANTS
  FoldAgrees
PROPERTIES
  OnlyALaterDecisionOverturns
  ResolvedNeverReopens
CONSTRAINT
  OneTopic
CHECK_DEADLOCK FALSE
