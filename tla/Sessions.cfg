SPECIFICATION Spec
CONSTANTS
  r1 = r1
  r2 = r2
  r3 = r3
  i1 = i1
  i2 = i2
  k1 = k1
  k2 = k2
  yes = yes
  no = no
  NoWords = NoWords
  NoRow = NoRow
  Requests = {r1, r2, r3}
  Instances = {i1, i2}
  Words = {yes, no}
  Rows = {k1, k2}
  FirstLedger <- TwoRows
  FollowUpBudget = 1
  MaxFollowUpDepth = 4
  MaxNow = 1
  MaxLedgers = 2
INVARIANTS
  AnchoredInTheLog
  LostOnlyByOverlap
  ReaskedExactlyWhenOpen
  FiledUnderItsQuestion
PROPERTIES
  SpokenOnly
CONSTRAINT
  OneSession
  OneOddity
SYMMETRY Threads
CHECK_DEADLOCK FALSE
