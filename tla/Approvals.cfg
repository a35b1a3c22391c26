SPECIFICATION Spec
CONSTANTS
  old = old
  new = new
  fix = fix
  h1 = h1
  h2 = h2
  h3 = h3
  NoEdit = NoEdit
  NoRow = NoRow
  Pending = {new}
  Believed = {old}
  Corrections = {fix}
  Cards <- OneCard
  Batches <- SomeBatches
  Handlers = {h1, h2, h3}
INVARIANTS
  LaterRequestWins
  CommitComesFirst
  OneSideGoverns
CONSTRAINT
  OneDies
SYMMETRY Threads
CHECK_DEADLOCK FALSE
