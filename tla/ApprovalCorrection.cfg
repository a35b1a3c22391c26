SPECIFICATION Spec
CONSTANTS
  old = old
  new = new
  fix = fix
  h1 = h1
  h2 = h2
  h3 = h3
  NoEdit = NoEdit
  NoRow = NoRow
  Pending = {new}
  Believed = {old}
  Corrections = {fix}
  Cards <- OneCard
  Batches <- EditedBatches
  Handlers = {h1, h2}
INVARIANTS
  CorrectionCommitted
SYMMETRY Threads
CHECK_DEADLOCK FALSE
