SPECIFICATION Spec
CONSTANTS
  c1 = c1
  c2 = c2
  x1 = x1
  x2 = x2
  ann = ann
  bob = bob
  NoOne = NoOne
  NoClaim = NoClaim
  NoEntity = NoOne
  Claims = {c1, c2}
  Attr <- SharedName
  Executions = {x1, x2}
  Modes = {"real"}
  Triggers = {"cloud-scheduler"}
  Edges <- OneEdge
  MaxRetrieved = 1
  DayLen = 2
  LastDay = 2
  StaleDays = 1
  MaxAgenda = 2
INVARIANTS
  EveryPairCompared
  NoPairMissed
  NoFindingLost
  FoundTonightIsReported
PROPERTIES
  AgendaCoversTonight
CONSTRAINT
  OneCloses
  OneFault
  SecondDayIsQuiet
  InitiationSucceeds
  NoneApproved
SYMMETRY Executors
CHECK_DEADLOCK FALSE
