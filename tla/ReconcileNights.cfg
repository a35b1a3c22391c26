SPECIFICATION FairSpec
CONSTANTS
  c1 = c1
  c2 = c2
  x1 = x1
  x2 = x2
  ann = ann
  bob = bob
  NoOne = NoOne
  NoClaim = NoClaim
  NoEntity = NoOne
  Claims = {c1, c2}
  Attr <- SharedName
  Executions = {x1, x2}
  Modes = {"stub", "real"}
  Triggers = {"cloud-scheduler", "manual"}
  Edges <- NoEdges
  MaxRetrieved = 2
  DayLen = 2
  LastDay = 2
  StaleDays = 0
  MaxAgenda = 2
INVARIANTS
  NightsNotAttempts
  MailedIsRecorded
PROPERTIES
  EveryClaimReached
CONSTRAINTS
  OneApproval
  SecondClaimIsExamined
CHECK_DEADLOCK FALSE
