SPECIFICATION Spec
CONSTANTS
  a = a
  b = b
  c = c
  d = d
  Claims <- MCClaims
  Attr <- MCAttr
  Wording <- MCWording
  BeliefShaped <- MCClaims
  NoEntity = NoEntity
  MaxRetrieved = 25
  Audience = "public"
  Chosen <- MCChosen
  Disputes <- MCDisputes
  Weight <- MCWeight
  Source <- MCSource
  AgendaSize = 1
  Histories <- MCHistories
  TTL = 1
  Questions <- MCQuestions
  MaxClaims = 1
  MaxEvents = 2
  NoState = NoState
  NoQuestion = NoQuestion
INVARIANTS
  ShownWasPublished
  NothingDisputedInForce
  DiffAccounts
  BoundaryKeepsAgenda
CHECK_DEADLOCK FALSE
