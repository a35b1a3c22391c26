SPECIFICATION Spec
CONSTANTS
  minutes = minutes
  chat = chat
  c1 = c1
  c2 = c2
  c3 = c3
  x1 = x1
  x2 = x2
  x3 = x3
  r1 = r1
  r2 = r2
  Runs = {r1, r2}
  Files = {minutes, chat}
  Manifest <- MCManifest
  Entries <- MCEntries
  Text <- MCText
  NoText = "none"
  NoInstant = NoInstant
  PerSecond = 10
  PerDay = 30
  SecondsCeiling = 100
  NoEntity = NoEntity
  TargetChars = 4
  OverlapUnits = 1
  LengthFloor = 1
  MaxLost = 1
  Extractors = {"direct", "agent"}
  FilterModes = {"stub", "gemma"}
  Claims = {c1, c2, c3, x1, x2, x3}
  Attr <- MCAttr
  MaxRetrieved = 2
  Cites <- MCCites
  Stated <- MCStated
  Returned <- MCReturned
  Contradict <- MCContradict
  Stopwords = {"the", "our"}
  Distinguishing = {"assistant"}
  Names <- MCNames
  LinkIds = {0, 1}
SYMMETRY RunSymmetry
INVARIANTS
  GroundedInSource
  RetryConverges
  EveryEntryChunked
  PairsCompared
  OneIdentity
CHECK_DEADLOCK FALSE
