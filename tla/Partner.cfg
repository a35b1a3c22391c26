SPECIFICATION Spec
CONSTANTS
  yes = yes
  ok = ok
  row = row
  Answers <- MCAnswers
  Short <- MCShort
  Hints <- MCHints
  MaxBeliefs = 2
  IdRank <- MCIdRank
  MaxRetrieved = 1
  Agenda <- MCAgenda
  NoRow = NoRow
  Script <- MCScript
  Blank = Blank
  FollowUpBudget = 1
  MaxFollowUpDepth = 4
  MaxAgentTurns = 4
  Epoch = 1
  Readings <- MCReadings
  MaxRuns = 2
  MaxUserTurns = 2
  MaxAttempts = 3
  BaseDelay = 1
  MaxDelay = 2
  RetryBudget = 2
INVARIANTS
  PoolCompared
  OneUndetected
  AgendaWorked
  ReplayRepeats
  ApprovedTakesEffect
CHECK_DEADLOCK FALSE
