SPECIFICATION Spec
CONSTANTS
  p1 = p1
  p2 = p2
  t1 = t1
  t2 = t2
  t3 = t3
  NoIndex = NoIndex
  NoThread = NoThread
  Events = {e1, e2}
  Processes = {p1, p2}
  Threads = {t1, t2, t3}
  ProcessOf <- TwoProcesses
  Cuts = {"partial", "unterminated"}
  MaxKills = 2
  MaxLines = 3
INVARIANTS
  WrittenOncePerProcess
PROPERTIES
  LogUntilGlued
CHECK_DEADLOCK FALSE
