SPECIFICATION CacheFairSpec
CONSTANTS
  t1 = t1
  t2 = t2
  e1 = e1
  e2 = e2
  None = None
  Threads = {t1, t2}
  Events = {e1, e2}
INVARIANTS
  NextReadSeesIt
PROPERTIES
  EventuallySeen
