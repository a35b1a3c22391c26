SPECIFICATION Spec
CONSTANTS
  c1 = c1
  c2 = c2
  c3 = c3
  e1 = e1
  e2 = e2
  Callers = {c1, c2, c3}
  Events = {e1, e2}
INVARIANTS
  TrueAtMostOnce
PROPERTIES
  ImplementsLog
