SPECIFICATION Spec
CONSTANTS
  None = None
  s1 = s1
  s2 = s2
  t1 = t1
  t2 = t2
  MaxTurns = 4
  Threads = {t1, t2}
  Sources = {s1, s2}
  MaxSteps = 2
  MaxThreads = 2
INVARIANTS
  ConfirmedWasSeen
CHECK_DEADLOCK FALSE
