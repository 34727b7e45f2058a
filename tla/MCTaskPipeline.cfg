SPECIFICATION Spec
CONSTANTS
  Sources = {s1}
  MessageIds = {m1, m2}
  Keys = {k1}
  Courses = {c1, c2}
  Unknown = unknown
  NoMessage = nobody
  Window = 0
  Limit = 2
  InFlight = 2
  Free = free
  MaxTime = 1
  MaxRuns = 3
  MaxEdits = 1
  MaxFaults = 1
INVARIANTS
  Accounted
  LockIsOwned
PROPERTY
  ImplementsBoard
SYMMETRY Symmetry
CHECK_DEADLOCK FALSE
