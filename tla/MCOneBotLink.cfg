SPECIFICATION Spec
CONSTANTS
  None = None
  c1 = c1
  c2 = c2
  e1 = e1
  e2 = e2
  f1 = f1
  m1 = m1
  m2 = m2
  Conns = {c1, c2}
  Events = {e1, e2}
  Messages = {m1, m2}
  Fires = {f1}
  QueueMax = 1
  MaxInFlight = 1
  MaxPending = 1
  DedupCapacity = 1
  MaxWire = 1
INVARIANTS
  WaitsOnActive
  OkMeansAnswered
PROPERTIES
  OnlyItsConnectionFails
  NotHandledTwice
SYMMETRY Symmetry
CHECK_DEADLOCK FALSE
