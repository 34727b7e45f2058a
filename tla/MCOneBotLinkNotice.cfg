SPECIFICATION Spec
CONSTANTS
  None = None
  c1 = c1
  c2 = c2
  c3 = c3
  Conns = {c1, c2, c3}
  Events = {}
  Messages = {}
  Fires = {}
  QueueMax = 1
  MaxInFlight = 1
  MaxPending = 1
  DedupCapacity = 1
  MaxWire = 1
INVARIANTS
  NoticeIsTrue
CHECK_DEADLOCK FALSE
