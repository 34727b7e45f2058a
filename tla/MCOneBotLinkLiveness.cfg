SPECIFICATION FairSpec
CONSTANTS
  None = None
  c1 = c1
  e1 = e1
  e2 = e2
  e3 = e3
  m1 = m1
  Conns = {c1}
  Events = {e1, e2, e3}
  Messages = {m1}
  Fires = {}
  QueueMax = 1
  MaxInFlight = 1
  MaxPending = 1
  DedupCapacity = 1
  MaxWire = 1
PROPERTIES
  EventsAreHandled
  SendsEnd
CHECK_DEADLOCK FALSE
