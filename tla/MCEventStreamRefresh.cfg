SPECIFICATION Spec
CONSTANTS
  c1 = c1
  Clients = {c1}
  QueueSize = 1
  WireSize = 1
  MaxCommits = 1
  MaxStreams = 2
  MaxFaults = 1
INVARIANT
  CaughtUp
CHECK_DEADLOCK FALSE
