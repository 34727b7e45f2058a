SPECIFICATION FairSpec
CONSTANTS
  c1 = c1
  Clients = {c1}
  QueueSize = 2
  WireSize = 1
  MaxCommits = 3
  MaxStreams = 2
  MaxFaults = 2
INVARIANTS
  RegisteredIsServed
PROPERTIES
  DroppedIsTold
  Informed
CHECK_DEADLOCK FALSE
