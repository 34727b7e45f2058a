SPECIFICATION Spec
CONSTANTS
  None = None
  HoursPerDay = 6
  Hour = 2
  Minute = 2
  QuietStart = 5
  QuietEnd = 1
  DayBefore = 2
  HoursBefore = 1
  MinLead = 1
  MaxTasks = 1
  MaxFacts = 5
  MaxTime = 2
  Deadlines = {2, 4}
  Grace = 0
  MaxOps = 2
  MaxDeletes = 0
  MaxAborts = 1
  MaxCancels = 1
  MaxCrashes = 1
  MaxRestores = 0
INVARIANTS
  TypeOK
  NoDuplicateActive
  Covered
PROPERTIES
  SlotToldOnce
  ClosedIsSilent
  ResyncExact
CHECK_DEADLOCK FALSE
