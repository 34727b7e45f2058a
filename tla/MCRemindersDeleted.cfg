SPECIFICATION Spec
CONSTANTS
  None = None
  HoursPerDay = 6
  Hour = 1
  Minute = 1
  QuietStart = 5
  QuietEnd = 2
  DayBefore = 2
  HoursBefore = 1
  MinLead = 1
  MaxTasks = 1
  MaxFacts = 5
  MaxTime = 3
  Deadlines = {2, 3}
  Grace = 0
  MaxOps = 2
  MaxDeletes = 1
  MaxAborts = 0
  MaxCancels = 0
  MaxCrashes = 0
  MaxRestores = 0
PROPERTIES
  ClosedNeverDelivers
CHECK_DEADLOCK FALSE
