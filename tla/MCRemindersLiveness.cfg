SPECIFICATION FairSpec
CONSTANTS
  None = None
  HoursPerDay = 6
  Hour = 1
  Minute = 1
  QuietStart = 5
  QuietEnd = 2
  DayBefore = 2
  HoursBefore = 1
  MinLead = 1
  MaxTasks = 1
  MaxFacts = 3
  MaxTime = 2
  Deadlines = {2}
  Grace = 0
  MaxOps = 1
  MaxDeletes = 1
  MaxAborts = 0
  MaxCancels = 0
  MaxCrashes = 0
  MaxRestores = 1
INVARIANTS
  RowSentAtMostOnce
  JobsMatchRows
PROPERTIES
  LocksAreReleased
  ResyncEnds
CHECK_DEADLOCK FALSE
