SPECIFICATION Spec
CONSTANTS
  HoursPerDay = 6
  Hour = 4
  Minute = 2
  QuietStart = 5
  QuietEnd = 2
  DayBefore = 24
  HoursBefore = 8
  MinLead = 2
  None = None
  Horizon = 71
INVARIANTS
  HardInvariants
  SettleIsNearestAllowed
  FarDeadlineIsNeverSilent
  CollapseKeepsEveryMinute
PROPERTY
  PlanOnlyShrinks
CHECK_DEADLOCK FALSE
