SPECIFICATION Spec
CONSTANTS
  Tasks = {t1}
  Requests = {a}
  NoTask = none
  Boot = boot
  Deadlines = {1, 2}
  Leads = {0, 1}
  Year = 2
  Window = 1
  Limit = 1
  ClosedLimit = 1
  MaxTime = 3
  MaxJobs = 4
  MaxRequests = 1
  MaxCrashes = 1
INVARIANT
  NeverRecurs
CHECK_DEADLOCK FALSE
