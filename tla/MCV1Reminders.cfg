SPECIFICATION Spec
CONSTANTS
  Tasks = {t1, t2}
  Requests = {a}
  NoTask = none
  Boot = boot
  Deadlines = {1, 3}
  Leads = {0, 2}
  Year = 2
  Window = 1
  Limit = 1
  ClosedLimit = 1
  MaxTime = 3
  MaxJobs = 3
  MaxRequests = 2
  MaxCrashes = 1
INVARIANTS
  AgreesUnlessMixed
  ToldOnceUnlessMixed
  OnlySkippedRecurs
SYMMETRY Symmetry
CHECK_DEADLOCK FALSE
