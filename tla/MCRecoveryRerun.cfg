CONSTANTS
  None = None
  Mixed = Mixed
  p1 = p1
  p2 = p2
  Pids <- OneId
  MaxRuns = 3
  MaxCommits = 1
  MaxDays = 2
  MaxCrashes = 1
  MaxFaults = 0
  Sundays = {2}
  DailyRetention = 2
  WeeklyRetention = 1
SPECIFICATION Spec
CHECK_DEADLOCK FALSE
INVARIANT
  PriorKept
