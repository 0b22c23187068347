CONSTANTS
  None = None
  Mixed = Mixed
  p1 = p1
  p2 = p2
  Pids <- TwoIds
  MaxRuns = 3
  MaxCommits = 2
  MaxDays = 3
  MaxCrashes = 2
  MaxFaults = 2
  Sundays = {1, 3}
  DailyRetention = 1
  WeeklyRetention = 1
SPECIFICATION Spec
SYMMETRY IdSymmetry
CHECK_DEADLOCK FALSE
INVARIANTS
  TypeOK
  
  AllOrNothing
  OwnLog
PROPERTIES
  BackupIsCurrent
  NewestKept
