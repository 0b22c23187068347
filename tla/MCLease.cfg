CONSTANTS
  Procs = {p1, p2}
  None = None
  MaxStarts = 3
SPECIFICATION FairSpec
CHECK_DEADLOCK FALSE
INVARIANTS
  OwnerReachable
PROPERTIES
  OnlyAbandonedRemoved
  AcquisitionDecided
