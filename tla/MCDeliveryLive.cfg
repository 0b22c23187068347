CONSTANTS
  Users = {u1}
  Nobody = Nobody
  MaxWorkers = 1
  MaxAttempts = 2
  MaxBatch = 1
  MaxUpdates = 1
SPECIFICATION FairSpec
PROPERTIES
  MarkedIsDeleted
  StopTerminates
  PassEnds
  IneligibleJobDropped
