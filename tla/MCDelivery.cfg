CONSTANTS
  Users = {u1, u2}
  Nobody = Nobody
  MaxWorkers = 1
  MaxAttempts = 1
  MaxBatch = 1
  MaxUpdates = 1
SPECIFICATION Spec
SYMMETRY Symmetry
INVARIANTS
  DeletedLeavesNothing
  AcknowledgesWhatItRead
  DeletionCancelsSends
  ItemInFlightHasRow
  WorkersCounted
  CheckedMeansEligible
PROPERTIES
  AcceptedIsAcknowledged
