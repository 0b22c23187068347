CONSTANTS
  Users = {a, b}
  None = None
  Rate = 1
  MaxUpdates = 3
  MaxCrashes = 1
SPECIFICATION FairSpec
INVARIANTS
  StateMatchesOffset
  RejectedAreTold
PROPERTIES
  DecisionStands
  Handled
