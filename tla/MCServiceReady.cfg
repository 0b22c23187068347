CONSTANTS
  None = None
  Fresh = 3
  Cooldown = 2
  MaxElapsed = 1
  ChallengeCrawls = 2
  FailureLimit = 3
SPECIFICATION Spec
INVARIANT
  FaultKeepsUnready
