CONSTANTS
  None = None
  Fresh = 3
  Cooldown = 2
  MaxElapsed = 1
  ChallengeCrawls = 2
  FailureLimit = 2
SPECIFICATION FairSpec
INVARIANTS
  AlertsExact
  ReadyIsEarned
PROPERTIES
  RatesSpaced
  StopEnds
  CrawlsAgain
