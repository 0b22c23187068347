CONSTANTS
  Cards = {c1, c2, u1}
  Undated = {u1}
  None = None
  Categories <- TwoCategories
  PageSize = 2
  InitialPages = 1
  AddedPages = 1
  RelativeDates = FALSE
  MaxDays = 2
  MaxRefreshes = 1
  MaxFailures = 1
SPECIFICATION FairSpec
INVARIANTS
  TypeOK
PROPERTIES
  NothingMissed
  UpdatesAreReal
  Discovered
