CONSTANTS
  Listings = {l1, l2}
  Filters = {f1, f2}
  None = None
  Limit = 1
  CrashesHappen = TRUE
SPECIFICATION Spec
SYMMETRY Symmetry
INVARIANTS
  NothingLost
PROPERTIES
  SentOncePerChange
  FilterReleasesNothing
  ImplementsOutbox
