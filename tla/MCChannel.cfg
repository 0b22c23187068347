CONSTANTS
  Listings = {l1}
  Filters = {f1, f2}
  Texts = {t1, t2}
  None = None
  Limit = 1
  PageSize = 1
SPECIFICATION Spec
SYMMETRY Symmetry
INVARIANTS
  NothingForgotten
PROPERTIES
  NoKnownDuplicate
