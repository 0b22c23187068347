CONSTANTS
  Listings = {l1, l2}
  Filters = {f1}
  Texts = {t1}
  None = None
  Limit = 1
  PageSize = 1
SPECIFICATION FairSpec
PROPERTIES
  PendingIsPublished
