CONSTANTS
  Pages = 2
  PageWords = 2
  MaxValue = 1
  ListCap = 2
  RefreshLimit = 2
  AnyRefresh = TRUE
  MaxScans = 2
  MaxActivity = 1
SPECIFICATION Spec
INVARIANT FileFormat
