CONSTANTS
  Pages = 3
  PageWords = 2
  MaxValue = 2
  ListCap = 2
  RefreshLimit = 2
  AnyRefresh = FALSE
  MaxScans = 2
  MaxActivity = 2
SPECIFICATION Spec
INVARIANTS TypeOK FileFormat ListMatchesFile ResultsAreSound NoFalseDismissal
PROPERTY ImplementsCandidateSearch
