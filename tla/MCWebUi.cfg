\* Two processes and two addresses; at most two presets in all and three
\* requests and replies under way.
CONSTANTS
  Pid = {p1, p2}
  Addr = {a1, a2}
  NoPid = NoPid
  MaxPresets = 2
  MaxInFlight = 3
SYMMETRY Symmetry
VIEW Seen
CONSTRAINT NoAccident
SPECIFICATION Spec
\* The bounds on requests may leave nothing to do.
CHECK_DEADLOCK FALSE
INVARIANT TypeOK  ValuesBelong
PROPERTY WritesGoHome RefineMeansSearching
