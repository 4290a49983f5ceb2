CONSTANTS
  LineSize = 15
  UrlSize = 12
  MaxPath = 3
  LineLengths = {6, 13, 14, 15, 27, 28, 29}
  IntLimit = 30
  Symbols <- MCSymbols
  Requests <- MCRequests
SPECIFICATION Spec
INVARIANTS TypeOK HeadEndsAtEmptyLine UnderstoodAsSent
PROPERTY HeadEnds
