\* Four pages of which the last is above kernelBase.
CONSTANTS
  Top = 4
  KernelPage = 3
  Wrap = 8
  Byte = {0, 1}
  PageBytes = 4
  DWordRange = 64
SPECIFICATION Spec
INVARIANTS TypeOK RegionsApart ReportsAreMatches
PROPERTIES SteadyPagesListed SearchEnds
