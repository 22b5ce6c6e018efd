CONSTANTS
  Sizes = {4, 8}
  MaxReports = 2
  MaxFaults = 1
SPECIFICATION FairSpec
INVARIANTS
  EnumeratedInOrder
  SizeOfThisMouse
  ReportsComplete
  NeverStuck
PROPERTIES
  MouseServed
CONSTRAINT OneCause
CHECK_DEADLOCK FALSE
