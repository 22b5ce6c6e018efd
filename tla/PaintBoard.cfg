CONSTANTS
  XMax = 3
  YMax = 1
  Bytes = {0, 2, 255}
  Buttons = {1, 2, 3}
  Columns = 3
  Row = 5
  Tails1 = {7, 8}
  Tails2 = {2, 3}
  Base = 2
  Half = 2
SPECIFICATION BoardSpec
INVARIANTS
  GreetingSurvives
  PositionShown
PROPERTIES
  EqualReportsMoveOnce
  EndsOnFarEdge
