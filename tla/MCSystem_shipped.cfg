CONSTANTS
  NODE_CNT = 16
  MaxHop = 258
  Maps <- ShippedMap
  Starts = {0, 1, 2, 3, 4, 5, 6, 7, 8, 9, 10, 11, 12, 13, 14, 15}
  Inputs <- ShippedInputs
  MaxBoots = 0
  Unknown = Unknown
SPECIFICATION SysSpec
INVARIANTS
  PrintsShortestPath
