CONSTANTS
  NODE_CNT = 4
  MaxHop = 1000
  Maps <- SmallMaps
  Starts = {0, 1, 2, 3}
  Inputs <- SmallInputs
  MaxBoots = 1
  Unknown = Unknown
SPECIFICATION SysSpec
INVARIANTS
  NoStaleDone
  CopiesCore
  RecursionBounded
PROPERTIES
  PathIsPrinted
  UsesCore
