CONSTANTS
  NODE_CNT = 4
  MaxHop = 2127
  Maps <- AllSmallMaps
  Starts = {0, 2}
  Unknown = Unknown
SPECIFICATION QuietSpec
INVARIANTS
  NoCarryLost
  TakesNearest
  DoneCertified
