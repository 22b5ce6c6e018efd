CONSTANTS
  H_SYNC_CYC = 2
  H_SYNC_BACK = 1
  H_SYNC_ACT = 16
  H_SYNC_TOTAL = 33
  V_SYNC_CYC = 1
  V_SYNC_BACK = 1
  V_SYNC_ACT = 3
  V_SYNC_TOTAL = 6
  CursorXs = {1, 7, 10}
  CursorYs = {1, 2}
  MaxResets = 1
SPECIFICATION Spec
INVARIANTS
  ShowsPixel
PROPERTIES
  CrossOverPixel
  EveryPlaceShown
