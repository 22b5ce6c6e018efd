CONSTANTS
  VGA_WIDTH = 7
  VGA_HEIGHT = 6
  Coords <- OnAndOff
SPECIFICATION Spec
INVARIANTS
  WithinHalf
  OnScreen
  EndsMeet
CHECK_DEADLOCK FALSE
