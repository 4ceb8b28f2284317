CONSTANTS
  Koros = {k1, k2}
  None = none
  Places <- SmallPlaces
  Word = 4
  Magic = 8
  Alignment = 8
  Context = 3
  Made <- MadeWords
  Entry = 1
  Slots <- Registers
  Watched = {w1}
  MaxFrame = 2
  MaxBelow = 1
SPECIFICATION Spec
SYMMETRY Symmetry
INVARIANTS LayoutInMemory WatermarkIsPeak BreakpointsBalanced
PROPERTIES OverflowNoticed
CHECK_DEADLOCK FALSE
