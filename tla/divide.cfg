SPECIFICATION LiveSpec
CONSTANTS
  Threads = {0, 1}
  Depth = 2
  XLEN = 4
  Programs <- All
VIEW View
INVARIANTS
  TypeOK
  PartialDivision
  SlotMatchesWindow
  UndisputedRight
PROPERTY OldestRetires
