SPECIFICATION Spec
CONSTANTS
  Threads = {0}
  Depth = 2
  XLEN = 4
  Programs <- EachAlone
VIEW View
INVARIANT DivisionsRight
