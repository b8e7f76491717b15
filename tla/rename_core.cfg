SPECIFICATION LiveSpec
CONSTANTS
  Depth = 3
  Width = 3
  CdbWidth = 2
  NRegs = 2
  NVals = 2
  Program <- Core
INVARIANTS TypeOK WindowOK RenamingOK NoLostWakeup
PROPERTIES ExecutesInOrder HaltIsPrecise OldestRetires
VIEW View
CONSTRAINT Settled
