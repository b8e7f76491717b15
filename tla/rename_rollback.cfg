SPECIFICATION Spec
CONSTANTS
  Depth = 4
  Width = 3
  CdbWidth = 3
  NRegs = 1
  NVals = 2
  Program <- Loop
INVARIANTS RatNamesYoungest
