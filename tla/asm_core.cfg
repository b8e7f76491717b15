\* Both assemblers over every mnemonic and over short programs.
CONSTANT Jobs <- Jobs_All
SPECIFICATION Spec
INVARIANTS
  LayoutAgrees
  CoreReadsTheSource
  RefusesOnlyTooFar
  LiLoads
  PortAgrees
\* An assembly ends.
CHECK_DEADLOCK FALSE
