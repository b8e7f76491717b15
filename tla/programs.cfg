\* Every program and kernel; a wrong path is two lines long.
CONSTANTS
  Jobs <- AllJobs
  Window = 2
SPECIFICATION Spec
INVARIANTS
  SoundCorePasses
  KernelsCompute
  AccessesAligned
  TextAssembles
  FaultsCaught
PROPERTY Ends
