SPECIFICATION LifeSpec
CONSTANTS
  RingSize = 3
  LineLens <- MCLineLens
  Kernels <- MCKernels
  MaxLoads = 2
  MaxTimers = 2
  MaxKeygens = 1
  Lives <- MCLives
INVARIANTS
  TypeOK
  HarmConfined
  OneKey
PROPERTIES
  ComesUp
CHECK_DEADLOCK FALSE
