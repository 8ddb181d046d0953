SPECIFICATION Spec
CONSTANTS
  StreamBytes = 1
  Start = 4
  FragmentBits = 16
  UsizeRange = 65536
  Bits <- WellFormedBits
  Params <- WellFormed
  Builds <- ReleaseBuild
CHECK_DEADLOCK FALSE
INVARIANTS EveryBitIsAssigned
