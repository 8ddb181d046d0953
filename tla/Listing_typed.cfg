SPECIFICATION Spec
CONSTANTS
  DIRECTORY_CAPACITY <- MCCapacity
  Sessions <- MCSessions
CHECK_DEADLOCK FALSE
INVARIANT TerminatorsAreRefused
