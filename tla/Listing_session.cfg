SPECIFICATION Spec
CONSTANTS
  DIRECTORY_CAPACITY <- MCCapacity
  Sessions <- MCSessions
CHECK_DEADLOCK FALSE
INVARIANTS TypeOK DamageIsNoticed TornWritesAreNoticed StaleSlotsPlayNoPart TextDenotesItsPath PlainNamesReadBack
