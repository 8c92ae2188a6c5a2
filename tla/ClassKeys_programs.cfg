SPECIFICATION Spec
CONSTANTS
  Classes <- MCClasses
  None = None
  Programs <- MCPrograms
  Modulus = 4096
INVARIANT DerivedTestsHold
INVARIANT WrongHitsNeedTwins
CHECK_DEADLOCK FALSE
