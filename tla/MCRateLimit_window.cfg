CONSTANTS
  Key = {k1}
  Limit = 2
  Window = 2
  MaxTime = 6
  MaxMessages = 6
SPECIFICATION Spec
INVARIANTS NoFalseDrop AtMostTwice LostForCause
CHECK_DEADLOCK FALSE
