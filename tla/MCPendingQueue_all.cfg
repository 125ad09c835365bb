CONSTANTS
  Task = {t1, t2, t3}
  Faults = {"write", "read", "crash", "raise"}
  MaxFailures = 2
SPECIFICATION FairSpec
INVARIANTS OneLinePerTask InOnePlace LossIsBounded
PROPERTIES ImplementsOutbox QueuedIsSettled
CHECK_DEADLOCK FALSE
