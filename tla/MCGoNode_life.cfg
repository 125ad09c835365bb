CONSTANTS
  Cap = {analyst}
  Offers <- MCOffers
  MaxRegister = 2
  Interval = 2
  Jitter = 1
  PutTime = 1
  TTL = 11
  MaxMisses = 1
  Faults = {"crash", "delete", "subscribe"}
  None = None
SPECIFICATION FairSpec
INVARIANTS ListedWhileRunning GoneAfterDisconnect
PROPERTIES RegistryCatchesUp DisconnectReturns DeadAreForgotten
CHECK_DEADLOCK FALSE
