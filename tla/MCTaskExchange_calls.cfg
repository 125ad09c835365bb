CONSTANTS
  n1 = n1
  n2 = n2
  hub = hub
  Node = {n1, n2, hub}
  Late = {n1}
  Relay = {hub}
  Links <- Star
  Asks <- BothWays
  MaxTask = 3
  Faults = {"raise", "pressure", "limit", "lost"}
  None = None
SPECIFICATION FairSpec
INVARIANT HeldOnce
PROPERTIES ImplementsRemoteCall ReadersRecover
CHECK_DEADLOCK FALSE
