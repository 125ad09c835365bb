CONSTANTS
  n1 = n1
  n2 = n2
  lan = lan
  Node = {n1, n2}
  Conn = {c1, c2}
  Address = {lan}
  Loopback = {}
  Cap = {analyst}
  Configured <- OneConfigured
  Private = {}
  Allowed <- NobodyAllowed
  Offers <- OneOffers
  HelloMsg <- MCHello
  AckMsg <- MCAck
  AppMsg <- MCApp
  Faults = {"idle", "reset", "error", "raise", "timeout", "cancel", "stop", "crash"}
  MaxInbox = 1
  None = None
SPECIFICATION NodeSpec
SYMMETRY ConnSymmetry
INVARIANTS RoutedHasReader ReachedIsKept OneDialPerLoop
PROPERTY LoopEndsConnected
