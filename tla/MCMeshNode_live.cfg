CONSTANTS
  n1 = n1
  n2 = n2
  lan = lan
  Node = {n1, n2}
  Conn = {c1, c2}
  Address = {lan}
  Loopback = {}
  Cap = {analyst}
  Configured <- OneConfigured
  Private = {n2}
  Allowed <- OneAllowed
  Offers <- OneOffers
  HelloMsg <- MCHello
  AckMsg <- MCAck
  AppMsg <- MCApp
  Faults = {"cancel", "raise"}
  MaxInbox = 1
  None = None
SPECIFICATION NodeFairSpec
PROPERTIES RoutesFollowTable HalfLinkResolved OrphanResolved
CHECK_DEADLOCK FALSE
