CONSTANTS
  Node = {n1, n2}
  Conn = {c1, c2}
  Address = {lan}
  Loopback = {}
  HelloMsg <- MCHello
  AckMsg <- MCAck
  AppMsg <- MCApp
  Faults = {}
  MaxInbox = 0
  None = None
SPECIFICATION Spec
INVARIANTS SimultaneousOpenLinks
CHECK_DEADLOCK FALSE
