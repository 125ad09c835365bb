CONSTANTS
  Node = {n1, n2}
  Conn = {c1, c2}
  Address = {lan, loop}
  Loopback = {loop}
  HelloMsg <- MCHello
  AckMsg <- MCAck
  AppMsg <- MCApp
  Faults = {"timeout", "cancel", "raise", "error", "reset", "idle", "stop", "crash"}
  MaxInbox = 1
  None = None
SPECIFICATION Spec
SYMMETRY Symmetry
INVARIANTS OneEntryPerIdentity InboundStaysFiled AnnouncedHasReader RegisteredIsServed NeverOwnPeer
