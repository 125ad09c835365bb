CONSTANTS
  k1 = k1
  k2 = k2
  o1 = o1
  o2 = o2
  i1 = i1
  Conn = {o1, o2, i1}
  Dialled = {o1, o2}
  Key = {k1, k2}
  KeyOf <- Keys
  MayStall = {o1}
  Called = {k1}
  None = None
SPECIFICATION FairSpec
INVARIANTS NamedUnlessRaced StopClosesTheRest
PROPERTIES GoneAreForgotten StopReturns
CHECK_DEADLOCK FALSE
