CONSTANTS
  a = a
  b = b
  c = c
  d = d
  Node = {a, b, c, d}
  Links <- TriangleAndLeaf
  Changing <- SomeEnds
  Dials = 2
  Callers = {d}
  Query = {q1}
  Offering = {b}
  DiscoverTTL = 3
  FindTTL = 5
  None = None
SPECIFICATION FairSpec
INVARIANTS ServedOnce OffersAskerOnlyStale
PROPERTIES ForwardedBlindly FloodEnds
CHECK_DEADLOCK FALSE
