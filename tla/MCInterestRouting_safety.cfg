CONSTANTS
  Addr = {a1, a2}
  Cap = {analyst, writer}
  Related <- MCRelated
SPECIFICATION Spec
INVARIANTS CapsAreForwarded StaleRoutesAreDropped QueryReachesSomebody
