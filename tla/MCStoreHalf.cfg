SPECIFICATION Spec
CONSTANTS
  Main = main
  Clients = {c1}
  MaxTotal = 1
  MaxBoots = 1
INVARIANT NeverHalf
CHECK_DEADLOCK FALSE
