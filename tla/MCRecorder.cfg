SPECIFICATION Spec
CONSTANTS
  Clients = {c1}
  Main = main
  Cap = 3
  Batch = 2
  MaxWaits = 1
  MaxEra = 2
INVARIANTS ActiveHasFile NoHole NoResidue
PROPERTIES ClosesWhole ClosedBeforeNext EndsClosed
CHECK_DEADLOCK FALSE
