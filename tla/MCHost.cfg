SPECIFICATION Spec
CONSTANTS
  Main = main
  Clients = {c1}
  MaxTotal = 1
  MaxBoots = 1
INVARIANTS RtOnLiveMaster OneBusOwner PumpedOnceUp NeverBlockedOnline ThreadJoinedOnce LastSaveIsWhole
PROPERTIES BootKeepsTotal ExitEnds
CHECK_DEADLOCK FALSE
