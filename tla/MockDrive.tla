------------------------------ MODULE MockDrive ------------------------------
(***************************************************************************)
(* The drive end of the bus: what the servo drive does with the control    *)
(* word of a cycle, as the simulated bus of the repository implements it   *)
(* (MockBus::updateCia402).  The drive is a record: the status word it     *)
(* returns, whether it is in fault, and the last control word, which it    *)
(* keeps to see the rising edge of bit 7.  The simulated drive never trips *)
(* by itself; the real one does, and driveTrip is that external event.     *)
(***************************************************************************)
EXTENDS Cia402

(* Status words 0x0208, 0x0250, 0x0217, 0x0231, 0x0233 and 0x0237; bit 10  *)
(* (target reached) is set in all but the first.                           *)
SwFault            == {3, 9}
SwSwitchOnDisabled == {4, 6, 9}
SwQuickStopActive  == {0, 1, 2, 4, 9, 10}
SwReadyToSwitchOn  == {0, 4, 5, 9, 10}
SwSwitchedOn       == {0, 1, 4, 5, 9, 10}
SwOperationEnabled == {0, 1, 2, 4, 5, 9, 10}
SwFaultReaction    == {0, 1, 2, 3, 9}

Statusword ==
  {SwFault, SwSwitchOnDisabled, SwSwitchOnDisabled \cup {10}, SwQuickStopActive,
   SwReadyToSwitchOn, SwSwitchedOn, SwOperationEnabled, SwFaultReaction}

DriveWord == Controlword \cup {kFaultReset}

Drive == [sw : Statusword, fault : BOOLEAN, lastCw : DriveWord]

driveInit == [sw |-> SwSwitchOnDisabled, fault |-> FALSE, lastCw |-> {}]

faultResetEdge(d, cw) == 7 \in cw /\ 7 \notin d.lastCw

(* The status word of a drive without fault: bit 1 is enable voltage, bit  *)
(* 2 quick stop (active low), bit 0 switch on, bit 3 enable operation.     *)
poweredWord(cw) ==
  CASE 1 \notin cw                                   -> SwSwitchOnDisabled \cup {10}
    [] 1 \in cw /\ 2 \notin cw                       -> SwQuickStopActive
    [] {1, 2} \subseteq cw /\ 0 \notin cw            -> SwReadyToSwitchOn
    [] {0, 1, 2} \subseteq cw /\ 3 \notin cw         -> SwSwitchedOn
    [] {0, 1, 2, 3} \subseteq cw                     -> SwOperationEnabled

updateCia402(d, cw) ==
  IF d.fault
    THEN [sw     |-> IF faultResetEdge(d, cw) THEN SwSwitchOnDisabled ELSE SwFault,
          fault  |-> ~faultResetEdge(d, cw),
          lastCw |-> cw]
    ELSE [d EXCEPT !.sw = poweredWord(cw), !.lastCw = cw]

(* The real drive trips: its fault reaction first, Fault one cycle later.  *)
driveTrip(d) == [d EXCEPT !.fault = TRUE, !.sw = SwFaultReaction]

DriveState(d) == decodeState(d.sw)
=============================================================================
