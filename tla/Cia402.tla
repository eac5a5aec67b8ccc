------------------------------- MODULE Cia402 -------------------------------
(***************************************************************************)
(* The CiA 402 state machine of the host (class Cia402StateMachine): which *)
(* control word to send in a bus cycle, given the status word the drive    *)
(* returned and the state the operator wants.                              *)
(*                                                                         *)
(* A control or status word is the set of the numbers of its bits that are *)
(* 1, so that a mask is an intersection.  The machine itself is a record   *)
(* and every operation is a function on it: this module has no variables,  *)
(* the modules that run the machine keep the record in one of theirs.      *)
(***************************************************************************)
EXTENDS Naturals

CONSTANT FrHold     \* cycles bit 7 is held high (requestFaultReset's argument)

ASSUME FrHoldAssumption == FrHold \in Nat

-----------------------------------------------------------------------------
(* Control words 0x0000, 0x0002, 0x0006, 0x0007, 0x000F and bit 7.         *)
kCmdDisableVoltage  == {}
kCmdQuickStop       == {1}
kCmdShutdown        == {1, 2}
kCmdSwitchOn        == {0, 1, 2}
kCmdEnableOperation == {0, 1, 2, 3}
kFaultReset         == {7}

Controlword ==
  {kCmdDisableVoltage, kCmdQuickStop, kCmdShutdown, kCmdSwitchOn,
   kCmdEnableOperation}

Cia402State ==
  {"NotReadyToSwitchOn", "SwitchOnDisabled", "ReadyToSwitchOn", "SwitchedOn",
   "OperationEnabled", "QuickStopActive", "FaultReactionActive", "Fault",
   "Unknown"}

Cia402Target ==
  {"Idle", "Shutdown", "SwitchOn", "EnableOperation", "DisableOperation",
   "DisableVoltage", "QuickStop"}

(* The state a status word stands for: masks 0x004F (bits 0-3 and 6) and   *)
(* 0x006F (bit 5 too).                                                     *)
decodeState(sw) ==
  LET wide   == sw \cap {0, 1, 2, 3, 6}
      narrow == sw \cap {0, 1, 2, 3, 5, 6}
  IN CASE wide = {}              -> "NotReadyToSwitchOn"
       [] wide = {6}             -> "SwitchOnDisabled"
       [] narrow = {0, 5}        -> "ReadyToSwitchOn"
       [] narrow = {0, 1, 5}     -> "SwitchedOn"
       [] narrow = {0, 1, 2, 5}  -> "OperationEnabled"
       [] narrow = {0, 1, 2}     -> "QuickStopActive"
       [] wide = {0, 1, 2, 3}    -> "FaultReactionActive"
       [] wide = {3}             -> "Fault"
       [] OTHER                  -> "Unknown"

-----------------------------------------------------------------------------
(* The machine: the target set last, the state decoded last, the last      *)
(* control word, and the phase of a fault reset with its cycle counter.    *)
Cia402Machine ==
  [target : Cia402Target, state : Cia402State, lastCw : Controlword,
   frPhase : {"None", "Low", "High"}, frCounter : Nat]

Cia402Init ==
  [target |-> "Idle", state |-> "Unknown", lastCw |-> kCmdDisableVoltage,
   frPhase |-> "None", frCounter |-> 0]

setTarget(m, target) == [m EXCEPT !.target = target]

(* A slip: the pulse without the low cycle before it.                      *)
requestFaultResetHigh(m) == [m EXCEPT !.frPhase = "High", !.frCounter = 0]

requestFaultReset(m) == [m EXCEPT !.frPhase = "Low", !.frCounter = 0]

(* Slips for the mutants of the runs: the rung 07 forgotten, and 0F sent   *)
(* from any state.                                                         *)
EnableWordShort(state) ==
  CASE state = "SwitchOnDisabled" -> kCmdShutdown
    [] state \in {"SwitchedOn", "OperationEnabled"} -> kCmdEnableOperation
    [] OTHER                      -> kCmdDisableVoltage

EnableWordJump(state) == kCmdEnableOperation

(* One rung up the ladder; in fault, and wherever else, no power.          *)
EnableWord(state) ==
  CASE state = "SwitchOnDisabled" -> kCmdShutdown
    [] state = "ReadyToSwitchOn"  -> kCmdSwitchOn
    [] state \in {"SwitchedOn", "OperationEnabled"} -> kCmdEnableOperation
    [] OTHER                      -> kCmdDisableVoltage

(* The word for a target and a decoded state; Idle repeats the last word.  *)
TargetWord(target, state, last) ==
  CASE target = "Idle"            -> last
    [] target = "DisableVoltage"  -> kCmdDisableVoltage
    [] target = "QuickStop"       -> kCmdQuickStop
    [] target = "Shutdown"        -> kCmdShutdown
    [] target \in {"SwitchOn", "DisableOperation"} ->
         IF state = "SwitchOnDisabled" THEN kCmdShutdown ELSE kCmdSwitchOn
    [] target = "EnableOperation" -> EnableWord(state)

(* What update() returns: a fault reset in progress overrides the target.  *)
controlword(m, sw) ==
  CASE m.frPhase = "Low"  -> kCmdDisableVoltage
    [] m.frPhase = "High" -> kCmdDisableVoltage \cup kFaultReset
    [] m.frPhase = "None" -> TargetWord(m.target, decodeState(sw), m.lastCw)

(* The end of a cycle of the High phase: update() counts the cycle and     *)
(* leaves the phase when it has been held for FrHold cycles (at least 1).  *)
HoldOver(m) == m.frCounter + 1 >= FrHold

(* Slip: the word from before the reset is kept.                           *)
KeptWordStale(m, sw) == IF m.frPhase = "None" THEN controlword(m, sw) ELSE m.lastCw

(* The last word, for the next cycle: after a cycle of a reset it is the   *)
(* one without bit 7.                                                      *)
KeptWord(m, sw) ==
  IF m.frPhase = "None" THEN controlword(m, sw) ELSE kCmdDisableVoltage

(* Low for one cycle, High for FrHold cycles.                              *)
NextPhase(m) ==
  CASE m.frPhase = "Low"  -> "High"
    [] m.frPhase = "High" -> IF HoldOver(m) THEN "None" ELSE "High"
    [] m.frPhase = "None" -> "None"

NextCounter(m) ==
  CASE m.frPhase = "Low"  -> 0
    [] m.frPhase = "High" -> IF HoldOver(m) THEN 0 ELSE m.frCounter + 1
    [] m.frPhase = "None" -> m.frCounter

(* What update() leaves behind.                                            *)
update(m, sw) ==
  [m EXCEPT !.state = decodeState(sw), !.lastCw = KeptWord(m, sw),
            !.frPhase = NextPhase(m), !.frCounter = NextCounter(m)]
=============================================================================
