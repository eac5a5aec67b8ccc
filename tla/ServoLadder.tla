---------------------------- MODULE ServoLadder ----------------------------
(***************************************************************************)
(* The host's state machine and the drive, one bus cycle after the other:  *)
(* enabling rung by rung and the fault-reset pulse.  Every target of the   *)
(* class may be set between any two cycles, a fault reset may be requested *)
(* at any time (also while one is in progress) and the drive may trip      *)
(* MaxTrips times.                                                         *)
(***************************************************************************)
EXTENDS MockDrive

CONSTANTS Targets,      \* the targets the application sets
          MaxTrips      \* bound on the number of drive faults

ASSUME TargetsAssumption == Targets \subseteq Cia402Target
ASSUME MaxTripsAssumption == MaxTrips \in Nat

VARIABLES cia,          \* the host's Cia402StateMachine
          drive,        \* the drive
          trips         \* faults so far (bounds the model)

vars == <<cia, drive, trips>>

TypeOK ==
  /\ cia \in Cia402Machine
  /\ drive \in Drive
  /\ trips \in 0 .. MaxTrips

Init ==
  /\ cia = Cia402Init
  /\ drive = driveInit
  /\ trips = 0

(* One bus cycle: readInputs, update, writeOutputs, and the drive's step.  *)
Cycle ==
  /\ cia' = update(cia, drive.sw)
  /\ drive' = updateCia402(drive, controlword(cia, drive.sw))
  /\ UNCHANGED trips

SetTarget(t) ==
  /\ cia' = setTarget(cia, t)
  /\ UNCHANGED <<drive, trips>>

RequestFaultReset ==
  /\ cia' = requestFaultReset(cia)
  /\ UNCHANGED <<drive, trips>>

Trip ==
  /\ trips < MaxTrips
  /\ ~drive.fault
  /\ drive' = driveTrip(drive)
  /\ trips' = trips + 1
  /\ UNCHANGED cia

Next ==
  \/ Cycle
  \/ \E t \in Targets : SetTarget(t)
  \/ RequestFaultReset
  \/ Trip

(* The bus cycle is a periodic thread: it always comes.  The operator and  *)
(* the drive's faults are under no obligation.                             *)
Spec == Init /\ [][Next]_vars /\ WF_vars(Cycle)

-----------------------------------------------------------------------------
(* Every reset pulse is a rising edge for the drive: when the machine is   *)
(* about to raise bit 7, the last word the drive saw had it low, however   *)
(* requests, earlier pulses and faults interleaved (the Low phase and the  *)
(* kept word without bit 7 in Cia402StateMachine::update).                 *)
ResetPulseIsEdge ==
  cia.frPhase = "High" /\ cia.frCounter = 0 => 7 \notin drive.lastCw

(* A pulse that reaches a drive in fault clears the fault in its first     *)
(* cycle: no reset the operator asks for is lost.                          *)
ResetClears ==
  [][Cycle /\ cia.frPhase = "High" /\ cia.frCounter = 0 => ~drive'.fault]_vars

(* The drive enters Operation Enabled only from Switched On: the sequence  *)
(* 06-07-0F is never skipped, not after a fault, a quick stop or a reset,  *)
(* for any interleaving of targets (the EnableOperation branch of update   *)
(* and the word it keeps after a reset).                                   *)
NoRungSkipped ==
  [][DriveState(drive') = "OperationEnabled"
       => DriveState(drive) \in {"SwitchedOn", "OperationEnabled"}]_vars

(* In fault the host offers no power: only an explicit reset leads out,    *)
(* and the word kept for Idle does not re-enable the drive afterwards.     *)
(* So a fault is left for Switch On Disabled only.                         *)
FaultLeadsToDisabled ==
  [][drive.fault /\ ~drive'.fault => DriveState(drive') = "SwitchOnDisabled"
                                     /\ cia'.lastCw = kCmdDisableVoltage]_vars

(* An enable request that stays is honoured: when from some time on the    *)
(* target is Enable Operation, nobody resets and the drive is not in       *)
(* fault, the drive ends up, and stays, in Operation Enabled.              *)
EnableReached ==
  <>[](cia.target = "EnableOperation" /\ cia.frPhase = "None" /\ ~drive.fault)
    => <>[](DriveState(drive) = "OperationEnabled")
=============================================================================
