-------------------------- MODULE ServoLadderProofs --------------------------
(***************************************************************************)
(* Proofs about the state machine and the drive: for every length FrHold   *)
(* of the reset pulse, every set of targets and every number of faults.    *)
(***************************************************************************)
EXTENDS ServoLadder, Cia402Lemmas

-----------------------------------------------------------------------------
(* Type correctness.                                                       *)

(* The type invariant is kept whatever the targets, resets and faults.     *)
THEOREM TypeCorrect == Spec => []TypeOK
<1>1. Init => TypeOK
  BY MaxTripsAssumption
     DEF Init, TypeOK, Cia402Init, Cia402Machine, Cia402Target, Cia402State,
         Controlword, driveInit, Drive, Statusword, DriveWord, kCmdDisableVoltage
<1>2. TypeOK /\ [Next]_vars => TypeOK'
  <2> SUFFICES ASSUME TypeOK, [Next]_vars PROVE TypeOK'
    OBVIOUS
  <2>0. drive.sw \in Statusword
    BY DEF TypeOK, Drive
  <2>1. CASE Cycle
    BY <2>0, <2>1, UpdateType, ControlwordType, DriveType DEF Cycle, TypeOK
  <2>2. ASSUME NEW t \in Targets, SetTarget(t) PROVE TypeOK'
    BY <2>2, TargetsAssumption DEF SetTarget, setTarget, TypeOK, Cia402Machine
  <2>3. CASE RequestFaultReset
    BY <2>3 DEF RequestFaultReset, requestFaultReset, TypeOK, Cia402Machine
  <2>4. CASE Trip
    <3>1. SwFaultReaction \in Statusword
      BY DEF Statusword
    <3>2. drive' \in Drive
      BY <2>4, <3>1 DEF Trip, driveTrip, TypeOK, Drive
    <3>3. trips' \in 0 .. MaxTrips
      BY <2>4, MaxTripsAssumption DEF Trip, TypeOK
    <3> QED BY <2>4, <3>2, <3>3 DEF Trip, TypeOK
  <2>5. CASE UNCHANGED vars
    BY <2>5 DEF vars, TypeOK
  <2> QED BY <2>1, <2>2, <2>3, <2>4, <2>5 DEF Next
<1> QED BY <1>1, <1>2, PTL DEF Spec

-----------------------------------------------------------------------------
(* The fault-reset pulse.                                                  *)

(* Every pulse is a rising edge: the low cycle before it has reached the   *)
(* drive, for every length of the pulse.                                   *)
THEOREM PulseIsEdge == Spec => []ResetPulseIsEdge
<1>1. Init => ResetPulseIsEdge
  BY DEF Init, Cia402Init, ResetPulseIsEdge
<1>2. TypeOK /\ ResetPulseIsEdge /\ [Next]_vars => ResetPulseIsEdge'
  <2> SUFFICES ASSUME TypeOK, ResetPulseIsEdge, [Next]_vars
               PROVE  ResetPulseIsEdge'
    OBVIOUS
  <2>0. /\ cia \in Cia402Machine /\ drive.sw \in Statusword
        /\ cia.frPhase \in {"None", "Low", "High"} /\ cia.frCounter \in Nat
    BY DEF TypeOK, Drive, Cia402Machine
  <2>1. CASE Cycle
    <3>1. /\ cia'.frPhase = NextPhase(cia) /\ cia'.frCounter = NextCounter(cia)
          /\ drive'.lastCw = controlword(cia, drive.sw)
      BY <2>0, <2>1 DEF Cycle, update, updateCia402, Cia402Machine, TypeOK, Drive
    <3>2. CASE cia.frPhase = "Low"
      BY <2>0, <3>1, <3>2, PhaseWord DEF ResetPulseIsEdge, kCmdDisableVoltage
    <3>3. CASE cia.frPhase = "High"
      <4>1. cia'.frPhase = "High" => cia'.frCounter = cia.frCounter + 1
        BY <3>1, <3>3 DEF NextPhase, NextCounter
      <4> QED BY <2>0, <4>1 DEF ResetPulseIsEdge
    <3>4. CASE cia.frPhase = "None"
      BY <3>1, <3>4 DEF NextPhase, ResetPulseIsEdge
    <3> QED BY <2>0, <3>2, <3>3, <3>4
  <2>2. ASSUME NEW t \in Targets, SetTarget(t) PROVE ResetPulseIsEdge'
    BY <2>0, <2>2 DEF SetTarget, setTarget, ResetPulseIsEdge, Cia402Machine
  <2>3. CASE RequestFaultReset
    BY <2>0, <2>3
       DEF RequestFaultReset, requestFaultReset, ResetPulseIsEdge, Cia402Machine
  <2>4. CASE Trip
    BY <2>4 DEF Trip, driveTrip, ResetPulseIsEdge, TypeOK, Drive
  <2>5. CASE UNCHANGED vars
    BY <2>5 DEF vars, ResetPulseIsEdge
  <2> QED BY <2>1, <2>2, <2>3, <2>4, <2>5 DEF Next
<1> QED BY <1>1, <1>2, TypeCorrect, PTL DEF Spec

(* So a pulse that reaches a drive in fault clears the fault.              *)
THEOREM PulseClears == Spec => ResetClears
<1>1. TypeOK /\ ResetPulseIsEdge /\ [Next]_vars
        => [Cycle /\ cia.frPhase = "High" /\ cia.frCounter = 0 => ~drive'.fault]_vars
  <2> SUFFICES ASSUME TypeOK, ResetPulseIsEdge,
                      Cycle, cia.frPhase = "High", cia.frCounter = 0
               PROVE  ~drive'.fault
    OBVIOUS
  <2>1. controlword(cia, drive.sw) = kFaultReset
    BY PhaseWord DEF TypeOK, Drive
  <2>2. faultResetEdge(drive, kFaultReset)
    BY DEF faultResetEdge, ResetPulseIsEdge, kFaultReset
  <2>3. drive' = updateCia402(drive, kFaultReset)
    BY <2>1 DEF Cycle
  <2>4. CASE drive.fault
    BY <2>2, <2>3, <2>4 DEF updateCia402
  <2>5. CASE ~drive.fault
    BY <2>3, <2>5 DEF updateCia402, TypeOK, Drive
  <2> QED BY <2>4, <2>5
<1> QED BY <1>1, TypeCorrect, PulseIsEdge, PTL DEF Spec, ResetClears

-----------------------------------------------------------------------------
(* The ladder.                                                             *)

(* What makes NoRungSkipped inductive: the word Idle would repeat enables  *)
(* the drive only if it is enabled already or in fault, and a drive in     *)
(* fault says so in its status word.                                       *)
KeptWordSafe ==
  /\ cia.lastCw = kCmdEnableOperation
       => drive.fault \/ DriveState(drive) = "OperationEnabled"
  /\ drive.fault => DriveState(drive) \in {"Fault", "FaultReactionActive"}

(* It holds always.                                                        *)
LEMMA KeptWordSafeAlways == Spec => []KeptWordSafe
<1>1. Init => KeptWordSafe
  BY WordsDiffer DEF Init, KeptWordSafe, Cia402Init, driveInit
<1>2. TypeOK /\ KeptWordSafe /\ [Next]_vars => KeptWordSafe'
  <2> SUFFICES ASSUME TypeOK, KeptWordSafe, [Next]_vars PROVE KeptWordSafe'
    OBVIOUS
  <2>0. cia \in Cia402Machine /\ drive \in Drive /\ drive.sw \in Statusword
    BY DEF TypeOK, Drive
  <2>1. CASE Cycle
    <3> DEFINE w == controlword(cia, drive.sw)
    <3>1. w \in DriveWord /\ drive' = updateCia402(drive, w)
      BY <2>0, <2>1, ControlwordType DEF Cycle
    <3>2. cia'.lastCw = KeptWord(cia, drive.sw)
      BY <2>0, <2>1 DEF Cycle, update, Cia402Machine
    <3>3. cia'.lastCw = kCmdEnableOperation => w = kCmdEnableOperation
      BY <3>2, WordsDiffer DEF KeptWord
    <3>4. drive'.fault => DriveState(drive') = "Fault"
      BY <2>0, <3>1, EnabledBy
    <3>5. w = kCmdEnableOperation => drive.fault \/ DriveState(drive') = "OperationEnabled"
      BY <2>0, <3>1, EnabledBy
    <3>6. drive.fault /\ w = kCmdEnableOperation => drive'.fault
      <4>1. 7 \notin kCmdEnableOperation
        BY DEF kCmdEnableOperation
      <4> QED BY <3>1, <4>1 DEF updateCia402, faultResetEdge
    <3> QED BY <3>3, <3>4, <3>5, <3>6 DEF KeptWordSafe
  <2>2. ASSUME NEW t \in Targets, SetTarget(t) PROVE KeptWordSafe'
    BY <2>0, <2>2 DEF SetTarget, setTarget, KeptWordSafe, Cia402Machine
  <2>3. CASE RequestFaultReset
    BY <2>0, <2>3 DEF RequestFaultReset, requestFaultReset, KeptWordSafe, Cia402Machine
  <2>4. CASE Trip
    <3>1. drive'.fault /\ drive'.sw = SwFaultReaction /\ cia' = cia
      BY <2>0, <2>4 DEF Trip, driveTrip, Drive
    <3> QED BY <3>1, Decoded DEF KeptWordSafe, DriveState
  <2>5. CASE UNCHANGED vars
    BY <2>5 DEF vars, KeptWordSafe
  <2> QED BY <2>1, <2>2, <2>3, <2>4, <2>5 DEF Next
<1> QED BY <1>1, <1>2, TypeCorrect, PTL DEF Spec

(* The enabling sequence is never skipped.                                 *)
THEOREM RungByRung == Spec => NoRungSkipped
<1>1. TypeOK /\ KeptWordSafe /\ [Next]_vars
        => [DriveState(drive') = "OperationEnabled"
              => DriveState(drive) \in {"SwitchedOn", "OperationEnabled"}]_vars
  <2> SUFFICES ASSUME TypeOK, KeptWordSafe, Next, DriveState(drive') = "OperationEnabled"
               PROVE  DriveState(drive) \in {"SwitchedOn", "OperationEnabled"}
    OBVIOUS
  <2>0. cia \in Cia402Machine /\ drive \in Drive /\ drive.sw \in Statusword
    BY DEF TypeOK, Drive
  <2>1. CASE Cycle
    <3>1. ~drive.fault /\ controlword(cia, drive.sw) = kCmdEnableOperation
      BY <2>0, <2>1, EnabledBy, ControlwordType DEF Cycle
    <3> QED BY <2>0, <3>1, EnablingWord DEF KeptWordSafe, DriveState
  <2>2. CASE Trip
    <3>1. drive'.sw = SwFaultReaction
      BY <2>0, <2>2 DEF Trip, driveTrip, Drive
    <3> QED BY <3>1, Decoded DEF DriveState
  <2>3. CASE drive' = drive
    BY <2>3
  <2> QED BY <2>1, <2>2, <2>3 DEF Next, SetTarget, RequestFaultReset
<1> QED BY <1>1, TypeCorrect, KeptWordSafeAlways, PTL DEF Spec, NoRungSkipped

(* A fault is left only for Switch On Disabled, with power switched off.   *)
THEOREM FaultLeft == Spec => FaultLeadsToDisabled
<1>1. TypeOK /\ [Next]_vars
        => [drive.fault /\ ~drive'.fault => DriveState(drive') = "SwitchOnDisabled"
                                            /\ cia'.lastCw = kCmdDisableVoltage]_vars
  <2> SUFFICES ASSUME TypeOK, Next, drive.fault, ~drive'.fault
               PROVE  DriveState(drive') = "SwitchOnDisabled"
                      /\ cia'.lastCw = kCmdDisableVoltage
    OBVIOUS
  <2>0. cia \in Cia402Machine /\ drive \in Drive /\ drive.sw \in Statusword
    BY DEF TypeOK, Drive
  <2>1. Cycle
    BY DEF Next, SetTarget, RequestFaultReset, Trip
  <2>2. drive'.sw = SwSwitchOnDisabled /\ 7 \in controlword(cia, drive.sw)
    BY <2>1 DEF Cycle, updateCia402, faultResetEdge
  <2>3. cia.frPhase # "None"
    <3>1. \A w \in Controlword : 7 \notin w
      BY DEF Controlword, kCmdDisableVoltage, kCmdQuickStop, kCmdShutdown,
             kCmdSwitchOn, kCmdEnableOperation
    <3> QED BY <2>0, <2>2, <3>1, PhaseWord
  <2>4. cia'.lastCw = kCmdDisableVoltage
    BY <2>0, <2>1, <2>3 DEF Cycle, update, KeptWord, Cia402Machine
  <2> QED BY <2>2, <2>4, Decoded DEF DriveState
<1> QED BY <1>1, TypeCorrect, PTL DEF Spec, FaultLeadsToDisabled
-----------------------------------------------------------------------------
(* Why an enable request is honoured: what TLC checks as EnableReached,    *)
(* without the fairness.                                                   *)

EnableWanted ==
  cia.target = "EnableOperation" /\ cia.frPhase = "None" /\ ~drive.fault

(* While it is wanted, every bus cycle takes the drive one rung up until it*)
(* is enabled, and no step in between takes it down: four cycles suffice,  *)
(* from any state and after any history of targets, resets and faults.     *)
THEOREM EnableClimbs ==
  Spec => [][EnableWanted /\ EnableWanted' =>
               \/ Rung(DriveState(drive)) = 4 /\ Rung(DriveState(drive')) = 4
               \/ Cycle /\ Rung(DriveState(drive')) = Rung(DriveState(drive)) + 1
               \/ ~Cycle /\ DriveState(drive') = DriveState(drive)]_vars
<1>1. ASSUME TypeOK, Next, EnableWanted, EnableWanted'
      PROVE  \/ Rung(DriveState(drive)) = 4 /\ Rung(DriveState(drive')) = 4
             \/ Cycle /\ Rung(DriveState(drive')) = Rung(DriveState(drive)) + 1
             \/ ~Cycle /\ DriveState(drive') = DriveState(drive)
  <2>1. cia \in Cia402Machine /\ drive \in Drive /\ drive.sw \in Statusword
    BY <1>1 DEF TypeOK, Drive
  <2>2. CASE Cycle
    <3>1. controlword(cia, drive.sw) = EnableWord(DriveState(drive))
      BY <1>1, <2>1, PhaseWord DEF EnableWanted, TargetWord, DriveState
    <3>2. drive' = updateCia402(drive, EnableWord(DriveState(drive)))
      BY <2>2, <3>1 DEF Cycle
    <3> QED BY <1>1, <2>1, <2>2, <3>2, NextRung DEF EnableWanted
  <2>3. CASE Trip
    BY <1>1, <2>1, <2>3 DEF Trip, driveTrip, Drive, EnableWanted
  <2>4. CASE drive' = drive
    BY <2>2, <2>4
  <2> QED BY <1>1, <2>2, <2>3, <2>4 DEF Next, SetTarget, RequestFaultReset
<1>2. TypeOK /\ [Next]_vars =>
        [EnableWanted /\ EnableWanted' =>
           \/ Rung(DriveState(drive)) = 4 /\ Rung(DriveState(drive')) = 4
           \/ Cycle /\ Rung(DriveState(drive')) = Rung(DriveState(drive)) + 1
           \/ ~Cycle /\ DriveState(drive') = DriveState(drive)]_vars
  BY <1>1
<1> QED BY <1>2, TypeCorrect, PTL DEF Spec
=============================================================================
