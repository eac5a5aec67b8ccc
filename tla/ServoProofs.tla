----------------------------- MODULE ServoProofs -----------------------------
(***************************************************************************)
(* Proofs about the servo core of RealtimeTask, for every number of IPC    *)
(* threads, every set of modes and speeds, and every timeout.              *)
(***************************************************************************)
EXTENDS ServoSafety, Cia402Lemmas, SequenceTheorems

-----------------------------------------------------------------------------
(* Types.                                                                  *)

(* Speeds are integers, and a step towards a speed stays between.          *)
LEMMA SpeedArith ==
  ASSUME NEW a \in Speed, NEW b \in Speed
  PROVE  /\ a \in Int /\ Abs(a) \in Nat
         /\ Toward(a, b) \in Speed
         /\ 0 \in Speed
         /\ \A step \in Nat \ {0} : /\ slewLimit(a, b, step) \in Speed
                                   /\ RampStep(a, step) \in Speed
BY SpeedAssumption DEF Speed, Abs, Toward, slewLimit, RampStep

(* The frame carries a word the drive knows, a mode and a speed.           *)
LEMMA ExchangeType ==
  ASSUME NEW word \in DriveWord, NEW mode \in Modes \cup {"CSV", "None"},
         NEW target \in Speed, TypeOK, Exchange(word, mode, target)
  PROVE  /\ sent' \in Speed /\ ecOp' \in BOOLEAN /\ drive' \in Drive
         /\ display' \in Modes \cup {"CSV", "None"} /\ vel' \in Speed
<1>1. sent' \in Speed /\ ecOp' \in BOOLEAN
  BY DEF Exchange, TypeOK
<1>2. drive' \in Drive
  BY DriveType DEF Exchange, TypeOK
<1>3. display' \in Modes \cup {"CSV", "None"}
  BY DEF Exchange, TypeOK
<1>4. \A state, v : v \in JointSpeed(state, mode, target) => v \in Speed
  BY SpeedArith, ZenonT(60) DEF JointSpeed, TypeOK
<1>5. vel' \in Speed
  BY <1>4 DEF Exchange, TypeOK
<1> QED BY <1>1, <1>2, <1>3, <1>5

(* The sequences of stores the operations make.                            *)
LEMMA StoresType ==
  /\ stopRunStores \in Seq(Stores)
  /\ servoDisableStores \in Seq(Stores)
  /\ startRunStores \in Seq(Stores)
  /\ <<>> \in Seq(Stores)
  /\ <<<<"quit", TRUE>>>> \in Seq(Stores)
  /\ <<<<"desired_target", "EnableOperation">>>> \in Seq(Stores)
  /\ <<<<"fault_reset_req", TRUE>>>> \in Seq(Stores)
  /\ <<<<"run_req", FALSE>>, <<"desired_target", "QuickStop">>>> \in Seq(Stores)
  /\ \A m \in Modes : <<<<"desired_mode", m>>>> \in Seq(Stores)
<1>1. \A value \in BOOLEAN :
        \A name \in {"run_req", "stopping", "fault_reset_req", "quit"} :
          <<name, value>> \in Stores
  BY DEF Stores
<1>2. \A target \in CommandTarget : <<"desired_target", target>> \in Stores
  BY DEF Stores
<1>3. \A m \in Modes : <<"desired_mode", m>> \in Stores
  BY DEF Stores
<1>4. /\ <<"run_req", FALSE>> \in Stores /\ <<"run_req", TRUE>> \in Stores
      /\ <<"stopping", FALSE>> \in Stores /\ <<"stopping", TRUE>> \in Stores
      /\ <<"quit", TRUE>> \in Stores /\ <<"fault_reset_req", TRUE>> \in Stores
  BY <1>1
<1>5. /\ <<"desired_target", "EnableOperation">> \in Stores
      /\ <<"desired_target", "DisableVoltage">> \in Stores
      /\ <<"desired_target", "QuickStop">> \in Stores
  BY <1>2 DEF CommandTarget
<1>6. stopRunStores \in Seq(Stores)
  BY <1>4 DEF stopRunStores
<1>7. <<<<"desired_target", "DisableVoltage">>>> \in Seq(Stores)
  BY <1>5
<1>8. servoDisableStores \in Seq(Stores)
  BY <1>6, <1>7 DEF servoDisableStores
<1>9. startRunStores \in Seq(Stores)
  BY <1>4 DEF startRunStores
<1>10. /\ <<<<"quit", TRUE>>>> \in Seq(Stores)
       /\ <<<<"fault_reset_req", TRUE>>>> \in Seq(Stores)
       /\ <<<<"desired_target", "EnableOperation">>>> \in Seq(Stores)
       /\ <<<<"run_req", FALSE>>, <<"desired_target", "QuickStop">>>> \in Seq(Stores)
  BY <1>4, <1>5
<1>11. ASSUME NEW m \in Modes PROVE <<<<"desired_mode", m>>>> \in Seq(Stores)
  <2>1. <<"desired_mode", m>> \in Stores
    BY <1>3
  <2> QED BY <2>1
<1> QED BY <1>6, <1>8, <1>9, <1>10, <1>11

(* A store of the right type leaves the atomics with theirs.               *)
LEMMA StoreValue ==
  ASSUME NEW s \in Stores
  PROVE  /\ s[1] = "desired_target" => s[2] \in CommandTarget
         /\ s[1] = "desired_mode" => s[2] \in Modes
         /\ s[1] \in {"run_req", "stopping", "fault_reset_req", "quit"}
              => s[2] \in BOOLEAN
BY DEF Stores

(* A cycle's count of waiting.                                             *)
LEMMA WaitedType == TypeOK => Waited \in 0 .. (Timeout + 1)
BY CycleAssumption DEF TypeOK, Waited

-----------------------------------------------------------------------------
(* The types, step by step.                                                *)

(* At the start every variable has its type.                               *)
LEMMA InitType == Init => TypeOK
<1> SUFFICES ASSUME Init PROVE TypeOK
  OBVIOUS
<1>1. Cia402Init \in Cia402Machine /\ kCmdDisableVoltage \in DriveWord
  BY DEF Cia402Init, Cia402Machine, Cia402Target, Cia402State, Controlword, DriveWord
<1>2. driveInit \in Drive
  BY DEF driveInit, Drive, Statusword, DriveWord, Controlword, kCmdDisableVoltage
<1>3. 0 \in Speed
  BY SpeedAssumption DEF Speed
<1>4. todo \in [Threads -> Seq(Stores)]
  BY StoresType DEF Init
<1>5. snap \in [cia : Cia402State, op : BOOLEAN, matched : BOOLEAN, vel : Speed,
                stopping : BOOLEAN]
  BY <1>3 DEF Init, Cia402State
<1>6. /\ {run_req, stopping, fault_reset_req, quit} \subseteq BOOLEAN
      /\ {mode_matched, running} \subseteq BOOLEAN /\ ecOp \in BOOLEAN
  BY DEF Init
<1>7. out \in [vel : Speed, trq : Int] /\ sent \in Speed /\ vel \in Speed
  BY <1>3 DEF Init
<1>8. wait \in 0 .. (Timeout + 1) /\ cuts \in 0 .. ExitCycles
  BY CycleAssumption DEF Init
<1> QED BY <1>1, <1>2, <1>4, <1>5, <1>6, <1>7, <1>8
        DEF Init, TypeOK, MainPc, RtPc

(* A cycle's first step keeps the types: machine, word and wait counter.   *)
LEMMA SampleType == TypeOK /\ Sample => TypeOK'
<1> SUFFICES ASSUME TypeOK, Sample PROVE TypeOK'
  OBVIOUS
<1> DEFINE machine == IF fault_reset_req THEN requestFaultReset(cia) ELSE cia
           hold    == /\ desired_target = "DisableVoltage"
                      /\ shouldHoldEnableForDisableGate(machine.state, vel, stopping)
           kept    == hold /\ ~disableWaitTimedOut(Waited)
           aimed   == setTarget(machine,
                        IF kept THEN "EnableOperation" ELSE desired_target)
<1>1. cia \in Cia402Machine /\ drive.sw \in Statusword
  BY DEF TypeOK, Drive
<1>2. machine \in Cia402Machine
  BY <1>1 DEF requestFaultReset, Cia402Machine
<1>3. aimed \in Cia402Machine
  BY <1>2 DEF setTarget, Cia402Machine, TypeOK, CommandTarget, Cia402Target
<1>4. cw' \in DriveWord /\ cia' \in Cia402Machine
  BY <1>1, <1>3, ControlwordType, UpdateType DEF Sample
<1>5. wait' \in 0 .. (Timeout + 1)
  BY WaitedType, CycleAssumption DEF Sample
<1> QED BY <1>4, <1>5 DEF Sample, TypeOK, threads, plant, RtPc

(* The interlock keeps the types.                                          *)
LEMMA InterlockType == TypeOK /\ Interlock => TypeOK'
BY DEF Interlock, TypeOK, Fit, threads, plant, RtPc
(* Whatever a run asks for and wherever a ramp is, the commands stay       *)
(* within their bounds.                                                    *)
LEMMA CommandType ==
  ASSUME TypeOK, NEW v \in Demand \cup {out.vel}, NEW t \in TrqDemand \cup {out.trq},
         NEW r \in BOOLEAN, NEW mode,
         NEW asked, asked = IF r THEN [vel |-> slewLimit(v, out.vel, VStep), trq |-> t]
                                 ELSE safeStopRamp(mode),
         NEW next, next = [asked EXCEPT !.trq = slewLimit(@, out.trq, TStep)]
  PROVE  next \in [vel : Speed, trq : Int]
<1>1. out \in [vel : Speed, trq : Int] /\ v \in Speed /\ t \in Int
  BY SpeedAssumption DEF TypeOK
<1>2. /\ VStep \in Nat \ {0} /\ DStep \in Nat \ {0} /\ TStep \in Nat \ {0}
      /\ CStep \in Nat \ {0}
  BY SpeedAssumption
<1>3. \A x \in Int, step \in Nat \ {0} : RampStep(x, step) \in Int
  BY DEF RampStep
<1>4. safeStopRamp(mode) \in [vel : Speed, trq : Int]
  BY <1>1, <1>2, <1>3, SpeedArith DEF safeStopRamp
<1>5. asked \in [vel : Speed, trq : Int]
  BY <1>1, <1>2, <1>4, SpeedArith
<1>6. slewLimit(asked.trq, out.trq, TStep) \in Int
  BY <1>1, <1>2, <1>5 DEF slewLimit
<1> QED BY <1>5, <1>6

(* So does the rest of the cycle, whatever trajectory and controller ask.  *)
LEMMA OutputType == TypeOK /\ Output => TypeOK'
<1> SUFFICES ASSUME TypeOK, Output PROVE TypeOK'
  OBVIOUS
<1>1. PICK v \in IF running THEN Demand \cup {out.vel} ELSE {out.vel},
           t \in IF running THEN TrqDemand \cup {out.trq} ELSE {out.trq},
           finished \in IF running THEN BOOLEAN ELSE {FALSE},
           jump \in IF want_mode = "CSP" THEN BOOLEAN ELSE {FALSE} :
         LET asked == IF running THEN [vel |-> slewLimit(v, out.vel, VStep), trq |-> t]
                                 ELSE safeStopRamp(desired_mode)
             next  == [asked EXCEPT !.trq = slewLimit(@, out.trq, TStep)]
             stop  == finished \/ jump
         IN  /\ out' = next
             /\ run_req' = (run_req /\ ~stop)
             /\ stopping' = (stop \/ (stopping /\ (running \/ ~rampDone(desired_mode))))
             /\ Exchange(cw, want_mode, IF want_mode = "CSV" THEN next.vel ELSE 0)
  BY DEF Output
<1> DEFINE asked == IF running THEN [vel |-> slewLimit(v, out.vel, VStep), trq |-> t]
                               ELSE safeStopRamp(desired_mode)
           next  == [asked EXCEPT !.trq = slewLimit(@, out.trq, TStep)]
<1>2. next \in [vel : Speed, trq : Int]
  <2>1. /\ v \in Demand \cup {out.vel} /\ t \in TrqDemand \cup {out.trq}
        /\ running \in BOOLEAN
    BY DEF TypeOK
  <2> QED BY <2>1, CommandType
<1> HIDE DEF next
<1>3. out' = next /\ Exchange(cw, want_mode, IF want_mode = "CSV" THEN next.vel ELSE 0)
  BY <1>1 DEF next
<1>4. (IF want_mode = "CSV" THEN next.vel ELSE 0) \in Speed
  BY <1>2, SpeedAssumption DEF Speed
<1>5. /\ sent' \in Speed /\ ecOp' \in BOOLEAN /\ drive' \in Drive
      /\ display' \in Modes \cup {"CSV", "None"} /\ vel' \in Speed
  BY <1>3, <1>4, ExchangeType DEF TypeOK
<1>6. run_req' \in BOOLEAN /\ stopping' \in BOOLEAN
  BY <1>1 DEF TypeOK
<1>7. snap' \in [cia : Cia402State, op : BOOLEAN, matched : BOOLEAN, vel : Speed,
                 stopping : BOOLEAN]
  BY <1>6 DEF Output, TypeOK, Cia402Machine
<1>8. cw' \in DriveWord
  BY DEF Output, DriveWord, Controlword
<1> QED BY <1>2, <1>3, <1>5, <1>6, <1>7, <1>8 DEF Output, TypeOK, threads, RtPc

(* The exit sequence keeps the types, the counter of its cycles included.  *)
LEMMA ExitType == TypeOK /\ (LeaveLoop \/ ExitGate \/ ExitCut) => TypeOK'
<1> SUFFICES ASSUME TypeOK, LeaveLoop \/ ExitGate \/ ExitCut PROVE TypeOK'
  OBVIOUS
<1>1. CASE LeaveLoop
  BY <1>1 DEF LeaveLoop, TypeOK, atomics, threads, plant, RtPc
<1> DEFINE held == setTarget(cia, "EnableOperation")
           off  == setTarget(cia, "DisableVoltage")
<1>2. held \in Cia402Machine /\ off \in Cia402Machine /\ drive.sw \in Statusword
  BY DEF TypeOK, setTarget, Cia402Machine, Cia402Target, Drive
<1>3. 0 \in Speed /\ want_mode \in Modes \cup {"CSV", "None"}
  BY SpeedAssumption DEF Speed, TypeOK
<1>4. CASE ExitGate
  <2>1. CASE Exchange(controlword(held, drive.sw), want_mode, 0) /\ wait' = Waited
             /\ cia' = update(held, drive.sw) /\ UNCHANGED rtpc
    <3>1. controlword(held, drive.sw) \in DriveWord /\ cia' \in Cia402Machine
      BY <1>2, <2>1, ControlwordType, UpdateType
    <3>2. /\ sent' \in Speed /\ ecOp' \in BOOLEAN /\ drive' \in Drive
          /\ display' \in Modes \cup {"CSV", "None"} /\ vel' \in Speed
      BY <1>3, <2>1, <3>1, ExchangeType
    <3> QED BY <1>4, <2>1, <3>1, <3>2, WaitedType
            DEF ExitGate, TypeOK, atomics, threads
  <2>2. CASE rtpc' = "exit_cut" /\ UNCHANGED <<cia, wait, plant>>
    BY <1>4, <2>2 DEF ExitGate, TypeOK, atomics, threads, plant, RtPc
  <2>3. CASE rtpc' = "exit_cut" /\ wait' = Waited /\ cia' = held /\ UNCHANGED plant
    BY <1>2, <1>4, <2>3, WaitedType DEF ExitGate, TypeOK, atomics, threads, plant, RtPc
  <2> QED BY <1>4, <2>1, <2>2, <2>3 DEF ExitGate
<1>5. CASE ExitCut
  <2>1. CASE cuts < ExitCycles
    <3>1. /\ cuts' = cuts + 1 /\ cia' = update(off, drive.sw) /\ UNCHANGED rtpc
          /\ Exchange(controlword(off, drive.sw), want_mode, 0)
      BY <1>5, <2>1 DEF ExitCut
    <3>2. controlword(off, drive.sw) \in DriveWord /\ cia' \in Cia402Machine
      BY <1>2, <3>1, ControlwordType, UpdateType
    <3>3. /\ sent' \in Speed /\ ecOp' \in BOOLEAN /\ drive' \in Drive
          /\ display' \in Modes \cup {"CSV", "None"} /\ vel' \in Speed
      BY <1>3, <3>1, <3>2, ExchangeType
    <3>4. cuts' \in 0 .. ExitCycles
      BY <2>1, <3>1, CycleAssumption DEF TypeOK
    <3> QED BY <1>5, <3>1, <3>2, <3>3, <3>4 DEF ExitCut, TypeOK, atomics, threads
  <2>2. CASE ~(cuts < ExitCycles)
    BY <1>5, <2>2, CycleAssumption DEF ExitCut, TypeOK, atomics, threads, plant, RtPc
  <2> QED BY <2>1, <2>2
<1> QED BY <1>1, <1>4, <1>5

(* A call begins with stores of the right type.                            *)
LEMMA BeginType ==
  ASSUME TypeOK, NEW c \in Clients, NEW command, NEW stores \in Seq(Stores),
         Begin(c, command, stores)
  PROVE  TypeOK'
<1>1. todo' \in [Threads -> Seq(Stores)]
  BY DEF Begin, TypeOK, Threads
<1> QED BY <1>1 DEF Begin, TypeOK, atomics, private, plant

(* Every IPC operation is such a call.                                     *)
LEMMA ClientType ==
  ASSUME TypeOK, NEW c \in Clients, Client(c)
  PROVE  TypeOK'
<1>1. CASE servoEnable(c)
  BY <1>1, StoresType, BeginType DEF servoEnable
<1>2. CASE servoDisable(c)
  BY <1>2, StoresType, BeginType DEF servoDisable
<1>3. CASE faultReset(c)
  BY <1>3, StoresType, BeginType DEF faultReset
<1>4. CASE quickStop(c)
  BY <1>4, StoresType, BeginType DEF quickStop
<1>5. CASE startRun(c)
  BY <1>5, StoresType, BeginType DEF startRun
<1>6. CASE stopRun(c)
  BY <1>6, StoresType, BeginType DEF stopRun
<1>7. ASSUME NEW m \in Modes, setMode(c, m) PROVE TypeOK'
  BY <1>7, StoresType, BeginType DEF setMode
<1> QED BY <1>1, <1>2, <1>3, <1>4, <1>5, <1>6, <1>7 DEF Client

(* A store that a thread makes keeps the types.                            *)
LEMMA StoreType ==
  ASSUME TypeOK, NEW t \in Threads, Store(t)
  PROVE  TypeOK'
<1>1. todo[t] \in Seq(Stores) /\ todo[t] # <<>>
  BY DEF TypeOK, Store
<1>2. Head(todo[t]) \in Stores /\ Tail(todo[t]) \in Seq(Stores)
  BY <1>1
<1>3. todo' \in [Threads -> Seq(Stores)]
  BY <1>2 DEF Store, TypeOK
<1>4. desired_target' \in {"Idle"} \cup CommandTarget
  BY <1>2, StoreValue DEF Store, TypeOK
<1>5. desired_mode' \in Modes \cup {"CSV"}
  BY <1>2, StoreValue DEF Store, TypeOK
<1>6. /\ run_req' \in BOOLEAN /\ stopping' \in BOOLEAN
      /\ fault_reset_req' \in BOOLEAN /\ quit' \in BOOLEAN
  BY <1>2, StoreValue DEF Store, TypeOK
<1> QED BY <1>3, <1>4, <1>5, <1>6 DEF Store, TypeOK, private, plant

(* Stopping and starting the master keeps the types.                       *)
LEMMA MainType == TypeOK /\ MainThread => TypeOK'
<1> SUFFICES ASSUME TypeOK, MainThread PROVE TypeOK'
  OBVIOUS
<1>1. ASSUME NEW from, NEW to \in MainPc, NEW stores \in Seq(Stores),
             MainStep(from, to, stores), UNCHANGED atomics
      PROVE  TypeOK'
  <2>1. todo' \in [Threads -> Seq(Stores)]
    BY <1>1 DEF MainStep, TypeOK, Threads
  <2> QED BY <1>1, <2>1 DEF MainStep, TypeOK, atomics, private, plant
<1>2. {"wait", "settle", "join", "down"} \subseteq MainPc
  BY DEF MainPc
<1>3. CASE Disconnect
  BY <1>1, <1>2, <1>3, StoresType DEF Disconnect
<1>4. CASE WaitOver
  BY <1>1, <1>2, <1>4, StoresType DEF WaitOver
<1>5. CASE RequestStop
  BY <1>1, <1>2, <1>5, StoresType DEF RequestStop
<1>6. CASE Joined
  BY <1>1, <1>2, <1>6, StoresType DEF Joined
<1>7. CASE Connect
  BY <1>7 DEF Connect, TypeOK, plant, MainPc, RtPc
<1> QED BY <1>3, <1>4, <1>5, <1>6, <1>7 DEF MainThread

(* Trips and bus failures keep the types.                                  *)
LEMMA EnvironmentType == TypeOK /\ Environment => TypeOK'
<1> SUFFICES ASSUME TypeOK, Environment PROVE TypeOK'
  OBVIOUS
<1>1. driveTrip(drive) \in Drive /\ [drive EXCEPT !.sw = SwSwitchOnDisabled] \in Drive
  BY DEF TypeOK, driveTrip, Drive, Statusword
<1>2. CASE Trip
  BY <1>1, <1>2 DEF Trip, TypeOK, atomics, threads, private
<1>3. CASE BusDown
  BY <1>3 DEF BusDown, TypeOK, atomics, threads, private
<1>4. CASE BusUp
  BY <1>1, <1>4 DEF BusUp, TypeOK, atomics, threads, private
<1> QED BY <1>2, <1>3, <1>4 DEF Environment

(* Every step keeps the types.                                             *)
LEMMA NextType == TypeOK /\ [Next]_vars => TypeOK'
<1> SUFFICES ASSUME TypeOK, [Next]_vars PROVE TypeOK'
  OBVIOUS
<1>1. CASE RtThread
  BY <1>1, SampleType, InterlockType, OutputType, ExitType DEF RtThread
<1>2. CASE UNCHANGED vars
  BY <1>2 DEF vars, atomics, threads, private, plant, TypeOK
<1> QED BY <1>1, <1>2, ClientType, StoreType, MainType, EnvironmentType DEF Next

(* Every variable of the servo core keeps its type, for every number of    *)
(* clients, every set of commands and disturbances, every speed.           *)
THEOREM ServoTypeCorrect == Spec => []TypeOK
BY InitType, NextType, PTL DEF Spec
-----------------------------------------------------------------------------
(* The inductive invariant behind the safety theorems.  What a cycle sends *)
(* was decided at its beginning, from what the drive returned then; and    *)
(* the gate looks at the state decoded a cycle earlier.  The parts say how *)
(* these three views of the drive fit together.                            *)

MidCycle == rtpc \in {"interlock", "output"}

(* Before the first command the drive is not powered and no word enables.  *)
IdleIsOff ==
  desired_target = "Idle" =>
    /\ cia.lastCw = kCmdDisableVoltage
    /\ cia.state # "OperationEnabled"
    /\ ~Powered(drive)
    /\ MidCycle => cw # kCmdEnableOperation

(* A drive in fault is not powered; one the machine saw enabled is not on  *)
(* the rung just below.                                                    *)
DriveFits ==
  /\ drive.fault => ~Powered(drive)
  /\ cia.state = "OperationEnabled" => DriveState(drive) # "SwitchedOn"

(* The word about to be sent fits the state just decoded: it enables only  *)
(* on the operator's request, and cuts the power only when that is safe.   *)
Excused == Slow \/ wait > Timeout \/ cia.frPhase # "None"

WordFits ==
  MidCycle =>
    /\ cia.state = DriveState(drive)
    /\ cw = kCmdSwitchOn => cia.state # "OperationEnabled"
    /\ cw = kCmdEnableOperation /\ ~Powered(drive)
         => wait = 0 /\ cia.target = "EnableOperation"
    /\ ecOp /\ Powered(drive) /\ snap.cia = "OperationEnabled"
         => cw \in {kCmdEnableOperation, kCmdQuickStop} \/ Excused
    /\ cia.frPhase = "High" => cw \in {kCmdDisableVoltage, kFaultReset}

(* Between cycles: a fault-reset pulse has already cut the power, and a    *)
(* drive that is powered and published as enabled was seen enabled.        *)
ViewFits ==
  ~MidCycle /\ ecOp /\ Powered(drive) =>
    /\ cia.frPhase # "High"
    /\ snap.cia = "OperationEnabled" => cia.state = "OperationEnabled"

(* The exit sequence: it reaches its second phase only when that is safe,  *)
(* and one cycle of it is enough.                                          *)
ExitFits ==
  /\ rtpc # "exit_cut" => cuts = 0
  /\ rtpc = "exit_cut" /\ ecOp /\ Powered(drive)
       => /\ cuts = 0
          /\ snap.cia = "OperationEnabled" => Excused
  /\ rtpc = "dead" /\ ecOp => ~Powered(drive)

(* A run goes on only in the mode the drive reports.                       *)
ModeFits ==
  /\ MidCycle /\ mode_matched => display = want_mode
  /\ rtpc = "output" /\ running => mode_matched

ServoInv ==
  /\ TypeOK /\ IdleIsOff /\ DriveFits /\ WordFits /\ ViewFits /\ ExitFits
  /\ ModeFits
-----------------------------------------------------------------------------
(* What the words do.                                                      *)

(* When the machine enables, and what it sends to a drive that is enabled. *)
LEMMA WordTable ==
  ASSUME NEW m \in Cia402Machine, NEW sw \in Statusword
  PROVE  LET word  == controlword(m, sw)
             state == decodeState(sw)
         IN  /\ word = kCmdEnableOperation =>
                   /\ m.frPhase = "None"
                   /\ \/ m.target = "Idle" /\ m.lastCw = kCmdEnableOperation
                      \/ /\ m.target = "EnableOperation"
                         /\ state \in {"SwitchedOn", "OperationEnabled"}
             /\ m.frPhase = "None" /\ m.target = "EnableOperation"
                  /\ state = "OperationEnabled" => word = kCmdEnableOperation
             /\ m.frPhase = "None" /\ m.target = "QuickStop" => word = kCmdQuickStop
             /\ m.target = "DisableVoltage" =>
                   word \in {kCmdDisableVoltage, kFaultReset}
             /\ m.frPhase # "None" => word \in {kCmdDisableVoltage, kFaultReset}
             /\ word = kCmdSwitchOn /\ m.target = "EnableOperation"
                  => state # "OperationEnabled"
             /\ update(m, sw).state = state
             /\ m.frPhase = "Low" => update(m, sw).frPhase = "High"
             /\ m.frPhase = "None" => update(m, sw).frPhase = "None"
             /\ update(m, sw).target = m.target
             /\ update(m, sw).frPhase = "High" => m.frPhase # "None"
             /\ m.target = "Idle" /\ m.lastCw = kCmdDisableVoltage =>
                   /\ word \in {kCmdDisableVoltage, kFaultReset}
                   /\ update(m, sw).lastCw = kCmdDisableVoltage
             /\ m.target = "DisableVoltage" =>
                   update(m, sw).lastCw = kCmdDisableVoltage
<1> DEFINE word  == controlword(m, sw)
           state == decodeState(sw)
<1>1. /\ m.frPhase \in {"None", "Low", "High"}
      /\ m.target \in Cia402Target /\ m.lastCw \in Controlword
  BY DEF Cia402Machine
<1>2. /\ m.frPhase = "Low" => word = kCmdDisableVoltage
      /\ m.frPhase = "High" => word = kFaultReset
      /\ m.frPhase = "None" => word = TargetWord(m.target, state, m.lastCw)
  BY PhaseWord
<1>3. /\ TargetWord("Idle", state, m.lastCw) = m.lastCw
      /\ TargetWord("DisableVoltage", state, m.lastCw) = kCmdDisableVoltage
      /\ TargetWord("QuickStop", state, m.lastCw) = kCmdQuickStop
      /\ TargetWord("Shutdown", state, m.lastCw) = kCmdShutdown
      /\ \A t \in {"SwitchOn", "DisableOperation"} :
           TargetWord(t, state, m.lastCw) \in {kCmdShutdown, kCmdSwitchOn}
      /\ TargetWord("EnableOperation", state, m.lastCw) = EnableWord(state)
  BY DEF TargetWord
<1>4. /\ EnableWord(state) = kCmdEnableOperation
           <=> state \in {"SwitchedOn", "OperationEnabled"}
      /\ state = "OperationEnabled" => EnableWord(state) # kCmdSwitchOn
  <2>1. kCmdSwitchOn # kCmdEnableOperation
    BY WordsDiffer
  <2> QED BY <2>1, WordsDiffer DEF EnableWord
<1>5. word = kCmdEnableOperation =>
        /\ m.frPhase = "None"
        /\ \/ m.target = "Idle" /\ m.lastCw = kCmdEnableOperation
           \/ /\ m.target = "EnableOperation"
              /\ state \in {"SwitchedOn", "OperationEnabled"}
  BY <1>1, <1>2, <1>3, <1>4, WordsDiffer DEF Cia402Target
<1>6. m.frPhase = "None" /\ m.target = "EnableOperation"
        /\ state = "OperationEnabled" => word = kCmdEnableOperation
  BY <1>2, <1>3, <1>4
<1>7. m.frPhase = "None" /\ m.target = "QuickStop" => word = kCmdQuickStop
  BY <1>2, <1>3
<1>8. /\ m.target = "DisableVoltage" => word \in {kCmdDisableVoltage, kFaultReset}
      /\ m.frPhase # "None" => word \in {kCmdDisableVoltage, kFaultReset}
  BY <1>1, <1>2, <1>3
<1>9. word = kCmdSwitchOn /\ m.target = "EnableOperation"
        => state # "OperationEnabled"
  <2>1. kCmdSwitchOn # kCmdDisableVoltage /\ kCmdSwitchOn # kFaultReset
    <3>1. 0 \in kCmdSwitchOn /\ 0 \notin kCmdDisableVoltage /\ 0 \notin kFaultReset
      BY DEF kCmdSwitchOn, kCmdDisableVoltage, kFaultReset
    <3> QED BY <3>1
  <2> QED BY <1>1, <1>2, <1>3, <1>4, <2>1
<1>10. /\ update(m, sw).state = state
       /\ update(m, sw).target = m.target
       /\ update(m, sw).frPhase = NextPhase(m)
       /\ update(m, sw).lastCw = KeptWord(m, sw)
  BY DEF update, Cia402Machine
<1>11. /\ m.frPhase = "Low" => NextPhase(m) = "High"
       /\ m.frPhase = "None" => NextPhase(m) = "None"
  BY DEF NextPhase
<1>12. KeptWord(m, sw) = IF m.frPhase = "None" THEN word ELSE kCmdDisableVoltage
  BY DEF KeptWord
<1> QED BY <1>1, <1>2, <1>3, <1>5, <1>6, <1>7, <1>8, <1>9, <1>10, <1>11, <1>12

(* What a frame does to the drive.                                         *)
LEMMA ExchangeEffect ==
  ASSUME NEW word \in DriveWord, NEW mode, NEW target,
         drive \in Drive, Exchange(word, mode, target), DriveFits
  PROVE  /\ ecOp' = ecOp
         /\ ~ecOp => drive' = drive /\ display' = display /\ vel' = vel
         /\ drive'.fault => ~Powered(drive')
         /\ ecOp => /\ Powered(drive') <=> (~drive.fault /\ word = kCmdEnableOperation)
                    /\ word # kCmdSwitchOn => DriveState(drive') # "SwitchedOn"
                    /\ display' = mode
                    /\ word = kCmdQuickStop /\ Powered(drive)
                         => DriveState(drive') = "QuickStopActive"
<1>1. CASE ~ecOp
  BY <1>1 DEF Exchange, DriveFits
<1>2. CASE ecOp
  <2>1. ecOp' = ecOp /\ drive' = updateCia402(drive, word) /\ display' = mode
    BY <1>2 DEF Exchange
  <2>2. /\ Powered(drive') <=> (~drive.fault /\ word = kCmdEnableOperation)
        /\ drive'.fault => DriveState(drive') = "Fault"
    BY <2>1, EnabledBy DEF Powered
  <2>3. CASE drive.fault
    <3>1. drive'.sw \in {SwSwitchOnDisabled, SwFault}
      BY <2>1, <2>3 DEF updateCia402
    <3>2. DriveState(drive') \in {"SwitchOnDisabled", "Fault"}
      BY <3>1, Decoded DEF DriveState
    <3> QED BY <1>2, <2>1, <2>2, <2>3, <3>2 DEF Powered, DriveFits
  <2>4. CASE ~drive.fault
    <3>1. drive'.sw = poweredWord(word) /\ drive'.fault = drive.fault
      BY <2>1, <2>4 DEF updateCia402, Drive
    <3>2. word # kCmdSwitchOn => DriveState(drive') # "SwitchedOn"
      BY <3>1, DriveWordTable, PoweredWords, Decoded DEF DriveState
    <3>3. word = kCmdQuickStop => DriveState(drive') = "QuickStopActive"
      BY <3>1, PoweredWords, Decoded DEF DriveState
    <3> QED BY <1>2, <2>1, <2>2, <3>2, <3>3 DEF Powered
  <2> QED BY <2>3, <2>4
<1> QED BY <1>1, <1>2
-----------------------------------------------------------------------------
(* The invariant, action by action.                                        *)

(* At the start no word enables and no phase is under way.                 *)
LEMMA InitServo == Init => ServoInv
<1> SUFFICES ASSUME Init PROVE ServoInv
  OBVIOUS
<1>1. TypeOK
  BY InitType
<1>2. DriveState(drive) = "SwitchOnDisabled" /\ ~drive.fault
  BY Decoded DEF Init, driveInit, DriveState
<1>3. /\ cia.lastCw = kCmdDisableVoltage /\ cia.state = "Unknown"
      /\ cia.frPhase = "None"
  BY DEF Init, Cia402Init
<1> QED BY <1>1, <1>2, <1>3 DEF Init, ServoInv, IdleIsOff, DriveFits, WordFits,
           ViewFits, ExitFits, ModeFits, MidCycle, Powered

(* Reading the commands and choosing the word keeps the invariant.         *)
LEMMA SampleServo == ServoInv /\ Sample => ServoInv'
<1> SUFFICES ASSUME ServoInv, Sample PROVE ServoInv'
  OBVIOUS
<1> DEFINE machine == IF fault_reset_req THEN requestFaultReset(cia) ELSE cia
           hold    == /\ desired_target = "DisableVoltage"
                      /\ shouldHoldEnableForDisableGate(machine.state, vel, stopping)
           kept    == hold /\ ~disableWaitTimedOut(Waited)
           aimed   == setTarget(machine,
                        IF kept THEN "EnableOperation" ELSE desired_target)
           state   == decodeState(drive.sw)
<1>1. TypeOK /\ TypeOK' /\ cia \in Cia402Machine /\ drive.sw \in Statusword
  BY SampleType DEF ServoInv, TypeOK, Drive
<1>2. /\ machine \in Cia402Machine /\ machine.state = cia.state
      /\ machine.lastCw = cia.lastCw
      /\ machine.frPhase = IF fault_reset_req THEN "Low" ELSE cia.frPhase
  BY <1>1 DEF requestFaultReset, Cia402Machine
<1>3. /\ aimed \in Cia402Machine
      /\ aimed.target = IF kept THEN "EnableOperation" ELSE desired_target
      /\ aimed.lastCw = cia.lastCw /\ aimed.frPhase = machine.frPhase
  BY <1>1, <1>2 DEF setTarget, Cia402Machine, TypeOK, CommandTarget, Cia402Target
<1>4. /\ cw' = controlword(aimed, drive.sw) /\ cia' = update(aimed, drive.sw)
      /\ wait' = IF hold THEN Waited ELSE 0
      /\ UNCHANGED <<desired_target, stopping, plant, snap, cuts>>
      /\ rtpc = "cycle" /\ rtpc' = "interlock" /\ want_mode' = desired_mode
      /\ mode_matched' = (display = desired_mode)
  BY DEF Sample
<1>5. /\ hold => cia.state = "OperationEnabled" /\ desired_target = "DisableVoltage"
      /\ desired_target = "DisableVoltage" /\ ~hold
           => cia.state # "OperationEnabled" \/ Slow
  BY <1>2 DEF shouldHoldEnableForDisableGate, isSafeToDisableAt, Slow
<1>6. hold /\ ~kept => wait' > Timeout
  BY <1>4 DEF disableWaitTimedOut
<1> HIDE DEF machine, hold, kept, aimed, state
<1>7. /\ DriveState(drive) = state /\ DriveState(drive') = state /\ drive' = drive
      /\ Powered(drive) <=> state = "OperationEnabled"
      /\ ecOp' = ecOp /\ vel' = vel /\ display' = display
  BY <1>4 DEF DriveState, Powered, plant, state
<1>8. kept => /\ hold /\ state # "SwitchedOn" /\ desired_target = "DisableVoltage"
  BY <1>5, <1>7 DEF ServoInv, DriveFits, kept
<1>9. cia'.state = state /\ cia'.target = aimed.target
  BY <1>1, <1>3, <1>4, WordTable DEF state
<1>10. IdleIsOff'
  <2> SUFFICES ASSUME desired_target = "Idle"
               PROVE  /\ cia'.lastCw = kCmdDisableVoltage
                      /\ cia'.state # "OperationEnabled"
                      /\ ~Powered(drive') /\ cw' # kCmdEnableOperation
    BY <1>4 DEF IdleIsOff
  <2>1. cia.lastCw = kCmdDisableVoltage /\ ~Powered(drive)
    BY DEF ServoInv, IdleIsOff
  <2>2. aimed.target = "Idle"
    BY <1>3, <1>8
  <2>3. /\ cw' \in {kCmdDisableVoltage, kFaultReset}
        /\ cia'.lastCw = kCmdDisableVoltage
    BY <1>1, <1>3, <1>4, <2>1, <2>2, WordTable
  <2> QED BY <1>7, <1>9, <2>1, <2>3, WordsDiffer
<1>11. DriveFits'
  BY <1>7, <1>9 DEF ServoInv, DriveFits
<1>12. WordFits'
  <2>1. cw' = kCmdSwitchOn => state # "OperationEnabled"
    <3> SUFFICES ASSUME cw' = kCmdSwitchOn, state = "OperationEnabled" PROVE FALSE
      OBVIOUS
    <3>1. kCmdSwitchOn \notin {kCmdDisableVoltage, kFaultReset, kCmdQuickStop}
      <4>1. /\ 0 \in kCmdSwitchOn /\ 0 \notin kCmdDisableVoltage
            /\ 0 \notin kFaultReset /\ 0 \notin kCmdQuickStop
        BY DEF kCmdSwitchOn, kCmdDisableVoltage, kFaultReset, kCmdQuickStop
      <4> QED BY <4>1
    <3>2. desired_target # "Idle"
      BY <1>7 DEF ServoInv, IdleIsOff
    <3>3. aimed.target \in {"EnableOperation", "DisableVoltage", "QuickStop"}
      BY <1>1, <1>3, <3>2 DEF TypeOK, CommandTarget
    <3> QED BY <1>1, <1>3, <1>4, <3>1, <3>3, WordTable DEF state
  <2>2. cw' = kCmdEnableOperation /\ ~Powered(drive)
          => wait' = 0 /\ aimed.target = "EnableOperation"
    <3> SUFFICES ASSUME cw' = kCmdEnableOperation, ~Powered(drive)
                 PROVE  wait' = 0 /\ aimed.target = "EnableOperation"
      OBVIOUS
    <3>1. \/ aimed.target = "Idle" /\ aimed.lastCw = kCmdEnableOperation
          \/ aimed.target = "EnableOperation" /\ state = "SwitchedOn"
      BY <1>1, <1>3, <1>4, <1>7, WordTable DEF state
    <3>2. aimed.target = "EnableOperation" /\ state = "SwitchedOn"
      <4>1. aimed.target = "Idle" => desired_target = "Idle"
        BY <1>3
      <4>2. aimed.target = "Idle" => cia.lastCw = kCmdDisableVoltage
        BY <4>1 DEF ServoInv, IdleIsOff
      <4> QED BY <1>3, <3>1, <4>2, WordsDiffer
    <3>3. ~kept /\ desired_target = "EnableOperation"
      BY <1>3, <1>8, <3>2
    <3> QED BY <1>4, <1>5, <3>2, <3>3
  <2>3. ecOp /\ Powered(drive) /\ snap.cia = "OperationEnabled"
          => \/ cw' \in {kCmdEnableOperation, kCmdQuickStop}
             \/ Slow \/ wait' > Timeout \/ cia'.frPhase # "None"
    <3> SUFFICES ASSUME ecOp, Powered(drive), snap.cia = "OperationEnabled"
                 PROVE  \/ cw' \in {kCmdEnableOperation, kCmdQuickStop}
                        \/ Slow \/ wait' > Timeout \/ cia'.frPhase # "None"
      OBVIOUS
    <3>1. cia.frPhase # "High" /\ cia.state = "OperationEnabled"
      BY <1>4 DEF ServoInv, ViewFits, MidCycle
    <3>2. aimed.frPhase \in {"None", "Low"}
      BY <1>1, <1>2, <1>3, <3>1 DEF Cia402Machine
    <3>3. CASE aimed.frPhase = "Low"
      <4>1. cia'.frPhase = "High"
        BY <1>1, <1>3, <1>4, <3>3, WordTable
      <4> QED BY <4>1
    <3>4. CASE aimed.frPhase = "None"
      <4>1. desired_target # "Idle"
        BY DEF ServoInv, IdleIsOff
      <4>2. aimed.target \in {"EnableOperation", "DisableVoltage", "QuickStop"}
        BY <1>1, <1>3, <4>1 DEF TypeOK, CommandTarget
      <4>3. aimed.target = "EnableOperation" => cw' = kCmdEnableOperation
        BY <1>1, <1>3, <1>4, <1>7, <3>4, WordTable DEF state
      <4>4. aimed.target = "QuickStop" => cw' = kCmdQuickStop
        BY <1>1, <1>3, <1>4, <3>4, WordTable
      <4>5. aimed.target = "DisableVoltage" => Slow \/ wait' > Timeout
        BY <1>3, <1>5, <1>6, <3>1
      <4> QED BY <4>2, <4>3, <4>4, <4>5
    <3> QED BY <3>2, <3>3, <3>4
  <2>4. cia'.frPhase = "High" => cw' \in {kCmdDisableVoltage, kFaultReset}
    BY <1>1, <1>3, <1>4, WordTable
  <2>5. Slow' = Slow /\ snap' = snap
    BY <1>4, <1>7 DEF Slow
  <2> QED BY <1>7, <1>9, <2>1, <2>2, <2>3, <2>4, <2>5 DEF WordFits, Excused, Powered
<1>13. ViewFits' /\ ExitFits' /\ ModeFits'
  BY <1>4, <1>7 DEF ServoInv, ViewFits, ExitFits, ModeFits, MidCycle
<1> QED BY <1>1, <1>10, <1>11, <1>12, <1>13 DEF ServoInv

(* The interlock lets a run go on only in the mode the drive reports.      *)
LEMMA InterlockServo == ServoInv /\ Interlock => ServoInv'
<1> SUFFICES ASSUME ServoInv, Interlock PROVE ServoInv'
  OBVIOUS
<1>1. TypeOK'
  BY InterlockType DEF ServoInv
<1>2. /\ UNCHANGED <<desired_target, cia, cw, want_mode, mode_matched, wait, cuts>>
      /\ UNCHANGED <<ecOp, drive, display, vel, snap>>
      /\ rtpc = "interlock" /\ rtpc' = "output" /\ running' = (run_req /\ Fit)
  BY DEF Interlock, plant
<1>3. IdleIsOff' /\ DriveFits' /\ WordFits'
  BY <1>2 DEF ServoInv, IdleIsOff, DriveFits, WordFits, MidCycle, Excused, Slow, Powered
<1>4. ViewFits' /\ ExitFits' /\ ModeFits'
  BY <1>2 DEF ServoInv, ViewFits, ExitFits, ModeFits, MidCycle, Fit
<1> QED BY <1>1, <1>3, <1>4 DEF ServoInv

(* Sending the word and publishing what was seen keeps the invariant.      *)
LEMMA OutputServo == ServoInv /\ Output => ServoInv'
<1> SUFFICES ASSUME ServoInv, Output PROVE ServoInv'
  OBVIOUS
<1>1. TypeOK /\ TypeOK' /\ drive \in Drive /\ cw \in DriveWord /\ DriveFits
  BY OutputType DEF ServoInv, TypeOK
<1>2. PICK target : Exchange(cw, want_mode, target)
  BY DEF Output
<1>3. /\ UNCHANGED <<desired_target, cia, want_mode, mode_matched, wait, cuts>>
      /\ rtpc = "output" /\ rtpc' = "cycle" /\ snap'.cia = cia.state
      /\ running' = FALSE
  BY DEF Output
<1>4. /\ ecOp' = ecOp
      /\ ~ecOp => drive' = drive
      /\ drive'.fault => ~Powered(drive')
      /\ ecOp => /\ Powered(drive') <=> (~drive.fault /\ cw = kCmdEnableOperation)
                 /\ cw # kCmdSwitchOn => DriveState(drive') # "SwitchedOn"
  BY <1>1, <1>2, ExchangeEffect
<1>5. MidCycle /\ ~MidCycle'
  BY <1>3 DEF MidCycle
<1>6. IdleIsOff'
  BY <1>3, <1>4, <1>5 DEF ServoInv, IdleIsOff
<1>7. DriveFits'
  BY <1>3, <1>4, <1>5 DEF ServoInv, DriveFits, WordFits
<1>8. ViewFits'
  <2> SUFFICES ASSUME ecOp', Powered(drive')
               PROVE  cia.frPhase # "High"
    BY <1>3 DEF ViewFits
  <2>1. cw = kCmdEnableOperation
    BY <1>4
  <2> QED BY <1>5, <2>1, WordsDiffer DEF ServoInv, WordFits
<1>9. ExitFits' /\ ModeFits' /\ WordFits'
  BY <1>3, <1>5 DEF ServoInv, ExitFits, ModeFits, WordFits
<1> QED BY <1>1, <1>6, <1>7, <1>8, <1>9 DEF ServoInv

(* Leaving the loop touches neither machine nor drive.                     *)
LEMMA LeaveServo == ServoInv /\ LeaveLoop => ServoInv'
<1> SUFFICES ASSUME ServoInv, LeaveLoop PROVE ServoInv'
  OBVIOUS
<1>1. TypeOK'
  BY ExitType DEF ServoInv
<1>2. /\ UNCHANGED <<desired_target, cia, mode_matched, wait, cuts>>
      /\ UNCHANGED <<ecOp, drive, display, vel, snap>>
      /\ rtpc = "cycle" /\ rtpc' = "exit_gate"
  BY DEF LeaveLoop, atomics, plant
<1> QED BY <1>1, <1>2 DEF ServoInv, IdleIsOff, DriveFits, WordFits, ViewFits,
           ExitFits, ModeFits, MidCycle

(* In the first phase of the exit the drive stays enabled: the word sent   *)
(* is 0F, unless a fault reset is under way.                               *)
LEMMA ExitGateServo == ServoInv /\ ExitGate => ServoInv'
<1> SUFFICES ASSUME ServoInv, ExitGate PROVE ServoInv'
  OBVIOUS
<1> DEFINE aimed == setTarget(cia, "EnableOperation")
           word  == controlword(aimed, drive.sw)
           state == decodeState(drive.sw)
           hold  == shouldHoldEnableForDisableGate(cia.state, vel, FALSE)
<1>1. TypeOK /\ TypeOK' /\ cia \in Cia402Machine /\ drive \in Drive
      /\ drive.sw \in Statusword /\ DriveFits
  BY ExitType DEF ServoInv, TypeOK, Drive
<1>2. /\ aimed \in Cia402Machine /\ aimed.target = "EnableOperation"
      /\ aimed.frPhase = cia.frPhase /\ aimed.state = cia.state
      /\ aimed.lastCw = cia.lastCw
  BY <1>1 DEF setTarget, Cia402Machine, Cia402Target
<1>3. rtpc = "exit_gate" /\ UNCHANGED <<desired_target, mode_matched, cuts, snap>>
  BY DEF ExitGate, atomics
<1>4. ~MidCycle /\ ViewFits /\ cuts = 0
  BY <1>3 DEF ServoInv, MidCycle, ExitFits
<1>5. hold <=> cia.state = "OperationEnabled" /\ ~Slow
  BY DEF shouldHoldEnableForDisableGate, isSafeToDisableAt, Slow
<1> HIDE DEF aimed, hold
<1>6. CASE ~hold /\ rtpc' = "exit_cut" /\ UNCHANGED <<cia, wait, plant>>
  <2>1. ExitFits'
    BY <1>3, <1>4, <1>5, <1>6 DEF ViewFits, ExitFits, Excused, Slow, plant
  <2> QED BY <1>1, <1>3, <1>4, <1>6, <2>1
          DEF ServoInv, IdleIsOff, DriveFits, WordFits, ViewFits, ModeFits,
              MidCycle, plant
<1>7. CASE hold /\ disableWaitTimedOut(Waited) /\ rtpc' = "exit_cut"
           /\ wait' = Waited /\ cia' = aimed /\ UNCHANGED plant
  <2>1. ExitFits'
    BY <1>3, <1>4, <1>7 DEF ExitFits, Excused, disableWaitTimedOut
  <2>2. desired_target # "Idle"
    BY <1>5, <1>7 DEF ServoInv, IdleIsOff
  <2> QED BY <1>1, <1>2, <1>3, <1>4, <1>7, <2>1, <2>2
          DEF ServoInv, IdleIsOff, DriveFits, WordFits, ViewFits, ModeFits,
              MidCycle, plant
<1>8. CASE hold /\ Exchange(word, want_mode, 0) /\ UNCHANGED rtpc
           /\ cia' = update(aimed, drive.sw)
  <2>1. word \in DriveWord
    BY <1>1, <1>2, ControlwordType
  <2>2. /\ ecOp' = ecOp
        /\ ~ecOp => drive' = drive
        /\ drive'.fault => ~Powered(drive')
        /\ ecOp => /\ Powered(drive') <=> (~drive.fault /\ word = kCmdEnableOperation)
                   /\ word # kCmdSwitchOn => DriveState(drive') # "SwitchedOn"
    BY <1>1, <1>8, <2>1, ExchangeEffect
  <2>3. state = DriveState(drive) /\ state # "SwitchedOn" /\ cia'.state = state
    BY <1>1, <1>2, <1>5, <1>8, WordTable DEF DriveState, DriveFits
  <2>4. desired_target # "Idle"
    BY <1>5, <1>8 DEF ServoInv, IdleIsOff
  <2>5. word = kCmdEnableOperation => state = "OperationEnabled" /\ cia.frPhase = "None"
    BY <1>1, <1>2, <2>3, WordTable
  <2>6. word = kCmdSwitchOn => state # "OperationEnabled"
    BY <1>1, <1>2, WordTable
  <2>7. DriveFits'
    BY <2>2, <2>3, <2>6 DEF DriveFits
  <2>8. cia'.frPhase = "High" => cia.frPhase # "None"
    BY <1>1, <1>2, <1>8, WordTable
  <2>9. ViewFits'
    <3> SUFFICES ASSUME ecOp', Powered(drive')
                 PROVE  cia'.frPhase # "High" /\ cia'.state = "OperationEnabled"
      BY DEF ViewFits
    <3> QED BY <2>2, <2>3, <2>5, <2>8
  <2> QED BY <1>1, <1>3, <1>4, <1>8, <2>4, <2>7, <2>9
          DEF ServoInv, IdleIsOff, WordFits, ExitFits, ModeFits, MidCycle
<1> QED BY <1>6, <1>7, <1>8 DEF ExitGate, aimed, hold

(* In the second phase the word never enables.                             *)
LEMMA ExitCutServo == ServoInv /\ ExitCut => ServoInv'
<1> SUFFICES ASSUME ServoInv, ExitCut PROVE ServoInv'
  OBVIOUS
<1> DEFINE aimed == setTarget(cia, "DisableVoltage")
           word  == controlword(aimed, drive.sw)
<1>1. TypeOK /\ TypeOK' /\ cia \in Cia402Machine /\ drive \in Drive
      /\ drive.sw \in Statusword /\ DriveFits
  BY ExitType DEF ServoInv, TypeOK, Drive
<1>2. /\ aimed \in Cia402Machine /\ aimed.target = "DisableVoltage"
  BY <1>1 DEF setTarget, Cia402Machine, Cia402Target
<1>3. /\ rtpc = "exit_cut" /\ UNCHANGED <<desired_target, mode_matched, snap, wait>>
      /\ ~MidCycle
  BY DEF ExitCut, atomics, MidCycle
<1> HIDE DEF aimed
<1>4. CASE cuts < ExitCycles
  <2>1. /\ cuts' = cuts + 1 /\ cia' = update(aimed, drive.sw) /\ rtpc' = "exit_cut"
        /\ Exchange(word, want_mode, 0)
    BY <1>3, <1>4 DEF ExitCut, aimed
  <2>2. /\ word \in {kCmdDisableVoltage, kFaultReset}
        /\ cia'.lastCw = kCmdDisableVoltage
        /\ cia'.state = decodeState(drive.sw)
    BY <1>1, <1>2, <2>1, WordTable
  <2>3. word # kCmdEnableOperation /\ word # kCmdSwitchOn /\ word \in DriveWord
    <3>1. 0 \in kCmdSwitchOn /\ 0 \notin kCmdDisableVoltage /\ 0 \notin kFaultReset
      BY DEF kCmdSwitchOn, kCmdDisableVoltage, kFaultReset
    <3>2. word # kCmdSwitchOn
      BY <2>2, <3>1
    <3> QED BY <2>2, <3>2, WordsDiffer, DriveWordTable
  <2>4. /\ ecOp' = ecOp
        /\ ~ecOp => drive' = drive
        /\ drive'.fault => ~Powered(drive')
        /\ ecOp => ~Powered(drive') /\ DriveState(drive') # "SwitchedOn"
    BY <1>1, <2>1, <2>3, ExchangeEffect
  <2>5. IdleIsOff'
    BY <1>3, <2>1, <2>2, <2>4 DEF ServoInv, IdleIsOff, MidCycle, Powered, DriveState
  <2>6. DriveFits'
    BY <2>2, <2>4 DEF DriveFits, DriveState
  <2> QED BY <1>1, <1>3, <2>1, <2>4, <2>5, <2>6
          DEF ServoInv, WordFits, ViewFits, ExitFits, ModeFits, MidCycle
<1>5. CASE ~(cuts < ExitCycles)
  <2>1. cuts' = 0 /\ rtpc' = "dead" /\ UNCHANGED <<cia, ecOp, drive, display, vel>>
    BY <1>5 DEF ExitCut, plant
  <2>2. cuts # 0
    BY <1>5, CycleAssumption
  <2> QED BY <1>1, <1>3, <2>1, <2>2
          DEF ServoInv, IdleIsOff, DriveFits, WordFits, ViewFits, ExitFits,
              ModeFits, MidCycle
<1> QED BY <1>4, <1>5
(* The other threads: none of them touches what the invariant is about,    *)
(* except that a command may replace the target -- never by Idle.          *)
LEMMA ThreadsServo ==
  ASSUME ServoInv, TypeOK',
         UNCHANGED <<private, plant, snap>>,
         desired_target' = "Idle" => desired_target = "Idle"
  PROVE  ServoInv'
BY DEF ServoInv, IdleIsOff, DriveFits, WordFits, ViewFits, ExitFits, ModeFits,
       MidCycle, Excused, Slow, private, plant

(* A store touches neither machine nor drive.                              *)
LEMMA StoreServo ==
  ASSUME ServoInv, NEW t \in Threads, Store(t)
  PROVE  ServoInv'
<1>1. TypeOK'
  BY StoreType DEF ServoInv
<1>2. Head(todo[t]) \in Stores
  <2>1. todo[t] \in Seq(Stores) /\ todo[t] # <<>>
    BY DEF ServoInv, TypeOK, Store
  <2> QED BY <2>1
<1>3. desired_target' = "Idle" => desired_target = "Idle"
  BY <1>2, StoreValue DEF Store, CommandTarget
<1> QED BY <1>1, <1>3, ThreadsServo DEF Store

(* Nor does the check at the beginning of an IPC call.                     *)
LEMMA ClientServo ==
  ASSUME ServoInv, NEW c \in Clients, Client(c)
  PROVE  ServoInv'
<1>1. TypeOK'
  BY ClientType DEF ServoInv
<1>2. UNCHANGED <<atomics, private, plant, snap>>
  BY DEF Client, Begin, servoEnable, servoDisable, faultReset, quickStop, startRun,
         stopRun, setMode
<1> QED BY <1>1, <1>2, ThreadsServo DEF atomics

(* Nor does stopping the master; starting it finds the exit finished.      *)
LEMMA MainServo == ServoInv /\ MainThread => ServoInv'
<1> SUFFICES ASSUME ServoInv, MainThread PROVE ServoInv'
  OBVIOUS
<1>1. TypeOK'
  BY MainType DEF ServoInv
<1>2. CASE Connect
  BY <1>1, <1>2 DEF Connect, ServoInv, IdleIsOff, DriveFits, WordFits, ViewFits,
     ExitFits, ModeFits, MidCycle, plant
<1>3. CASE Disconnect \/ WaitOver \/ RequestStop \/ Joined
  <2>1. UNCHANGED <<atomics, private, plant, snap>>
    BY <1>3 DEF Disconnect, WaitOver, RequestStop, Joined, MainStep
  <2> QED BY <1>1, <2>1, ThreadsServo DEF atomics
<1> QED BY <1>2, <1>3 DEF MainThread

(* The environment only takes the power away, and only between cycles.     *)
LEMMA EnvironmentServo == ServoInv /\ Environment => ServoInv'
<1> SUFFICES ASSUME ServoInv, Environment PROVE ServoInv'
  OBVIOUS
<1>1. TypeOK' /\ drive \in Drive
  BY EnvironmentType DEF ServoInv, TypeOK
<1>2. ~MidCycle /\ ~MidCycle' /\ rtpc # "dead"
  BY DEF Environment, Trip, BusDown, BusUp, BetweenCycles, MidCycle, private
<1>3. UNCHANGED <<desired_target, rtpc, cia, cw, mode_matched, running, wait, cuts, snap>>
  BY DEF Environment, Trip, BusDown, BusUp, atomics, private
<1>4. CASE BusDown
  BY <1>1, <1>2, <1>3, <1>4 DEF BusDown, ServoInv, IdleIsOff, DriveFits, WordFits,
     ViewFits, ExitFits, ModeFits
<1>5. CASE Trip \/ BusUp
  <2>1. drive' \in {driveTrip(drive), [drive EXCEPT !.sw = SwSwitchOnDisabled]}
    BY <1>5 DEF Trip, BusUp
  <2>2. drive'.sw \in {SwFaultReaction, SwSwitchOnDisabled}
    BY <1>1, <2>1 DEF driveTrip, Drive
  <2>3. DriveState(drive') \in {"FaultReactionActive", "SwitchOnDisabled"}
    BY <2>2, Decoded DEF DriveState
  <2>4. ~Powered(drive') /\ DriveState(drive') # "SwitchedOn"
    BY <2>3 DEF Powered
  <2> QED BY <1>1, <1>2, <1>3, <2>4 DEF ServoInv, IdleIsOff, DriveFits, WordFits,
          ViewFits, ExitFits, ModeFits
<1> QED BY <1>4, <1>5 DEF Environment

(* Every step keeps the invariant.                                         *)
LEMMA NextServo == ServoInv /\ [Next]_vars => ServoInv'
<1> SUFFICES ASSUME ServoInv, [Next]_vars PROVE ServoInv'
  OBVIOUS
<1>1. CASE RtThread
  BY <1>1, SampleServo, InterlockServo, OutputServo, LeaveServo, ExitGateServo,
     ExitCutServo DEF RtThread
<1>2. CASE UNCHANGED vars
  <2>1. TypeOK'
    BY <1>2, NextType DEF ServoInv
  <2>2. UNCHANGED <<private, plant, snap>> /\ desired_target' = desired_target
    BY <1>2 DEF vars, atomics
  <2> QED BY <2>1, <2>2, ThreadsServo
<1> QED BY <1>1, <1>2, ClientServo, StoreServo, MainServo, EnvironmentServo DEF Next

(* So the invariant holds always.                                          *)
LEMMA ServoInvariant == Spec => []ServoInv
BY InitServo, NextServo, PTL DEF Spec

-----------------------------------------------------------------------------
(* The safety theorems.                                                    *)

(* Only three steps reach the drive's power, and none of the other steps   *)
(* changes the drive except to take the power away.                        *)
LEMMA WhoDrives ==
  ASSUME ServoInv, [Next]_vars, drive' # drive
  PROVE  \/ Output \/ ExitGate \/ ExitCut
         \/ /\ Environment
            /\ DriveState(drive') \in {"FaultReactionActive", "SwitchOnDisabled"}
            /\ ecOp => DriveState(drive') = "FaultReactionActive"
<1>1. CASE RtThread
  BY <1>1 DEF RtThread, Sample, Interlock, LeaveLoop, plant
<1>2. CASE Environment
  <2>1. drive \in Drive
    BY DEF ServoInv, TypeOK
  <2>2. CASE Trip
    <3>1. drive'.sw = SwFaultReaction
      BY <2>1, <2>2 DEF Trip, driveTrip, Drive
    <3> QED BY <1>2, <3>1, Decoded DEF DriveState
  <2>3. CASE BusUp
    <3>1. drive'.sw \in {SwFaultReaction, SwSwitchOnDisabled} /\ ~ecOp
      BY <2>1, <2>3 DEF BusUp, driveTrip, Drive
    <3> QED BY <1>2, <3>1, Decoded DEF DriveState
  <2> QED BY <1>2, <2>2, <2>3 DEF Environment, BusDown
<1>3. ASSUME NEW c \in Clients, Client(c) PROVE drive' = drive
  BY <1>3 DEF Client, Begin, servoEnable, servoDisable, faultReset, quickStop,
     startRun, stopRun, setMode, plant
<1>4. ASSUME NEW t \in Threads, Store(t) PROVE drive' = drive
  BY <1>4 DEF Store, plant
<1>5. MainThread => drive' = drive
  BY DEF MainThread, Disconnect, WaitOver, RequestStop, Joined, Connect, MainStep, plant
<1>6. UNCHANGED vars => drive' = drive
  BY DEF vars, plant
<1> QED BY <1>1, <1>2, <1>3, <1>4, <1>5, <1>6 DEF Next

(* When the realtime thread has ended, the drive it leaves behind is not   *)
(* powered -- whatever the commands, the timeout and the disturbances.     *)
THEOREM ExitIsSafe == Spec => []ExitLeavesUnpowered
<1>1. ServoInv => ExitLeavesUnpowered
  BY DEF ServoInv, ExitFits, ExitLeavesUnpowered
<1> QED BY ServoInvariant, <1>1, PTL
(* A word of the exit's first phase keeps an enabled drive enabled, unless *)
(* a fault reset is under way, and enables no other.                       *)
LEMMA GatePower ==
  ASSUME ServoInv, ExitGate, drive' # drive
  PROVE  /\ ~Powered(drive) => ~Powered(drive')
         /\ Powered(drive) /\ ~Powered(drive') => cia.frPhase # "None"
<1> DEFINE aimed == setTarget(cia, "EnableOperation")
           word  == controlword(aimed, drive.sw)
<1>1. TypeOK /\ cia \in Cia402Machine /\ drive \in Drive /\ drive.sw \in Statusword
      /\ DriveFits
  BY DEF ServoInv, TypeOK, Drive
<1>2. /\ aimed \in Cia402Machine /\ aimed.target = "EnableOperation"
      /\ aimed.frPhase = cia.frPhase
  BY <1>1 DEF setTarget, Cia402Machine, Cia402Target
<1>3. /\ cia.state = "OperationEnabled" /\ Exchange(word, want_mode, 0)
  BY DEF ExitGate, shouldHoldEnableForDisableGate, plant
<1> HIDE DEF aimed
<1>4. word \in DriveWord
  BY <1>1, <1>2, ControlwordType
<1>5. ecOp /\ (Powered(drive') <=> (~drive.fault /\ word = kCmdEnableOperation))
  BY <1>1, <1>3, <1>4, ExchangeEffect
<1>6. word = kCmdEnableOperation => decodeState(drive.sw) \in {"SwitchedOn", "OperationEnabled"}
  BY <1>1, <1>2, WordTable
<1>7. cia.frPhase = "None" /\ decodeState(drive.sw) = "OperationEnabled"
        => word = kCmdEnableOperation
  BY <1>1, <1>2, WordTable
<1> QED BY <1>1, <1>3, <1>5, <1>6, <1>7 DEF DriveFits, Powered, DriveState

(* A word of the second phase enables nothing.                             *)
LEMMA CutPower ==
  ASSUME ServoInv, ExitCut, drive' # drive
  PROVE  ~Powered(drive')
<1> DEFINE aimed == setTarget(cia, "DisableVoltage")
           word  == controlword(aimed, drive.sw)
<1>1. cia \in Cia402Machine /\ drive \in Drive /\ drive.sw \in Statusword /\ DriveFits
  BY DEF ServoInv, TypeOK, Drive
<1>2. aimed \in Cia402Machine /\ aimed.target = "DisableVoltage"
  BY <1>1 DEF setTarget, Cia402Machine, Cia402Target
<1>3. Exchange(word, want_mode, 0)
  BY DEF ExitCut, plant
<1> HIDE DEF aimed
<1>4. word \in DriveWord /\ word \in {kCmdDisableVoltage, kFaultReset}
  BY <1>1, <1>2, WordTable, ControlwordType
<1>5. ~ecOp => drive' = drive
  BY <1>1, <1>3, <1>4, ExchangeEffect
<1>6. ecOp => (Powered(drive') <=> (~drive.fault /\ word = kCmdEnableOperation))
  BY <1>1, <1>3, <1>4, ExchangeEffect
<1> QED BY <1>4, <1>5, <1>6, WordsDiffer

(* The disable gate asks for Enable Operation while it waits, and yet never*)
(* powers a drive that is not powered: not after a trip, not after the bus *)
(* was away, not in the exit sequence, however long the gate waits.        *)
THEOREM NeverSelfExcited == Spec => NoSelfExcitation
<1>1. ASSUME ServoInv, [Next]_vars, ~Powered(drive), Powered(drive')
      PROVE  wait = 0 /\ cia.target = "EnableOperation"
  <2>1. drive' # drive
    BY <1>1
  <2>2. CASE Output
    <3>1. PICK target : Exchange(cw, want_mode, target)
      BY <2>2 DEF Output
    <3>2. cw \in DriveWord /\ drive \in Drive /\ DriveFits
      BY <1>1 DEF ServoInv, TypeOK
    <3>3. ~ecOp => drive' = drive
      BY <3>1, <3>2, ExchangeEffect
    <3>4. ecOp => (Powered(drive') <=> (~drive.fault /\ cw = kCmdEnableOperation))
      BY <3>1, <3>2, ExchangeEffect
    <3>5. cw = kCmdEnableOperation /\ MidCycle
      BY <1>1, <2>1, <2>2, <3>3, <3>4 DEF Output, MidCycle
    <3> QED BY <1>1, <3>5 DEF ServoInv, WordFits
  <2>3. CASE ExitGate
    BY <1>1, <2>1, <2>3, GatePower
  <2>4. CASE ExitCut
    BY <1>1, <2>1, <2>4, CutPower
  <2> QED BY <1>1, <2>1, <2>2, <2>3, <2>4, WhoDrives DEF Powered
<1>2. ServoInv /\ [Next]_vars =>
        [~Powered(drive) /\ Powered(drive')
           => wait = 0 /\ cia.target = "EnableOperation"]_vars
  BY <1>1
<1> QED BY ServoInvariant, <1>2, PTL DEF Spec, NoSelfExcitation

(* The brake is spared: a drive published as enabled loses its torque at a *)
(* speed above the limit only after the whole timeout or in a fault reset, *)
(* for every interleaving of commands and every timeout.                   *)
THEOREM BrakeIsSpared == Spec => BrakeSpared
<1>1. ASSUME ServoInv, [Next]_vars, CutsPower, snap.cia = "OperationEnabled"
      PROVE  Excused
  <2>1. /\ drive' # drive /\ ecOp /\ Powered(drive) /\ ~Powered(drive')
        /\ DriveState(drive') \notin {"QuickStopActive", "FaultReactionActive"}
    BY <1>1 DEF CutsPower, Powered
  <2>2. CASE Output
    <3>1. PICK target : Exchange(cw, want_mode, target)
      BY <2>2 DEF Output
    <3>2. cw \in DriveWord /\ drive \in Drive /\ DriveFits
      BY <1>1 DEF ServoInv, TypeOK
    <3>3. /\ Powered(drive') <=> (~drive.fault /\ cw = kCmdEnableOperation)
          /\ cw = kCmdQuickStop => DriveState(drive') = "QuickStopActive"
      BY <2>1, <3>1, <3>2, ExchangeEffect
    <3>4. cw \notin {kCmdEnableOperation, kCmdQuickStop} /\ MidCycle
      BY <2>1, <2>2, <3>2, <3>3 DEF DriveFits, Output, MidCycle
    <3> QED BY <1>1, <2>1, <3>4 DEF ServoInv, WordFits
  <2>3. CASE ExitGate
    BY <1>1, <2>1, <2>3, GatePower DEF Excused
  <2>4. CASE ExitCut
    BY <1>1, <2>1, <2>4 DEF ServoInv, ExitFits, ExitCut
  <2> QED BY <1>1, <2>1, <2>2, <2>3, <2>4, WhoDrives
<1>2. ServoInv /\ [Next]_vars =>
        [CutsPower /\ snap.cia = "OperationEnabled"
           => Slow \/ wait > Timeout \/ cia.frPhase # "None"]_vars
  BY <1>1 DEF Excused
<1> QED BY ServoInvariant, <1>2, PTL DEF Spec, BrakeSpared

(* The drive's operation mode never changes in a cycle that runs, although *)
(* set_mode looks at run_req and stores the mode only later.               *)
THEOREM ModeIsKept == Spec => ModeKeptDuringRun
<1>1. ASSUME ServoInv, [Next]_vars, rtpc = "output", running
      PROVE  display' = display
  <2>1. display = want_mode
    BY <1>1 DEF ServoInv, ModeFits, MidCycle
  <2>2. CASE Output
    <3>1. PICK target : Exchange(cw, want_mode, target)
      BY <2>2 DEF Output
    <3> QED BY <2>1, <3>1 DEF Exchange
  <2>3. CASE RtThread /\ ~Output
    BY <1>1, <2>3 DEF RtThread, Sample, Interlock, LeaveLoop, ExitGate, ExitCut
  <2>4. CASE Environment
    BY <2>4 DEF Environment, Trip, BusDown, BusUp
  <2>5. ASSUME NEW c \in Clients, Client(c) PROVE display' = display
    BY <2>5 DEF Client, Begin, servoEnable, servoDisable, faultReset, quickStop,
       startRun, stopRun, setMode, plant
  <2>6. ASSUME NEW t \in Threads, Store(t) PROVE display' = display
    BY <2>6 DEF Store, plant
  <2>7. MainThread => display' = display
    BY DEF MainThread, Disconnect, WaitOver, RequestStop, Joined, Connect, MainStep,
       plant
  <2>8. UNCHANGED vars => display' = display
    BY DEF vars, plant
  <2> QED BY <1>1, <2>2, <2>3, <2>4, <2>5, <2>6, <2>7, <2>8 DEF Next
<1>2. ServoInv /\ [Next]_vars =>
        [rtpc = "output" /\ running => display' = display]_vars
  BY <1>1
<1> QED BY ServoInvariant, <1>2, PTL DEF Spec, ModeKeptDuringRun
-----------------------------------------------------------------------------
(* The commanded speed.                                                    *)

(* Only the RT thread, the environment and a reconnect touch the RT        *)
(* thread's own state, the drive or the snapshot.                          *)
LEMMA WhoActs ==
  ASSUME [Next]_vars
  PROVE  \/ RtThread \/ Environment \/ Connect
         \/ UNCHANGED <<private, plant, snap>>
<1>1. ASSUME NEW c \in Clients, Client(c) PROVE UNCHANGED <<private, plant, snap>>
  BY <1>1 DEF Client, Begin, servoEnable, servoDisable, faultReset, quickStop,
     startRun, stopRun, setMode
<1>2. ASSUME NEW t \in Threads, Store(t) PROVE UNCHANGED <<private, plant, snap>>
  BY <1>2 DEF Store
<1>3. MainThread => Connect \/ UNCHANGED <<private, plant, snap>>
  BY DEF MainThread, Disconnect, WaitOver, RequestStop, Joined, MainStep
<1> QED BY <1>1, <1>2, <1>3 DEF Next, vars

(* A ramp's step brings a speed closer to zero and does not cross it; the  *)
(* step that is counted as the last one arrives there.                     *)
LEMMA RampSlows ==
  ASSUME NEW x \in Int, NEW step \in Nat \ {0}
  PROVE  /\ Abs(RampStep(x, step)) <= Abs(x)
         /\ Abs(x) <= step => RampStep(x, step) = 0
         /\ x = 0 => RampStep(x, step) = 0
BY DEF RampStep, Abs

(* What a cycle sends: the speed just computed in CSV, zero in any other   *)
(* mode; and a cycle without a run never makes the speed greater.          *)
LEMMA OutputSends ==
  ASSUME TypeOK, Output
  PROVE  /\ Exchange(cw, want_mode, sent')
         /\ sent' = IF want_mode = "CSV" THEN out'.vel ELSE 0
         /\ ~running => /\ out'.vel = safeStopRamp(desired_mode).vel
                        /\ Abs(out'.vel) <= Abs(out.vel)
<1>1. PICK v \in IF running THEN Demand \cup {out.vel} ELSE {out.vel},
           t \in IF running THEN TrqDemand \cup {out.trq} ELSE {out.trq},
           finished \in IF running THEN BOOLEAN ELSE {FALSE},
           jump \in IF want_mode = "CSP" THEN BOOLEAN ELSE {FALSE} :
         LET asked == IF running THEN [vel |-> slewLimit(v, out.vel, VStep), trq |-> t]
                                 ELSE safeStopRamp(desired_mode)
             next  == [asked EXCEPT !.trq = slewLimit(@, out.trq, TStep)]
         IN  /\ out' = next
             /\ Exchange(cw, want_mode, IF want_mode = "CSV" THEN next.vel ELSE 0)
  BY DEF Output
<1> DEFINE asked == IF running THEN [vel |-> slewLimit(v, out.vel, VStep), trq |-> t]
                               ELSE safeStopRamp(desired_mode)
<1>2. out \in [vel : Speed, trq : Int] /\ out.vel \in Int /\ DStep \in Nat \ {0}
  BY SpeedArith, SpeedAssumption DEF TypeOK
<1>3. out'.vel = asked.vel
  BY <1>1, <1>2 DEF safeStopRamp
<1>4. Exchange(cw, want_mode, IF want_mode = "CSV" THEN out'.vel ELSE 0)
  BY <1>1, <1>3
<1>5. sent' = IF want_mode = "CSV" THEN out'.vel ELSE 0
  BY <1>4 DEF Exchange
<1>6. safeStopRamp(desired_mode).vel \in {out.vel, RampStep(out.vel, DStep)}
  BY <1>2 DEF safeStopRamp
<1>7. Abs(safeStopRamp(desired_mode).vel) <= Abs(out.vel)
  <2>1. Abs(out.vel) \in Int
    BY <1>2 DEF Abs
  <2> QED BY <1>2, <1>6, <2>1, RampSlows
<1> QED BY <1>3, <1>4, <1>5, <1>7

(* What a powered drive in CSV is told is what the RT thread computed last,*)
(* except in the exit sequence, which tells it zero; and a cycle that runs *)
(* is one whose interlock found everything fit.                            *)
SpeedFits ==
  /\ rtpc = "cycle" \/ MidCycle =>
       (ecOp /\ Powered(drive) /\ display = "CSV" => sent = out.vel)
  /\ rtpc = "output" /\ running => ecOp /\ cia.state = "OperationEnabled"

SpeedInv == ServoInv /\ SpeedFits

(* Every step keeps it.                                                    *)
LEMMA NextSpeed == SpeedInv /\ [Next]_vars => SpeedInv'
<1> SUFFICES ASSUME SpeedInv, [Next]_vars PROVE SpeedInv'
  OBVIOUS
<1>1. ServoInv /\ ServoInv' /\ TypeOK /\ SpeedFits
  BY NextServo DEF SpeedInv, ServoInv
<1>2. CASE Sample
  BY <1>1, <1>2 DEF Sample, SpeedInv, SpeedFits, MidCycle, plant
<1>3. CASE Interlock
  BY <1>1, <1>3 DEF Interlock, SpeedInv, SpeedFits, MidCycle, plant, Fit
<1>4. CASE Output
  <2>1. Exchange(cw, want_mode, sent') /\ sent' = IF want_mode = "CSV" THEN out'.vel ELSE 0
    BY <1>1, <1>4, OutputSends
  <2>2. display' = "CSV" /\ ecOp' => sent' = out'.vel
    BY <2>1 DEF Exchange
  <2>3. rtpc' = "cycle"
    BY <1>4 DEF Output
  <2> QED BY <1>1, <2>2, <2>3 DEF SpeedInv, SpeedFits
<1>5. CASE LeaveLoop \/ ExitGate \/ ExitCut
  <2>1. rtpc' \in {"exit_gate", "exit_cut", "dead"}
    BY <1>5 DEF LeaveLoop, ExitGate, ExitCut
  <2> QED BY <1>1, <2>1 DEF SpeedInv, SpeedFits, MidCycle
<1>6. CASE Environment
  <2>1. rtpc # "output" /\ rtpc' = rtpc
    BY <1>6 DEF Environment, Trip, BusDown, BusUp, BetweenCycles, private
  <2>2. Trip \/ BusUp => ~Powered(drive')
    <3>1. drive \in Drive
      BY <1>1 DEF TypeOK
    <3>2. Trip \/ BusUp => drive'.sw \in {SwFaultReaction, SwSwitchOnDisabled}
      BY <3>1 DEF Trip, BusUp, driveTrip, Drive
    <3>3. Trip \/ BusUp => DriveState(drive') \in {"FaultReactionActive", "SwitchOnDisabled"}
      BY <3>2, Decoded DEF DriveState
    <3> QED BY <3>3 DEF Powered
  <2> QED BY <1>1, <1>6, <2>1, <2>2
          DEF Environment, Trip, BusDown, BusUp, SpeedInv, SpeedFits, MidCycle,
              private
<1>7. CASE Connect
  BY <1>1, <1>7 DEF Connect, SpeedInv, ServoInv, ExitFits, SpeedFits, MidCycle, plant
<1>8. CASE UNCHANGED <<private, plant, snap>>
  BY <1>1, <1>8 DEF SpeedInv, SpeedFits, MidCycle, private, plant
<1> QED BY <1>2, <1>3, <1>4, <1>5, <1>6, <1>7, <1>8, WhoActs DEF RtThread

(* So it holds always.                                                     *)
LEMMA SpeedInvariant == Spec => []SpeedInv
<1>1. Init => SpeedInv
  BY InitServo DEF Init, SpeedInv, SpeedFits, MidCycle
<1> QED BY <1>1, NextSpeed, PTL DEF Spec

(* A powered drive in CSV is commanded faster only in a cycle whose        *)
(* interlock passed: whatever the commands, the modes and the trajectory,  *)
(* no other step raises the speed.                                         *)
THEOREM FasterOnlyWhileRunning == Spec => FasterOnlyInRun
<1>1. ASSUME SpeedInv, [Next]_vars, ecOp, Powered(drive), display = "CSV",
             Abs(sent') > Abs(sent)
      PROVE  running /\ cia.state = "OperationEnabled" /\ mode_matched
  <2>1. TypeOK /\ ServoInv /\ SpeedFits /\ TypeOK'
    BY <1>1, NextType DEF SpeedInv, ServoInv
  <2>2. /\ Abs(sent) \in Nat /\ Abs(sent') \in Nat
        /\ sent' # 0 /\ sent' # sent
    <3>1. sent \in Int /\ sent' \in Int
      BY <2>1, SpeedAssumption DEF TypeOK, Speed
    <3>2. Abs(sent) \in Nat /\ Abs(sent') \in Nat /\ Abs(0) = 0
      <4>1. \A x \in Int : Abs(x) \in Nat
        BY DEF Abs
      <4>2. Abs(0) = 0
        BY DEF Abs
      <4> QED BY <3>1, <4>1, <4>2
    <3>3. sent' # 0 /\ sent' # sent
      BY <1>1, <3>2
    <3> QED BY <3>2, <3>3
  <2>3. CASE Output
    <3>1. /\ sent' = IF want_mode = "CSV" THEN out'.vel ELSE 0
          /\ ~running => Abs(out'.vel) <= Abs(out.vel)
      BY <2>1, <2>3, OutputSends
    <3>2. rtpc = "output" /\ sent = out.vel
      BY <1>1, <2>1, <2>3 DEF Output, SpeedFits, MidCycle
    <3>3. sent' = out'.vel
      BY <2>2, <3>1
    <3>4. running
      BY <1>1, <2>2, <3>1, <3>2, <3>3, SMT
    <3> QED BY <2>1, <3>2, <3>4 DEF SpeedFits, ServoInv, ModeFits
  <2>4. CASE ExitGate \/ ExitCut
    <3>1. sent' \in {0, sent}
      BY <2>4 DEF ExitGate, ExitCut, Exchange, plant
    <3> QED BY <2>2, <3>1
  <2>5. CASE RtThread /\ ~(Output \/ ExitGate \/ ExitCut)
    BY <2>2, <2>5 DEF RtThread, Sample, Interlock, LeaveLoop, plant
  <2>6. CASE Environment \/ Connect \/ UNCHANGED <<private, plant, snap>>
    BY <2>2, <2>6 DEF Environment, Trip, BusDown, BusUp, Connect, plant
  <2> QED BY <1>1, <2>3, <2>4, <2>5, <2>6, WhoActs
<1>2. SpeedInv /\ [Next]_vars =>
        [ecOp /\ Powered(drive) /\ display = "CSV" /\ Abs(sent') > Abs(sent)
           => running /\ cia.state = "OperationEnabled" /\ mode_matched]_vars
  BY <1>1
<1> QED BY SpeedInvariant, <1>2, PTL DEF Spec, FasterOnlyInRun
-----------------------------------------------------------------------------
(* The soft stop.  An IPC thread clears run_req_ or stopping_ in one store *)
(* and sets the other flag in a later one; between the two neither may be  *)
(* set, and the thread still owes the store.                               *)

Owed == {<<"stopping", TRUE>>, <<"run_req", TRUE>>, <<"desired_target", "QuickStop">>}

Cleared == {<<"run_req", FALSE>>, <<"stopping", FALSE>>}

Owes(stores) == \E i \in 1 .. Len(stores) : stores[i] \in Owed

(* A store that clears a flag is followed by one that is owed.             *)
Paired(stores) ==
  \A i \in 1 .. Len(stores) : stores[i] \in Cleared =>
    i < Len(stores) /\ stores[i + 1] \in Owed

(* No thread is left with a flag cleared and nothing to make up for it.    *)
StoresFit == \A t \in Threads : Paired(todo[t])

(* A command that is not zero, or a cycle that runs, has a run or a stop in*)
(* charge of it, or a thread that is about to put one in charge.           *)
StopFits ==
  out.vel # 0 \/ running =>
    run_req \/ stopping \/ \E t \in Threads : Owes(todo[t])

SoftInv == TypeOK /\ StoresFit /\ StopFits

(* No quick stop, and the drive stays in CSV.                              *)
SpeedOnly == desired_mode = "CSV" /\ desired_target # "QuickStop"

(* The stores of servo_disable, one by one.                                *)
LEMMA DisableStores ==
  /\ Len(servoDisableStores) = 3
  /\ servoDisableStores[1] = <<"run_req", FALSE>>
  /\ servoDisableStores[2] = <<"stopping", TRUE>>
  /\ servoDisableStores[3] = <<"desired_target", "DisableVoltage">>
<1> DEFINE last == <<<<"desired_target", "DisableVoltage">>>>
<1>1. /\ stopRunStores \in Seq(Stores) /\ Len(stopRunStores) = 2
      /\ stopRunStores[1] = <<"run_req", FALSE>>
      /\ stopRunStores[2] = <<"stopping", TRUE>>
  BY StoresType DEF stopRunStores
<1>2. /\ last \in Seq(Stores) /\ Len(last) = 1
      /\ last[1] = <<"desired_target", "DisableVoltage">>
  BY DEF Stores, CommandTarget
<1>3. servoDisableStores = stopRunStores \o last
  BY DEF servoDisableStores
<1> HIDE DEF last
<1>4. /\ Len(stopRunStores \o last) = Len(stopRunStores) + Len(last)
      /\ \A i \in 1 .. Len(stopRunStores) + Len(last) :
           (stopRunStores \o last)[i] =
             IF i <= Len(stopRunStores) THEN stopRunStores[i]
                                        ELSE last[i - Len(stopRunStores)]
  BY <1>1, <1>2, ConcatProperties
<1>5. /\ Len(stopRunStores \o last) = 3
      /\ (stopRunStores \o last)[1] = stopRunStores[1]
      /\ (stopRunStores \o last)[2] = stopRunStores[2]
      /\ (stopRunStores \o last)[3] = last[1]
  <2>1. Len(stopRunStores) + Len(last) = 3 /\ 3 - Len(stopRunStores) = 1
    BY <1>1, <1>2
  <2>2. (stopRunStores \o last)[3] = last[3 - Len(stopRunStores)]
    BY <1>1, <1>4, <2>1
  <2>3. (stopRunStores \o last)[3] = last[1]
    BY <2>1, <2>2
  <2>4. /\ 1 \in 1 .. Len(stopRunStores) + Len(last) /\ 1 <= Len(stopRunStores)
        /\ 2 \in 1 .. Len(stopRunStores) + Len(last) /\ 2 <= Len(stopRunStores)
    BY <1>1, <1>2
  <2>5. /\ (stopRunStores \o last)[1] = stopRunStores[1]
        /\ (stopRunStores \o last)[2] = stopRunStores[2]
    BY <1>4, <2>4
  <2> QED BY <1>4, <2>1, <2>3, <2>5
<1> QED BY <1>1, <1>2, <1>3, <1>5

(* The operations make their stores in such an order.                      *)
LEMMA StoresPaired ==
  /\ Paired(stopRunStores) /\ Paired(servoDisableStores) /\ Paired(startRunStores)
  /\ Paired(<<>>) /\ Paired(<<<<"quit", TRUE>>>>)
  /\ Paired(<<<<"desired_target", "EnableOperation">>>>)
  /\ Paired(<<<<"fault_reset_req", TRUE>>>>)
  /\ Paired(<<<<"run_req", FALSE>>, <<"desired_target", "QuickStop">>>>)
  /\ \A m \in Modes : Paired(<<<<"desired_mode", m>>>>)
<1>1. /\ <<"run_req", FALSE>> \notin Owed /\ <<"stopping", TRUE>> \in Owed
      /\ <<"run_req", TRUE>> \in Owed /\ <<"desired_target", "QuickStop">> \in Owed
      /\ <<"stopping", TRUE>> \notin Cleared /\ <<"run_req", TRUE>> \notin Cleared
      /\ \A target : <<"desired_target", target>> \notin Cleared
      /\ \A m : <<"desired_mode", m>> \notin Cleared
      /\ <<"quit", TRUE>> \notin Cleared /\ <<"fault_reset_req", TRUE>> \notin Cleared
  BY DEF Owed, Cleared
<1>2. \A a : a \notin Cleared => Paired(<<a>>)
  BY DEF Paired
<1>3. \A a, b : b \in Owed /\ b \notin Cleared => Paired(<<a, b>>)
  BY DEF Paired
<1>4. Paired(stopRunStores) /\ Paired(startRunStores)
  BY <1>1, <1>3 DEF stopRunStores, startRunStores
<1>5. Paired(servoDisableStores)
  <2>1. ASSUME NEW i \in 1 .. Len(servoDisableStores), servoDisableStores[i] \in Cleared
        PROVE  i < Len(servoDisableStores) /\ servoDisableStores[i + 1] \in Owed
    <3>1. i = 1 \/ i = 2 \/ i = 3
      BY DisableStores
    <3>2. servoDisableStores[2] \notin Cleared /\ servoDisableStores[3] \notin Cleared
      BY DisableStores, <1>1
    <3>3. i = 1
      BY <2>1, <3>1, <3>2, Zenon
    <3>4. i + 1 = 2 /\ i < Len(servoDisableStores)
      BY DisableStores, <3>3
    <3> QED BY DisableStores, <1>1, <3>4
  <2> QED BY <2>1 DEF Paired
<1>6. Paired(<<>>)
  BY DEF Paired
<1> QED BY <1>1, <1>2, <1>3, <1>4, <1>5, <1>6

(* Making the first store of a sequence keeps the rest paired; what was    *)
(* owed is made or still owed; and clearing a flag leaves something owed.  *)
LEMMA TailOwes ==
  ASSUME NEW stores \in Seq(Stores), stores # <<>>, Paired(stores)
  PROVE  /\ Paired(Tail(stores))
         /\ Owes(stores) => Head(stores) \in Owed \/ Owes(Tail(stores))
         /\ Head(stores) \in Cleared => Owes(Tail(stores))
<1>1. /\ Len(Tail(stores)) = Len(stores) - 1 /\ Len(stores) \in Nat \ {0}
      /\ Head(stores) = stores[1]
      /\ \A i \in 1 .. Len(stores) - 1 : Tail(stores)[i] = stores[i + 1]
  OBVIOUS
<1>2. Paired(Tail(stores))
  BY <1>1 DEF Paired
<1>3. Owes(stores) => Head(stores) \in Owed \/ Owes(Tail(stores))
  <2> SUFFICES ASSUME NEW i \in 1 .. Len(stores), stores[i] \in Owed,
                      Head(stores) \notin Owed
               PROVE  Owes(Tail(stores))
    BY DEF Owes
  <2>1. i # 1 /\ i - 1 \in 1 .. Len(Tail(stores)) /\ Tail(stores)[i - 1] = stores[i]
    BY <1>1
  <2> QED BY <2>1 DEF Owes
<1>4. Head(stores) \in Cleared => Owes(Tail(stores))
  <2> SUFFICES ASSUME Head(stores) \in Cleared PROVE Owes(Tail(stores))
    OBVIOUS
  <2>1. 1 < Len(stores) /\ stores[2] \in Owed
    BY <1>1 DEF Paired
  <2>2. 1 \in 1 .. Len(Tail(stores)) /\ Tail(stores)[1] \in Owed
    BY <1>1, <2>1
  <2> QED BY <2>2 DEF Owes
<1> QED BY <1>2, <1>3, <1>4

(* A store to one of the flags sets it or clears it.                       *)
LEMMA StoreFlag ==
  ASSUME NEW s \in Stores, NEW name \in {"run_req", "stopping"}, s[1] = name
  PROVE  s = <<name, TRUE>> \/ s = <<name, FALSE>>
<1>1. s \in {"run_req", "stopping", "fault_reset_req", "quit"} \X BOOLEAN
  BY DEF Stores
<1>2. PICK value \in BOOLEAN : s = <<name, value>>
  BY <1>1
<1> QED BY <1>2

(* A thread's store clears a flag only with another store owed.            *)
LEMMA StoreSoft ==
  ASSUME SoftInv, NEW t \in Threads, Store(t), SpeedOnly'
  PROVE  StoresFit' /\ StopFits'
<1> DEFINE s == Head(todo[t])
<1>1. /\ todo[t] \in Seq(Stores) /\ todo[t] # <<>> /\ Paired(todo[t]) /\ s \in Stores
      /\ todo \in [Threads -> Seq(Stores)]
  BY DEF SoftInv, TypeOK, StoresFit, Store
<1>2. /\ todo' = [todo EXCEPT ![t] = Tail(@)]
      /\ desired_target' = (IF s[1] = "desired_target" THEN s[2] ELSE desired_target)
      /\ run_req' = (IF s[1] = "run_req" THEN s[2] ELSE run_req)
      /\ stopping' = (IF s[1] = "stopping" THEN s[2] ELSE stopping)
      /\ UNCHANGED <<out, running>>
  BY DEF Store, private
<1>3. /\ todo'[t] = Tail(todo[t])
      /\ \A u \in Threads : u # t => todo'[u] = todo[u]
  BY <1>1, <1>2
<1>4. StoresFit'
  BY <1>1, <1>3, TailOwes DEF SoftInv, StoresFit
<1> HIDE DEF s
<1>5. StopFits'
  <2> SUFFICES ASSUME out.vel # 0 \/ running
               PROVE  run_req' \/ stopping' \/ \E u \in Threads : Owes(todo'[u])
    BY <1>2 DEF StopFits
  <2>1. run_req \/ stopping \/ \E u \in Threads : Owes(todo[u])
    BY DEF SoftInv, StopFits
  <2>2. CASE s \in Cleared
    BY <1>1, <1>3, <2>2, TailOwes DEF s
  <2>3. CASE s \in Owed
    <3>1. s # <<"desired_target", "QuickStop">>
      BY <1>2 DEF SpeedOnly
    <3>2. s = <<"run_req", TRUE>> \/ s = <<"stopping", TRUE>>
      BY <2>3, <3>1 DEF Owed
    <3>3. s = <<"run_req", TRUE>> => run_req' = TRUE
      <4>1. s = <<"run_req", TRUE>> => s[1] = "run_req" /\ s[2] = TRUE
        OBVIOUS
      <4> QED BY <1>2, <4>1, Zenon
    <3>4. s = <<"stopping", TRUE>> => stopping' = TRUE
      <4>1. s = <<"stopping", TRUE>> => s[1] = "stopping" /\ s[2] = TRUE
        OBVIOUS
      <4> QED BY <1>2, <4>1, Zenon
    <3> QED BY <3>2, <3>3, <3>4
  <2>4. CASE s \notin Owed \cup Cleared
    <3>1. run_req => run_req'
      <4>1. s[1] = "run_req" => s = <<"run_req", TRUE>>
        BY <1>1, <2>4, StoreFlag DEF Cleared
      <4>2. s = <<"run_req", TRUE>> => s[2] = TRUE
        OBVIOUS
      <4> QED BY <1>2, <4>1, <4>2, Zenon
    <3>2. stopping => stopping'
      <4>1. s[1] = "stopping" => s = <<"stopping", TRUE>>
        BY <1>1, <2>4, StoreFlag DEF Cleared
      <4>2. s = <<"stopping", TRUE>> => s[2] = TRUE
        OBVIOUS
      <4> QED BY <1>2, <4>1, <4>2, Zenon
    <3>3. ASSUME NEW u \in Threads, Owes(todo[u]) PROVE Owes(todo'[u])
      BY <1>1, <1>3, <2>4, <3>3, TailOwes DEF s
    <3> QED BY <2>1, <3>1, <3>2, <3>3
  <2> QED BY <2>2, <2>3, <2>4
<1> QED BY <1>4, <1>5

(* A call that begins owes at most more than before.                       *)
LEMMA BeginSoft ==
  ASSUME SoftInv, NEW t \in Threads, todo[t] = <<>>, NEW stores, Paired(stores),
         todo' = [todo EXCEPT ![t] = stores],
         UNCHANGED <<run_req, stopping, out, running>>
  PROVE  StoresFit' /\ StopFits'
<1>1. todo \in [Threads -> Seq(Stores)]
  BY DEF SoftInv, TypeOK
<1>2. StoresFit'
  BY <1>1 DEF SoftInv, StoresFit
<1>3. ~Owes(todo[t])
  BY DEF Owes
<1>4. \A u \in Threads : Owes(todo[u]) => Owes(todo'[u])
  BY <1>1, <1>3
<1>5. StopFits'
  BY <1>4 DEF SoftInv, StopFits
<1> QED BY <1>2, <1>5

(* The rest of a cycle: a run that ends leaves a stop, and a stop ends only*)
(* when its ramp has arrived.                                              *)
LEMMA OutputSoft ==
  ASSUME SoftInv, SpeedOnly, Output
  PROVE  StopFits'
<1>1. PICK v \in IF running THEN Demand \cup {out.vel} ELSE {out.vel},
           t \in IF running THEN TrqDemand \cup {out.trq} ELSE {out.trq},
           finished \in IF running THEN BOOLEAN ELSE {FALSE},
           jump \in IF want_mode = "CSP" THEN BOOLEAN ELSE {FALSE} :
         /\ run_req' = (run_req /\ ~(finished \/ jump))
         /\ stopping' = (\/ finished \/ jump
                         \/ stopping /\ (running \/ ~rampDone(desired_mode)))
  BY ZenonT(60) DEF Output
<1>2. todo' = todo /\ running' = FALSE /\ TypeOK /\ desired_mode = "CSV"
  BY DEF Output, threads, SoftInv, SpeedOnly
<1>3. ~running /\ out'.vel # 0 => out.vel # 0 /\ ~rampDone(desired_mode)
  <2> SUFFICES ASSUME ~running, out'.vel # 0
               PROVE  out.vel # 0 /\ ~rampDone(desired_mode)
    OBVIOUS
  <2>1. out \in [vel : Speed, trq : Int] /\ out.vel \in Int /\ DStep \in Nat \ {0}
    BY <1>2, SpeedArith, SpeedAssumption DEF TypeOK
  <2>2. out'.vel = RampStep(out.vel, DStep)
    BY <1>2, <2>1, OutputSends DEF safeStopRamp
  <2> QED BY <1>2, <2>1, <2>2, RampSlows DEF rampDone
<1>4. out.vel # 0 \/ running => run_req \/ stopping \/ \E u \in Threads : Owes(todo[u])
  BY DEF SoftInv, StopFits
<1> QED BY <1>1, <1>2, <1>3, <1>4 DEF StopFits

(* Every step keeps it as long as there is no quick stop and no change of  *)
(* the mode.                                                               *)
LEMMA NextSoft == SoftInv /\ SpeedOnly /\ SpeedOnly' /\ [Next]_vars => SoftInv'
<1> SUFFICES ASSUME SoftInv, SpeedOnly, SpeedOnly', [Next]_vars
             PROVE  StoresFit' /\ StopFits'
  BY NextType DEF SoftInv
<1>1. CASE Output
  BY <1>1, OutputSoft DEF Output, threads, SoftInv, StoresFit
<1>2. CASE Interlock
  BY <1>2 DEF Interlock, threads, SoftInv, StoresFit, StopFits
<1>3. CASE RtThread /\ ~(Output \/ Interlock)
  <2>1. UNCHANGED <<run_req, stopping, out, running, todo>>
    BY <1>3 DEF RtThread, Sample, LeaveLoop, ExitGate, ExitCut, atomics, threads
  <2> QED BY <2>1 DEF SoftInv, StoresFit, StopFits
<1>4. CASE Environment
  BY <1>4 DEF Environment, Trip, BusDown, BusUp, atomics, threads, private,
     SoftInv, StoresFit, StopFits
<1>5. ASSUME NEW c \in Clients, Client(c) PROVE StoresFit' /\ StopFits'
  <2>1. PICK command, stores : Begin(c, command, stores) /\ Paired(stores)
    BY <1>5, StoresPaired DEF Client, servoEnable, servoDisable, faultReset,
       quickStop, startRun, stopRun, setMode
  <2>2. c \in Threads
    BY DEF Threads
  <2> QED BY <2>1, <2>2, BeginSoft DEF Begin, atomics, private
<1>6. ASSUME NEW t \in Threads, Store(t) PROVE StoresFit' /\ StopFits'
  BY <1>6, StoreSoft
<1>7. CASE MainThread
  <2>1. CASE Connect
    BY <2>1 DEF Connect, SoftInv, StoresFit, StopFits
  <2>2. CASE Disconnect \/ WaitOver \/ RequestStop \/ Joined
    <3>1. PICK from, to, stores :
            MainStep(from, to, stores) /\ Paired(stores) /\ UNCHANGED atomics
      BY <2>2, StoresPaired DEF Disconnect, WaitOver, RequestStop, Joined
    <3>2. "main" \in Threads
      BY DEF Threads
    <3> QED BY <3>1, <3>2, BeginSoft DEF MainStep, atomics, private
  <2> QED BY <1>7, <2>1, <2>2 DEF MainThread
<1>8. CASE UNCHANGED vars
  BY <1>8 DEF vars, atomics, threads, private, SoftInv, StoresFit, StopFits
<1> QED BY <1>1, <1>2, <1>3, <1>4, <1>5, <1>6, <1>7, <1>8 DEF Next

(* stopping_ tells the truth, whatever the commands, their interleaving    *)
(* with each other and with the cycle, the trips and the restarts: as long *)
(* as nobody gives a quick stop or leaves CSV, a speed command that is not *)
(* zero belongs to a run or to a soft stop under way.                      *)
THEOREM StopIsKept ==
  Spec /\ [](desired_mode = "CSV" /\ desired_target # "QuickStop")
    => []SoftStopNotForgotten
<1>1. Init => SoftInv
  <2>1. ASSUME Init PROVE StoresFit
    BY <2>1, StoresPaired DEF Init, StoresFit
  <2>2. ASSUME Init PROVE StopFits
    BY <2>2 DEF Init, StopFits
  <2> QED BY <2>1, <2>2, InitType DEF SoftInv
<1>2. SoftInv => SoftStopNotForgotten
  BY DEF SoftInv, StopFits, SoftStopNotForgotten, Quiet, Owes
<1>3. SpeedOnly <=> desired_mode = "CSV" /\ desired_target # "QuickStop"
  BY DEF SpeedOnly
<1> QED BY <1>1, <1>2, <1>3, NextSoft, PTL DEF Spec
-----------------------------------------------------------------------------
(* Disabling takes a bounded number of cycles: what TLC checks as          *)
(* DisableCarriedOut, without the fairness.                                *)

(* A machine that aims at DisableVoltage is about to send a word that      *)
(* enables nothing.                                                        *)
DisableWord ==
  MidCycle /\ cia.target = "DisableVoltage" => cw \in {kCmdDisableVoltage, kFaultReset}

(* The first step of a cycle sees to that, the others leave it alone.      *)
LEMMA DisableWordAlways == Spec => []DisableWord
<1>1. Init => DisableWord
  BY DEF Init, DisableWord, MidCycle
<1>2. TypeOK /\ DisableWord /\ [Next]_vars => DisableWord'
  <2> SUFFICES ASSUME TypeOK, DisableWord, [Next]_vars PROVE DisableWord'
    OBVIOUS
  <2>1. CASE Sample
    <3>1. PICK machine \in {requestFaultReset(cia), cia},
               target \in {"EnableOperation", desired_target} :
            /\ cw' = controlword(setTarget(machine, target), drive.sw)
            /\ cia' = update(setTarget(machine, target), drive.sw)
      BY <2>1 DEF Sample
    <3>2. machine \in Cia402Machine /\ drive.sw \in Statusword
      <4>1. cia \in Cia402Machine /\ drive.sw \in Statusword
        BY DEF TypeOK, Drive
      <4>2. requestFaultReset(cia) \in Cia402Machine
        BY <4>1 DEF requestFaultReset, Cia402Machine
      <4> QED BY <4>1, <4>2
    <3>3. target \in Cia402Target
      BY DEF TypeOK, CommandTarget, Cia402Target
    <3>4. setTarget(machine, target) \in Cia402Machine
      BY <3>2, <3>3 DEF setTarget, Cia402Machine
    <3> QED BY <3>1, <3>2, <3>4, WordTable DEF DisableWord
  <2>2. CASE Interlock
    BY <2>2 DEF Interlock, DisableWord, MidCycle
  <2>3. CASE Output \/ LeaveLoop \/ ExitGate \/ ExitCut \/ Connect
    BY <2>3 DEF Output, LeaveLoop, ExitGate, ExitCut, Connect, DisableWord, MidCycle
  <2>4. CASE Environment \/ UNCHANGED <<private, plant, snap>>
    BY <2>4 DEF Environment, Trip, BusDown, BusUp, private, DisableWord, MidCycle
  <2> QED BY <2>1, <2>2, <2>3, <2>4, WhoActs DEF RtThread
<1> QED BY <1>1, <1>2, ServoTypeCorrect, PTL DEF Spec

(* A cycle that finds a disable request either lets it through, and then   *)
(* the torque is off when the cycle has sent its frame, or it holds once   *)
(* more and has counted: it does so at most Timeout times in a row.        *)
THEOREM DisableIsBounded ==
  Spec => [][/\ Sample /\ desired_target = "DisableVoltage" =>
                  \/ cia'.target = "DisableVoltage"
                  \/ wait' = wait + 1 /\ wait' <= Timeout
             /\ Output /\ ecOp /\ cia.target = "DisableVoltage"
                  => ~Powered(drive')]_vars
<1>1. ASSUME TypeOK, Sample, desired_target = "DisableVoltage",
             cia'.target # "DisableVoltage"
      PROVE  wait' = wait + 1 /\ wait' <= Timeout
  <2> DEFINE machine == IF fault_reset_req THEN requestFaultReset(cia) ELSE cia
             hold    == shouldHoldEnableForDisableGate(machine.state, vel, stopping)
             aimed   == setTarget(machine, "DisableVoltage")
  <2>1. machine \in Cia402Machine /\ drive.sw \in Statusword
    BY <1>1 DEF TypeOK, Drive, requestFaultReset, Cia402Machine
  <2>2. aimed \in Cia402Machine /\ aimed.target = "DisableVoltage"
    BY <2>1 DEF setTarget, Cia402Machine, Cia402Target
  <2>3. update(aimed, drive.sw).target = "DisableVoltage"
    BY <2>1, <2>2, WordTable
  <2>4. hold /\ ~disableWaitTimedOut(Waited) /\ wait' = Waited
    BY <1>1, <2>3 DEF Sample
  <2> QED BY <1>1, <2>4, CycleAssumption DEF TypeOK, disableWaitTimedOut, Waited
<1>2. ASSUME ServoInv, DisableWord, Output, ecOp, cia.target = "DisableVoltage"
      PROVE  ~Powered(drive')
  <2>1. cw \in {kCmdDisableVoltage, kFaultReset}
    BY <1>2 DEF DisableWord, MidCycle, Output
  <2>2. PICK target : Exchange(cw, want_mode, target)
    BY <1>2 DEF Output
  <2>3. cw \in DriveWord /\ drive \in Drive /\ DriveFits
    BY <1>2 DEF ServoInv, TypeOK
  <2>4. Powered(drive') <=> (~drive.fault /\ cw = kCmdEnableOperation)
    BY <1>2, <2>2, <2>3, ExchangeEffect
  <2> QED BY <2>1, <2>4, WordsDiffer
<1>3. ServoInv /\ DisableWord =>
        [/\ Sample /\ desired_target = "DisableVoltage" =>
              \/ cia'.target = "DisableVoltage"
              \/ wait' = wait + 1 /\ wait' <= Timeout
         /\ Output /\ ecOp /\ cia.target = "DisableVoltage"
              => ~Powered(drive')]_vars
  BY <1>1, <1>2 DEF ServoInv
<1> QED BY <1>3, ServoInvariant, DisableWordAlways, PTL

-----------------------------------------------------------------------------
(* Stopping and starting the master: what TLC checks as DisconnectEnds,    *)
(* without the fairness.                                                   *)

Exiting == {"exit_gate", "exit_cut", "dead"}

NoQuit(stores) == \A i \in 1 .. Len(stores) : stores[i][1] # "quit"

AskToEnd == <<<<"quit", TRUE>>>>

(* Only the stopping thread asks the RT thread to end, only before it joins*)
(* it, and it is down only when that thread has ended.                     *)
LifeFits ==
  /\ \A c \in Clients : NoQuit(todo[c])
  /\ NoQuit(todo["main"]) \/ (todo["main"] = AskToEnd /\ main = "join")
  /\ main = "join" => quit \/ todo["main"] = AskToEnd
  /\ quit => main \in {"join", "down"}
  /\ rtpc \in Exiting => quit
  /\ main = "down" => rtpc = "dead"

LifeInv == TypeOK /\ LifeFits

(* The other sequences of stores do not touch the flag.                    *)
LEMMA StoresNoQuit ==
  /\ NoQuit(stopRunStores) /\ NoQuit(servoDisableStores) /\ NoQuit(startRunStores)
  /\ NoQuit(<<>>)
  /\ NoQuit(<<<<"desired_target", "EnableOperation">>>>)
  /\ NoQuit(<<<<"fault_reset_req", TRUE>>>>)
  /\ NoQuit(<<<<"run_req", FALSE>>, <<"desired_target", "QuickStop">>>>)
  /\ \A m \in Modes : NoQuit(<<<<"desired_mode", m>>>>)
<1>1. NoQuit(servoDisableStores)
  <2>1. ASSUME NEW i \in 1 .. Len(servoDisableStores)
        PROVE  servoDisableStores[i][1] # "quit"
    <3>1. i = 1 \/ i = 2 \/ i = 3
      BY DisableStores
    <3>2. /\ servoDisableStores[1][1] # "quit" /\ servoDisableStores[2][1] # "quit"
          /\ servoDisableStores[3][1] # "quit"
      BY DisableStores
    <3> QED BY <3>1, <3>2, Zenon
  <2> QED BY <2>1 DEF NoQuit
<1>2. NoQuit(stopRunStores) /\ NoQuit(startRunStores) /\ NoQuit(<<>>)
  BY DEF NoQuit, stopRunStores, startRunStores
<1>3. /\ NoQuit(<<<<"desired_target", "EnableOperation">>>>)
      /\ NoQuit(<<<<"fault_reset_req", TRUE>>>>)
      /\ NoQuit(<<<<"run_req", FALSE>>, <<"desired_target", "QuickStop">>>>)
      /\ \A m \in Modes : NoQuit(<<<<"desired_mode", m>>>>)
  BY DEF NoQuit
<1> QED BY <1>1, <1>2, <1>3

(* A thread's store.                                                       *)
LEMMA StoreLife ==
  ASSUME LifeInv, NEW t \in Threads, Store(t)
  PROVE  LifeFits'
<1> DEFINE s == Head(todo[t])
<1>1. /\ todo[t] \in Seq(Stores) /\ todo[t] # <<>>
      /\ todo \in [Threads -> Seq(Stores)]
  BY DEF LifeInv, TypeOK, Store
<1>2. /\ todo' = [todo EXCEPT ![t] = Tail(@)]
      /\ quit' = (IF s[1] = "quit" THEN s[2] ELSE quit)
      /\ UNCHANGED <<main, rtpc>>
  BY DEF Store, private
<1>3. /\ todo'[t] = Tail(todo[t])
      /\ \A u \in Threads : u # t => todo'[u] = todo[u]
  BY <1>1, <1>2
<1>4. /\ s = todo[t][1] /\ 1 \in 1 .. Len(todo[t])
      /\ \A i \in 1 .. Len(Tail(todo[t])) :
           i + 1 \in 1 .. Len(todo[t]) /\ Tail(todo[t])[i] = todo[t][i + 1]
  BY <1>1
<1>5. CASE NoQuit(todo[t])
  <2>1. NoQuit(todo'[t])
    BY <1>3, <1>4, <1>5 DEF NoQuit
  <2>2. quit' = quit
    BY <1>2, <1>4, <1>5 DEF NoQuit
  <2>3. todo[t] # AskToEnd
    <3>1. AskToEnd[1][1] = "quit"
      BY DEF AskToEnd
    <3> QED BY <1>4, <1>5, <3>1 DEF NoQuit
  <2> QED BY <1>2, <1>3, <2>1, <2>2, <2>3, ClientsAssumption
          DEF LifeInv, LifeFits, Threads
<1>6. CASE ~NoQuit(todo[t])
  <2>1. t = "main" /\ todo[t] = AskToEnd /\ main = "join"
    BY <1>6 DEF LifeInv, LifeFits, Threads
  <2>2. s[1] = "quit" /\ s[2] = TRUE /\ Tail(todo[t]) = <<>>
    <3>1. Head(AskToEnd) = <<"quit", TRUE>> /\ Tail(AskToEnd) = <<>>
      <4>1. \A a : Head(<<a>>) = a /\ Tail(<<a>>) = <<>>
        OBVIOUS
      <4> QED BY <4>1 DEF AskToEnd
    <3>2. s = <<"quit", TRUE>>
      BY <2>1, <3>1
    <3>3. s[1] = "quit"
      BY <3>2
    <3>4. \A r : r = <<"quit", TRUE>> => r[2] = TRUE
      OBVIOUS
    <3>5. s[2] = TRUE
      BY <3>2, <3>4, Zenon
    <3> QED BY <2>1, <3>1, <3>3, <3>5
  <2>3. quit' = TRUE
    BY <1>2, <2>2, Zenon
  <2> QED BY <1>2, <1>3, <2>1, <2>2, <2>3, StoresNoQuit, ClientsAssumption
          DEF LifeInv, LifeFits, Threads
<1> QED BY <1>5, <1>6

(* Every step keeps it.                                                    *)
LEMMA NextLife == LifeInv /\ [Next]_vars => LifeInv'
<1> SUFFICES ASSUME LifeInv, [Next]_vars PROVE LifeFits'
  BY NextType DEF LifeInv
<1>0. todo \in [Threads -> Seq(Stores)]
  BY DEF LifeInv, TypeOK
<1>1. CASE RtThread
  <2>1. UNCHANGED <<quit, todo, main>>
    BY <1>1 DEF RtThread, Sample, Interlock, Output, LeaveLoop, ExitGate, ExitCut,
       atomics, threads
  <2>2. rtpc' \in Exiting => quit
    BY <1>1 DEF RtThread, Sample, Interlock, Output, LeaveLoop, ExitGate, ExitCut,
       LifeInv, LifeFits, Exiting
  <2>3. rtpc # "dead"
    BY <1>1 DEF RtThread, Sample, Interlock, Output, LeaveLoop, ExitGate, ExitCut
  <2> QED BY <2>1, <2>2, <2>3 DEF LifeInv, LifeFits
<1>2. CASE Environment
  BY <1>2 DEF Environment, Trip, BusDown, BusUp, atomics, threads, private, LifeInv,
     LifeFits
<1>3. ASSUME NEW c \in Clients, Client(c) PROVE LifeFits'
  <2>1. PICK command, stores : Begin(c, command, stores) /\ NoQuit(stores)
    BY <1>3, StoresNoQuit DEF Client, servoEnable, servoDisable, faultReset,
       quickStop, startRun, stopRun, setMode
  <2> QED BY <1>0, <2>1, ClientsAssumption
          DEF Begin, atomics, private, Threads, LifeInv, LifeFits
<1>4. ASSUME NEW t \in Threads, Store(t) PROVE LifeFits'
  BY <1>4, StoreLife
<1>5. CASE MainThread
  <2>1. CASE Connect
    BY <2>1, StoresNoQuit DEF Connect, LifeInv, LifeFits, Exiting
  <2>2. CASE Disconnect \/ WaitOver
    <3>1. PICK from, to, stores :
            /\ MainStep(from, to, stores) /\ NoQuit(stores) /\ UNCHANGED atomics
            /\ from \in {"up", "wait"} /\ to \in {"wait", "settle"}
      BY <2>2, StoresNoQuit DEF Disconnect, WaitOver
    <3> QED BY <1>0, <3>1, ClientsAssumption
            DEF MainStep, atomics, private, Threads, LifeInv, LifeFits
  <2>3. CASE RequestStop
    BY <1>0, <2>3, ClientsAssumption
       DEF RequestStop, MainStep, AskToEnd, atomics, private, Threads, LifeInv, LifeFits
  <2>4. CASE Joined
    BY <1>0, <2>4, StoresNoQuit, ClientsAssumption
       DEF Joined, MainStep, atomics, private, Threads, LifeInv, LifeFits
  <2> QED BY <1>5, <2>1, <2>2, <2>3, <2>4 DEF MainThread
<1>6. CASE UNCHANGED vars
  BY <1>6 DEF vars, atomics, threads, private, LifeInv, LifeFits
<1> QED BY <1>1, <1>2, <1>3, <1>4, <1>5, <1>6 DEF Next

(* disconnect never joins a thread that was not asked to end, the RT thread*)
(* never ends behind its back, and when the master is down that thread has *)
(* ended and the drive it leaves is not powered -- in time or after the    *)
(* deadline, whatever the clients do meanwhile.                            *)
THEOREM DownIsSafe ==
  Spec => [](/\ main = "join" => quit \/ todo["main"] = AskToEnd
             /\ rtpc \in Exiting => main \in {"join", "down"}
             /\ main = "down" => rtpc = "dead" /\ (ecOp => ~Powered(drive)))
<1>1. Init => LifeInv
  <2>1. ASSUME Init PROVE LifeFits
    BY <2>1, StoresNoQuit DEF Init, LifeFits, Exiting, Threads
  <2> QED BY <2>1, InitType DEF LifeInv
<1>2. LifeInv /\ ExitLeavesUnpowered =>
        /\ main = "join" => quit \/ todo["main"] = AskToEnd
        /\ rtpc \in Exiting => main \in {"join", "down"}
        /\ main = "down" => rtpc = "dead" /\ (ecOp => ~Powered(drive))
  BY DEF LifeInv, LifeFits, ExitLeavesUnpowered
<1> QED BY <1>1, <1>2, NextLife, ExitIsSafe, PTL DEF Spec
-----------------------------------------------------------------------------
(* The ladder inside the servo core.  ServoLadder runs the two machines in *)
(* lockstep; here a cycle is three steps, commands fall in between, the    *)
(* gate changes the target, the bus comes and goes and an exit sequence    *)
(* follows.  Its properties hold all the same, with the same definitions.  *)

Ladder == INSTANCE ServoLadder
          WITH trips <- 0, MaxTrips <- 0, Targets <- CommandTarget

(* In the middle of a cycle: 0F goes out only to a drive that is on one of *)
(* the two highest rungs, and with bit 7 no other word is kept.            *)
LadderFits ==
  MidCycle =>
    /\ cw = kCmdEnableOperation
         => DriveState(drive) \in {"SwitchedOn", "OperationEnabled"}
    /\ cw = kFaultReset => cia.lastCw = kCmdDisableVoltage

(* What a cycle decides with: the machine, perhaps with a reset requested, *)
(* and a target that is Idle only before the first command.                *)
LEMMA SampleAims ==
  ASSUME TypeOK, Sample
  PROVE  \E aimed \in Cia402Machine :
           /\ cw' = controlword(aimed, drive.sw) /\ cia' = update(aimed, drive.sw)
           /\ aimed.lastCw = cia.lastCw
           /\ aimed.target = "Idle" => desired_target = "Idle"
           /\ IF fault_reset_req
                THEN aimed.frPhase = "Low"
                ELSE aimed.frPhase = cia.frPhase /\ aimed.frCounter = cia.frCounter
<1> DEFINE machine == IF fault_reset_req THEN requestFaultReset(cia) ELSE cia
<1>1. PICK target \in {"EnableOperation", desired_target} :
        /\ cw' = controlword(setTarget(machine, target), drive.sw)
        /\ cia' = update(setTarget(machine, target), drive.sw)
  BY DEF Sample
<1>2. /\ machine \in Cia402Machine /\ machine.lastCw = cia.lastCw
      /\ IF fault_reset_req
           THEN machine.frPhase = "Low"
           ELSE machine.frPhase = cia.frPhase /\ machine.frCounter = cia.frCounter
  BY DEF TypeOK, requestFaultReset, Cia402Machine
<1> HIDE DEF machine
<1>3. target \in Cia402Target
  BY DEF TypeOK, CommandTarget, Cia402Target
<1>4. /\ setTarget(machine, target) \in Cia402Machine
      /\ setTarget(machine, target).lastCw = machine.lastCw
      /\ setTarget(machine, target).target = target
      /\ setTarget(machine, target).frPhase = machine.frPhase
      /\ setTarget(machine, target).frCounter = machine.frCounter
  BY <1>2, <1>3 DEF setTarget, Cia402Machine
<1> QED BY <1>1, <1>2, <1>4

(* A word with bit 7 leaves no other in lastCw.                            *)
LEMMA PulseKeeps ==
  ASSUME NEW m \in Cia402Machine, NEW sw \in Statusword,
         controlword(m, sw) = kFaultReset
  PROVE  update(m, sw).lastCw = kCmdDisableVoltage
<1>1. kFaultReset \notin Controlword
  <2>1. \A w \in Controlword : 7 \notin w
    BY DEF Controlword, kCmdDisableVoltage, kCmdQuickStop, kCmdShutdown,
           kCmdSwitchOn, kCmdEnableOperation
  <2> QED BY <2>1 DEF kFaultReset
<1>2. m.frPhase # "None"
  BY <1>1, PhaseWord
<1> QED BY <1>2 DEF update, KeptWord, Cia402Machine

(* LadderFits holds always.                                                *)
LEMMA LadderFitsAlways == Spec => []LadderFits
<1>1. Init => LadderFits
  BY DEF Init, LadderFits, MidCycle
<1>2. ServoInv /\ LadderFits /\ [Next]_vars => LadderFits'
  <2> SUFFICES ASSUME ServoInv, LadderFits, [Next]_vars PROVE LadderFits'
    OBVIOUS
  <2>0. TypeOK /\ drive.sw \in Statusword /\ IdleIsOff
    BY DEF ServoInv, TypeOK, Drive
  <2>1. CASE Sample
    <3>1. PICK aimed \in Cia402Machine :
            /\ cw' = controlword(aimed, drive.sw) /\ cia' = update(aimed, drive.sw)
            /\ aimed.lastCw = cia.lastCw
            /\ aimed.target = "Idle" => desired_target = "Idle"
      BY <2>0, <2>1, SampleAims
    <3>2. cw' = kCmdEnableOperation
            => DriveState(drive) \in {"SwitchedOn", "OperationEnabled"}
      BY <2>0, <3>1, WordTable, WordsDiffer DEF IdleIsOff, DriveState
    <3>3. cw' = kFaultReset => cia'.lastCw = kCmdDisableVoltage
      BY <2>0, <3>1, PulseKeeps
    <3>4. drive' = drive
      BY <2>1 DEF Sample, plant
    <3> QED BY <3>2, <3>3, <3>4 DEF LadderFits
  <2>2. CASE Interlock
    BY <2>2 DEF Interlock, LadderFits, MidCycle, plant
  <2>3. CASE Output \/ LeaveLoop \/ ExitGate \/ ExitCut \/ Connect
    BY <2>3 DEF Output, LeaveLoop, ExitGate, ExitCut, Connect, LadderFits, MidCycle
  <2>4. CASE Environment
    BY <2>4 DEF Environment, Trip, BusDown, BusUp, BetweenCycles, private,
       LadderFits, MidCycle
  <2>5. CASE UNCHANGED <<private, plant, snap>>
    BY <2>5 DEF private, plant, LadderFits, MidCycle
  <2> QED BY <2>1, <2>2, <2>3, <2>4, <2>5, WhoActs DEF RtThread
<1> QED BY <1>1, <1>2, ServoInvariant, PTL DEF Spec

(* A step that drives: with which word, and what the machine keeps of it.  *)
LEMMA DrivingStep ==
  ASSUME ServoInv, LadderFits, Output \/ ExitGate \/ ExitCut, drive' # drive
  PROVE  \E word \in DriveWord :
           /\ drive' = updateCia402(drive, word)
           /\ word = kCmdEnableOperation
                => DriveState(drive) \in {"SwitchedOn", "OperationEnabled"}
           /\ word = kFaultReset => cia'.lastCw = kCmdDisableVoltage
<1>0. TypeOK /\ cia \in Cia402Machine /\ drive.sw \in Statusword
  BY DEF ServoInv, TypeOK, Drive
<1>1. CASE Output
  <2>1. PICK target : Exchange(cw, want_mode, target)
    BY <1>1 DEF Output
  <2>2. drive' = updateCia402(drive, cw) /\ cw \in DriveWord /\ cia' = cia /\ MidCycle
    BY <1>0, <1>1, <2>1 DEF Exchange, Output, MidCycle, TypeOK
  <2> QED BY <2>2 DEF LadderFits
<1>2. CASE ExitGate \/ ExitCut
  <2>1. PICK goal \in {"EnableOperation", "DisableVoltage"} :
          LET aimed == setTarget(cia, goal)
          IN  /\ Exchange(controlword(aimed, drive.sw), want_mode, 0)
              /\ cia' = update(aimed, drive.sw)
    BY <1>2 DEF ExitGate, ExitCut, plant
  <2> DEFINE aimed == setTarget(cia, goal)
             word  == controlword(aimed, drive.sw)
  <2>2. aimed \in Cia402Machine /\ aimed.target = goal
    BY <1>0 DEF setTarget, Cia402Machine, Cia402Target
  <2>3. drive' = updateCia402(drive, word) /\ cia' = update(aimed, drive.sw)
    BY <2>1 DEF Exchange
  <2> HIDE DEF aimed
  <2>4. word \in DriveWord
    BY <1>0, <2>2, ControlwordType
  <2>5. word = kCmdEnableOperation
          => DriveState(drive) \in {"SwitchedOn", "OperationEnabled"}
    BY <1>0, <2>2, WordTable DEF DriveState
  <2>6. word = kFaultReset => cia'.lastCw = kCmdDisableVoltage
    BY <1>0, <2>2, <2>3, PulseKeeps
  <2> QED BY <2>3, <2>4, <2>5, <2>6
<1> QED BY <1>1, <1>2

(* The servo core keeps what the ladder promises: whatever the commands,   *)
(* the gate, trips, a bus that comes and goes, the exit and restarts, the  *)
(* drive is enabled rung by rung, and a fault is left for Switch On        *)
(* Disabled only, with power switched off.                                 *)
THEOREM LadderInServo ==
  Spec => Ladder!NoRungSkipped /\ Ladder!FaultLeadsToDisabled
<1>1. ASSUME ServoInv, LadderFits, [Next]_vars, DriveState(drive') = "OperationEnabled"
      PROVE  DriveState(drive) \in {"SwitchedOn", "OperationEnabled"}
  <2>1. CASE drive' = drive
    BY <1>1, <2>1
  <2>2. CASE drive' # drive
    <3>1. Output \/ ExitGate \/ ExitCut
      BY <1>1, <2>2, WhoDrives
    <3>2. PICK word \in DriveWord :
            /\ drive' = updateCia402(drive, word)
            /\ word = kCmdEnableOperation
                 => DriveState(drive) \in {"SwitchedOn", "OperationEnabled"}
      BY <1>1, <2>2, <3>1, DrivingStep
    <3> QED BY <1>1, <3>2, EnabledBy DEF ServoInv, TypeOK
  <2> QED BY <2>1, <2>2
<1>2. ASSUME ServoInv, LadderFits, [Next]_vars, drive.fault, ~drive'.fault
      PROVE  DriveState(drive') = "SwitchOnDisabled" /\ cia'.lastCw = kCmdDisableVoltage
  <2>1. drive' # drive /\ drive \in Drive
    BY <1>2 DEF ServoInv, TypeOK
  <2>2. ~Environment
    BY <1>2, <2>1 DEF Environment, Trip, BusDown, BusUp, driveTrip, Drive
  <2>3. PICK word \in DriveWord :
          /\ drive' = updateCia402(drive, word)
          /\ word = kFaultReset => cia'.lastCw = kCmdDisableVoltage
    BY <1>2, <2>1, <2>2, WhoDrives, DrivingStep
  <2>4. drive'.sw = SwSwitchOnDisabled /\ 7 \in word
    BY <1>2, <2>3 DEF updateCia402, faultResetEdge
  <2> QED BY <2>3, <2>4, Bit7, Decoded DEF DriveState
<1>3. ServoInv /\ LadderFits /\ [Next]_vars =>
        [DriveState(drive') = "OperationEnabled"
           => DriveState(drive) \in {"SwitchedOn", "OperationEnabled"}]_<<cia, drive, 0>>
  BY <1>1
<1>4. ServoInv /\ LadderFits /\ [Next]_vars =>
        [drive.fault /\ ~drive'.fault
           => DriveState(drive') = "SwitchOnDisabled"
              /\ cia'.lastCw = kCmdDisableVoltage]_<<cia, drive, 0>>
  BY <1>2
<1>5. Spec => [][DriveState(drive') = "OperationEnabled"
           => DriveState(drive) \in {"SwitchedOn", "OperationEnabled"}]_<<cia, drive, 0>>
  BY <1>3, ServoInvariant, LadderFitsAlways, PTL DEF Spec
<1>6. Spec => [][drive.fault /\ ~drive'.fault
           => DriveState(drive') = "SwitchOnDisabled"
              /\ cia'.lastCw = kCmdDisableVoltage]_<<cia, drive, 0>>
  BY <1>4, ServoInvariant, LadderFitsAlways, PTL DEF Spec
<1> QED
  BY <1>5, <1>6
     DEF Ladder!NoRungSkipped, Ladder!FaultLeadsToDisabled, Ladder!vars,
         Ladder!DriveState, Ladder!decodeState, Ladder!kCmdDisableVoltage,
         DriveState, decodeState, kCmdDisableVoltage
-----------------------------------------------------------------------------
(* The fault-reset pulse inside the servo core.                            *)

(* The first cycle of the High phase comes next.                           *)
Raising == cia.frPhase = "High" /\ cia.frCounter = 0

(* Before it, the drive has seen the low word, or is about to see it.      *)
EdgeFits ==
  Raising => IF MidCycle THEN cw = kCmdDisableVoltage ELSE 7 \notin drive.lastCw

(* One cycle of the machine: it raises bit 7 only after the low word.      *)
LEMMA RaisedAfterLow ==
  ASSUME NEW m \in Cia402Machine, NEW sw \in Statusword,
         update(m, sw).frPhase = "High", update(m, sw).frCounter = 0
  PROVE  controlword(m, sw) = kCmdDisableVoltage
<1>1. m.frPhase \in {"None", "Low", "High"} /\ m.frCounter \in Nat
  BY DEF Cia402Machine
<1>2. update(m, sw).frPhase = NextPhase(m) /\ update(m, sw).frCounter = NextCounter(m)
  BY DEF update, Cia402Machine
<1>3. m.frPhase # "None"
  BY <1>2 DEF NextPhase
<1>4. m.frPhase # "High"
  BY <1>1, <1>2 DEF NextPhase, NextCounter
<1> QED BY <1>1, <1>3, <1>4, PhaseWord

(* Every frame in OP tells the drive its word.                             *)
LEMMA FrameSeen ==
  ASSUME NEW word, NEW mode, NEW target, drive \in Drive, ecOp,
         Exchange(word, mode, target)
  PROVE  drive' = updateCia402(drive, word) /\ drive'.lastCw = word
<1>1. drive' = updateCia402(drive, word)
  BY DEF Exchange
<1>2. CASE drive.fault
  BY <1>1, <1>2 DEF updateCia402
<1>3. CASE ~drive.fault
  BY <1>1, <1>3 DEF updateCia402, Drive
<1> QED BY <1>1, <1>2, <1>3

(* EdgeFits is kept as long as the bus stays in OP.                        *)
LEMMA NextEdge == TypeOK /\ ecOp /\ EdgeFits /\ [Next]_vars => EdgeFits'
<1> SUFFICES ASSUME TypeOK, ecOp, EdgeFits, [Next]_vars PROVE EdgeFits'
  OBVIOUS
<1>0. cia \in Cia402Machine /\ drive \in Drive /\ drive.sw \in Statusword
      /\ 7 \notin kCmdDisableVoltage
  BY DEF TypeOK, Drive, kCmdDisableVoltage
<1>1. CASE Sample
  <2>1. PICK aimed \in Cia402Machine :
          cw' = controlword(aimed, drive.sw) /\ cia' = update(aimed, drive.sw)
    BY <1>1, SampleAims
  <2> QED BY <1>0, <1>1, <2>1, RaisedAfterLow DEF EdgeFits, Raising, MidCycle, Sample
<1>2. CASE Interlock
  BY <1>2 DEF Interlock, EdgeFits, Raising, MidCycle, plant
<1>3. CASE Output
  <2>1. PICK target : Exchange(cw, want_mode, target)
    BY <1>3 DEF Output
  <2>2. drive'.lastCw = cw
    BY <1>0, <2>1, FrameSeen
  <2> QED BY <1>0, <1>3, <2>2 DEF EdgeFits, Raising, MidCycle, Output
<1>4. CASE ExitGate \/ ExitCut
  <2>1. ~MidCycle /\ ~MidCycle'
    BY <1>4 DEF ExitGate, ExitCut, MidCycle
  <2>2. \/ /\ drive' = drive
           /\ cia' \in {cia, setTarget(cia, "EnableOperation")}
        \/ \E goal \in {"EnableOperation", "DisableVoltage"} :
             LET aimed == setTarget(cia, goal)
             IN  /\ Exchange(controlword(aimed, drive.sw), want_mode, 0)
                 /\ cia' = update(aimed, drive.sw)
    BY <1>4 DEF ExitGate, ExitCut, plant
  <2>3. ASSUME drive' = drive, cia' \in {cia, setTarget(cia, "EnableOperation")}
        PROVE  EdgeFits'
    BY <1>0, <2>1, <2>3 DEF EdgeFits, Raising, setTarget, Cia402Machine
  <2>4. ASSUME NEW goal \in {"EnableOperation", "DisableVoltage"},
               Exchange(controlword(setTarget(cia, goal), drive.sw), want_mode, 0),
               cia' = update(setTarget(cia, goal), drive.sw)
        PROVE  EdgeFits'
    <3>1. setTarget(cia, goal) \in Cia402Machine
      BY <1>0 DEF setTarget, Cia402Machine, Cia402Target
    <3>2. drive'.lastCw = controlword(setTarget(cia, goal), drive.sw)
      BY <1>0, <2>4, FrameSeen
    <3> QED BY <1>0, <2>1, <2>4, <3>1, <3>2, RaisedAfterLow DEF EdgeFits, Raising
  <2> QED BY <2>2, <2>3, <2>4
<1>5. CASE LeaveLoop \/ Connect
  BY <1>5 DEF LeaveLoop, Connect, EdgeFits, Raising, MidCycle, plant
<1>6. CASE Environment
  <2>1. drive'.lastCw = drive.lastCw
    BY <1>0, <1>6 DEF Environment, Trip, BusDown, BusUp, driveTrip, Drive
  <2> QED BY <1>6, <2>1 DEF Environment, Trip, BusDown, BusUp, BetweenCycles,
          private, EdgeFits, Raising, MidCycle
<1>7. CASE UNCHANGED <<private, plant, snap>>
  BY <1>7 DEF private, plant, EdgeFits, Raising, MidCycle
<1> QED BY <1>1, <1>2, <1>3, <1>4, <1>5, <1>6, <1>7, WhoActs DEF RtThread

(* As long as the bus stays in OP no reset is lost, whatever commands,     *)
(* gate, trips and restarts do to it: the cycle that raises bit 7 finds a  *)
(* drive that has seen it low, and the frame of that cycle clears a fault. *)
THEOREM ResetReachesDrive ==
  Spec /\ []ecOp =>
    [][/\ Sample /\ Raising /\ ~fault_reset_req
            => cw' = kFaultReset /\ 7 \notin drive'.lastCw
       /\ Output /\ cw = kFaultReset /\ 7 \notin drive.lastCw
            => ~drive'.fault]_vars
<1>1. Init => EdgeFits
  BY DEF Init, EdgeFits, Raising, Cia402Init
<1>2. ASSUME TypeOK, EdgeFits, Sample, Raising, ~fault_reset_req
      PROVE  cw' = kFaultReset /\ 7 \notin drive'.lastCw
  <2>1. PICK aimed \in Cia402Machine :
          cw' = controlword(aimed, drive.sw) /\ aimed.frPhase = cia.frPhase
    BY <1>2, SampleAims
  <2>2. cw' = kFaultReset
    BY <1>2, <2>1, PhaseWord DEF Raising, TypeOK, Drive
  <2> QED BY <1>2, <2>2 DEF EdgeFits, MidCycle, Sample, plant
<1>3. ASSUME TypeOK, ecOp, Output, cw = kFaultReset, 7 \notin drive.lastCw
      PROVE  ~drive'.fault
  <2>1. PICK target : Exchange(cw, want_mode, target)
    BY <1>3 DEF Output
  <2>2. drive' = updateCia402(drive, kFaultReset) /\ drive \in Drive
    BY <1>3, <2>1, FrameSeen DEF TypeOK
  <2>3. faultResetEdge(drive, kFaultReset)
    BY <1>3 DEF faultResetEdge, kFaultReset
  <2> QED BY <2>2, <2>3 DEF updateCia402, Drive
<1>4. TypeOK /\ ecOp /\ EdgeFits =>
        [/\ Sample /\ Raising /\ ~fault_reset_req
              => cw' = kFaultReset /\ 7 \notin drive'.lastCw
         /\ Output /\ cw = kFaultReset /\ 7 \notin drive.lastCw
              => ~drive'.fault]_vars
  BY <1>2, <1>3
<1> QED BY <1>1, <1>4, NextEdge, ServoTypeCorrect, PTL DEF Spec
-----------------------------------------------------------------------------
(* Enabling inside the servo core.                                         *)

(* While servo_enable stands and no reset is under way, every cycle in OP  *)
(* takes the drive one rung up until it is enabled: Sample chooses the word*)
(* of the rung, nothing comes between it and the frame, the frame moves the*)
(* drive, and between cycles only a trip or the bus does.  So a joint is   *)
(* enabled after four cycles, however the calls interleave with them.      *)
THEOREM EnableClimbsInServo ==
  Spec =>
    [][/\ Sample /\ desired_target = "EnableOperation" /\ ~fault_reset_req
            /\ cia.frPhase = "None"
            => cw' = EnableWord(DriveState(drive'))
       /\ MidCycle /\ MidCycle' => UNCHANGED <<cw, drive>>
       /\ Output /\ ecOp /\ ~drive.fault /\ cw = EnableWord(DriveState(drive))
            => \/ Rung(DriveState(drive)) = 4 /\ Rung(DriveState(drive')) = 4
               \/ Rung(DriveState(drive')) = Rung(DriveState(drive)) + 1
       /\ rtpc = "cycle" /\ drive' # drive => Environment]_vars
<1>1. ASSUME TypeOK, Sample, desired_target = "EnableOperation",
             ~fault_reset_req, cia.frPhase = "None"
      PROVE  cw' = EnableWord(DriveState(drive'))
  <2> DEFINE aimed == setTarget(cia, "EnableOperation")
  <2>1. cw' = controlword(aimed, drive.sw) /\ drive' = drive
    BY <1>1 DEF Sample, plant
  <2>2. /\ aimed \in Cia402Machine /\ drive.sw \in Statusword
        /\ aimed.target = "EnableOperation" /\ aimed.frPhase = "None"
    BY <1>1 DEF TypeOK, Drive, setTarget, Cia402Machine, Cia402Target
  <2> HIDE DEF aimed
  <2> QED BY <2>1, <2>2, PhaseWord DEF TargetWord, DriveState
<1>2. ASSUME ServoInv, [Next]_vars, MidCycle, MidCycle' PROVE UNCHANGED <<cw, drive>>
  <2>1. CASE RtThread
    BY <1>2, <2>1 DEF RtThread, Sample, Interlock, Output, LeaveLoop, ExitGate,
       ExitCut, MidCycle, plant
  <2>2. CASE Environment \/ Connect
    BY <1>2, <2>2 DEF Environment, Trip, BusDown, BusUp, BetweenCycles, Connect,
       MidCycle
  <2> QED BY <1>2, <2>1, <2>2, WhoActs DEF private, plant
<1>3. ASSUME TypeOK, Output, ecOp, ~drive.fault, cw = EnableWord(DriveState(drive))
      PROVE  \/ Rung(DriveState(drive)) = 4 /\ Rung(DriveState(drive')) = 4
             \/ Rung(DriveState(drive')) = Rung(DriveState(drive)) + 1
  <2>1. PICK target : Exchange(cw, want_mode, target)
    BY <1>3 DEF Output
  <2>2. drive' = updateCia402(drive, EnableWord(DriveState(drive))) /\ drive \in Drive
    BY <1>3, <2>1, FrameSeen DEF TypeOK
  <2> QED BY <1>3, <2>2, NextRung
<1>4. ASSUME ServoInv, [Next]_vars, rtpc = "cycle", drive' # drive PROVE Environment
  BY <1>4, WhoDrives DEF Output, ExitGate, ExitCut
<1>5. ServoInv /\ [Next]_vars =>
        [/\ Sample /\ desired_target = "EnableOperation" /\ ~fault_reset_req
              /\ cia.frPhase = "None"
              => cw' = EnableWord(DriveState(drive'))
         /\ MidCycle /\ MidCycle' => UNCHANGED <<cw, drive>>
         /\ Output /\ ecOp /\ ~drive.fault /\ cw = EnableWord(DriveState(drive))
              => \/ Rung(DriveState(drive)) = 4 /\ Rung(DriveState(drive')) = 4
                 \/ Rung(DriveState(drive')) = Rung(DriveState(drive)) + 1
         /\ rtpc = "cycle" /\ drive' # drive => Environment]_vars
  BY <1>1, <1>2, <1>3, <1>4 DEF ServoInv
<1> QED BY <1>5, ServoInvariant, PTL DEF Spec
=============================================================================
