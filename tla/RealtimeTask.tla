---------------------------- MODULE RealtimeTask ----------------------------
(***************************************************************************)
(* The core of the backend: the 1 kHz realtime thread of RealtimeTask, the *)
(* commands that IPC threads give it through atomics, the sequence that    *)
(* stops the master, and the drive and joint at the other end of the bus.  *)
(*                                                                         *)
(* Atomicity.  A cycle is three steps, cut where the thread touches atomics*)
(* that an IPC thread may write in between: Sample reads the commands and  *)
(* moves the CiA 402 machine, Interlock reads run_req_, Output computes,   *)
(* sends and publishes.  An IPC call is its check followed by one step per *)
(* atomic store, in program order.  The bus exchanges data once a cycle, so*)
(* drive and bus events happen between cycles.                             *)
(*                                                                         *)
(* Data.  Speeds and torques are small integers with a sign.  Trajectory   *)
(* and controller together ask for any member of Demand or TrqDemand and   *)
(* may end at any cycle; positions appear only as "the CSP jump guard may  *)
(* trigger".                                                               *)
(***************************************************************************)
EXTENDS Integers, Sequences, MockDrive

CONSTANTS
  Clients,        \* IPC threads, one per connected client
  Commands,       \* the IPC commands they give in this instance
  Modes,          \* operation modes they select
  VMax,           \* bound on speeds
  SafeRpm,        \* kSafeDisableOutputRpm: below it the brake may engage
  VStep, DStep,   \* speed change per cycle: running / stopping
  TStep, CStep,   \* torque change per cycle: always / CST stopping
  Demand,         \* speeds a trajectory and controller ask for
  TrqDemand,      \* torques they ask for
  Timeout,        \* stop_ramp.disable_timeout_cycles
  ExitCycles,     \* cycles of DisableVoltage before the thread ends (50)
  Disturbances    \* which of "trip", "bus", "push", "deadline" may happen

Abs(x) == IF x < 0 THEN -x ELSE x
Speed  == -VMax .. VMax

ASSUME ClientsAssumption == "main" \notin Clients
ASSUME SpeedAssumption ==
  /\ VMax \in Nat /\ SafeRpm \in Nat
  /\ Demand \subseteq Speed /\ 0 \in TrqDemand /\ TrqDemand \subseteq Int
  /\ {VStep, DStep, TStep, CStep} \subseteq Nat \ {0}
ASSUME CycleAssumption == Timeout \in Nat /\ ExitCycles \in Nat \ {0}

VARIABLES
  \* atomics: written by IPC threads, read (some written) by the RT thread
  desired_target, desired_mode, run_req, stopping, fault_reset_req, quit,
  \* the IPC threads and the thread that stops the master
  todo,           \* todo[t]: the stores thread t still has to make
  main,           \* where the stopping thread is in its sequence
  \* private to the RT thread
  rtpc, cia, cw, want_mode, mode_matched, running, out, wait, cuts,
  \* bus, drive and joint
  ecOp,           \* the slave is in OP and exchanges process data
  drive, display, \* the drive and its modes-of-operation display
  sent,           \* target velocity in the output process image
  vel,            \* speed of the joint
  snap            \* the snapshot the IPC threads read

atomics == <<desired_target, desired_mode, run_req, stopping, fault_reset_req, quit>>
threads == <<todo, main>>
private == <<rtpc, cia, cw, want_mode, mode_matched, running, out, wait, cuts>>
plant   == <<ecOp, drive, display, sent, vel>>
vars    == <<atomics, threads, private, plant, snap>>

Threads == Clients \cup {"main"}

RtPc   == {"cycle", "interlock", "output", "exit_gate", "exit_cut", "dead"}
MainPc == {"up", "wait", "settle", "join", "down"}

(* The targets the commands select (the machine starts at Idle).           *)
CommandTarget == {"EnableOperation", "DisableVoltage", "QuickStop"}

Stores ==
  ({"desired_target"} \X CommandTarget) \cup ({"desired_mode"} \X Modes)
    \cup ({"run_req", "stopping", "fault_reset_req", "quit"} \X BOOLEAN)

-----------------------------------------------------------------------------
(* The helpers of config.hpp.                                              *)
isSafeToDisableAt(v, stop) == ~stop /\ Abs(v) < SafeRpm

(* Slips for the mutants of the runs: no bound on the wait; a gate that    *)
(* looks only at the ramp, and one that forgets the state of the drive.    *)
disableWaitNever(w) == FALSE

holdForRampOnly(state, v, stop) == state = "OperationEnabled" /\ stop

holdInAnyState(state, v, stop) == ~isSafeToDisableAt(v, stop)

disableWaitTimedOut(w) == w > Timeout

shouldHoldEnableForDisableGate(state, v, stop) ==
  state = "OperationEnabled" /\ ~isSafeToDisableAt(v, stop)

slewLimit(target, last, step) ==
  IF target - last > step THEN last + step
  ELSE IF target - last < -step THEN last - step
  ELSE target

(* disable_wait_cycles_ counts on; beyond the timeout nothing tells the    *)
(* values apart, so the model stops counting there.                        *)
Waited == IF wait > Timeout THEN wait ELSE wait + 1

(* Slips: a ramp that never reaches zero, and one that swings around it.   *)
RampStepStuck(x, step) == IF x > step THEN x - step ELSE x

RampStepSwing(x, step) == IF x > 0 THEN x - step ELSE x + step

RampStep(x, step) == IF x > step THEN x - step
                     ELSE IF x < -step THEN x + step
                     ELSE 0

(* safeStopRamp: CSV brings the speed down, CST the torque, any other mode *)
(* is done at once (it holds the position).                                *)
safeStopRamp(mode) ==
  CASE mode = "CSV" -> [out EXCEPT !.vel = RampStep(@, DStep)]
    [] mode = "CST" -> [out EXCEPT !.trq = RampStep(@, CStep)]
    [] OTHER        -> out

(* A slip: the stop counts as done at once.                                *)
rampDoneAtOnce(mode) == TRUE

rampDone(mode) ==
  CASE mode = "CSV" -> Abs(out.vel) <= DStep
    [] mode = "CST" -> Abs(out.trq) <= CStep
    [] OTHER        -> TRUE

-----------------------------------------------------------------------------
(* The joint: a powered drive in CSV follows the commanded speed with some *)
(* lag, in other modes its own loop moves it; without power it runs down,  *)
(* or is pushed by hand or gravity.                                        *)
Toward(a, b) == IF a < b THEN a + 1 ELSE IF a > b THEN a - 1 ELSE a

JointSpeed(state, mode, target) ==
  IF state = "OperationEnabled" /\ mode = "CSV"
    THEN {vel, Toward(vel, target)}
  ELSE IF state = "OperationEnabled" \/ "push" \in Disturbances
    THEN {v \in Speed : Abs(v - vel) <= 1}
  ELSE {Toward(vel, 0)}

(* writeOutputs and send: the frame reaches the drive when the slave is in *)
(* OP; otherwise the process image stays as it is.                         *)
Exchange(word, mode, target) ==
  /\ sent' = target
  /\ IF ecOp
       THEN /\ drive' = updateCia402(drive, word)
            /\ display' = mode
            /\ vel' \in JointSpeed(DriveState(drive'), mode, target)
       ELSE UNCHANGED <<drive, display, vel>>
  /\ UNCHANGED ecOp

-----------------------------------------------------------------------------
(* The realtime thread.                                                    *)

(* Receive; a requested fault reset; the disable gate; the control word;   *)
(* the operation mode.  The gate looks at the state decoded one cycle ago. *)
Sample ==
  /\ rtpc = "cycle" /\ ~quit
  /\ LET machine == IF fault_reset_req THEN requestFaultReset(cia) ELSE cia
         hold    == /\ desired_target = "DisableVoltage"
                    /\ shouldHoldEnableForDisableGate(machine.state, vel, stopping)
         kept    == hold /\ ~disableWaitTimedOut(Waited)
         aimed   == setTarget(machine,
                      IF kept THEN "EnableOperation" ELSE desired_target)
     IN  /\ wait' = IF hold THEN Waited ELSE 0
         /\ cw' = controlword(aimed, drive.sw)
         /\ cia' = update(aimed, drive.sw)
  /\ fault_reset_req' = FALSE
  /\ want_mode' = desired_mode
  /\ mode_matched' = (display = desired_mode)
  /\ rtpc' = "interlock"
  /\ UNCHANGED <<desired_target, desired_mode, run_req, stopping, quit, threads,
                 running, out, cuts, plant, snap>>

(* The conditions of a run, and a slip that forgets the mode.              *)
FitInAnyMode == ecOp /\ cia.state = "OperationEnabled"

Fit == ecOp /\ cia.state = "OperationEnabled" /\ mode_matched

(* The safety interlock: a run goes on only in OP, enabled and in the mode *)
(* asked for; otherwise it turns into a soft stop.                         *)
Interlock ==
  /\ rtpc = "interlock"
  /\ running' = (run_req /\ Fit)
  /\ run_req' = (run_req /\ Fit)
  /\ stopping' = (stopping \/ (run_req /\ ~Fit))
  /\ rtpc' = "output"
  /\ UNCHANGED <<desired_target, desired_mode, fault_reset_req, quit, threads,
                 cia, cw, want_mode, mode_matched, out, wait, cuts, plant, snap>>

(* Trajectory and controller, or the soft-stop ramp; the rate limits; the  *)
(* CSP jump guard; the output image; the snapshot.                         *)
Output ==
  /\ rtpc = "output"
  /\ \E v \in IF running THEN Demand \cup {out.vel} ELSE {out.vel},
        t \in IF running THEN TrqDemand \cup {out.trq} ELSE {out.trq},
        finished \in IF running THEN BOOLEAN ELSE {FALSE},
        jump \in IF want_mode = "CSP" THEN BOOLEAN ELSE {FALSE} :
       LET asked == IF running THEN [vel |-> slewLimit(v, out.vel, VStep), trq |-> t]
                               ELSE safeStopRamp(desired_mode)
           next  == [asked EXCEPT !.trq = slewLimit(@, out.trq, TStep)]
           stop  == finished \/ jump
       IN  /\ out' = next
           /\ run_req' = (run_req /\ ~stop)
           /\ stopping' = (stop \/ (stopping /\ (running \/ ~rampDone(desired_mode))))
           /\ Exchange(cw, want_mode, IF want_mode = "CSV" THEN next.vel ELSE 0)
  /\ snap' = [cia |-> cia.state, op |-> ecOp, matched |-> mode_matched,
              vel |-> vel, stopping |-> stopping']
  /\ running' = FALSE
  /\ cw' = kCmdDisableVoltage     \* local of the cycle, dead from here on
  /\ rtpc' = "cycle"
  /\ UNCHANGED <<desired_target, desired_mode, fault_reset_req, quit, threads,
                 cia, want_mode, mode_matched, wait, cuts>>

(* threadMain leaves its loop ...                                          *)
LeaveLoop ==
  /\ rtpc = "cycle" /\ quit
  /\ rtpc' = "exit_gate"
  /\ UNCHANGED <<atomics, threads, cia, cw, want_mode, mode_matched, running,
                 out, wait, cuts, plant, snap>>

(* Slip: no phase that disables.                                           *)
ExitGateLast ==
  /\ rtpc = "exit_gate" /\ rtpc' = "dead"
  /\ UNCHANGED <<atomics, threads, cia, cw, want_mode, mode_matched, running,
                 out, wait, cuts, plant, snap>>

(* ... first waits, still enabled, at target speed 0, for a safe speed or  *)
(* for the same timeout ...                                                *)
ExitGate ==
  /\ rtpc = "exit_gate"
  /\ LET hold  == shouldHoldEnableForDisableGate(cia.state, vel, FALSE)
         aimed == setTarget(cia, "EnableOperation")
     IN  \/ /\ ~hold
            /\ rtpc' = "exit_cut"
            /\ UNCHANGED <<cia, wait, plant>>
         \/ /\ hold /\ disableWaitTimedOut(Waited)
            /\ rtpc' = "exit_cut"
            /\ wait' = Waited
            /\ cia' = aimed
            /\ UNCHANGED plant
         \/ /\ hold /\ ~disableWaitTimedOut(Waited)
            /\ wait' = Waited
            /\ cia' = update(aimed, drive.sw)
            /\ Exchange(controlword(aimed, drive.sw), want_mode, 0)
            /\ UNCHANGED rtpc
  /\ UNCHANGED <<atomics, threads, cw, want_mode, mode_matched, running, out,
                 cuts, snap>>

(* ... then commands DisableVoltage for ExitCycles cycles and ends.        *)
ExitCut ==
  /\ rtpc = "exit_cut"
  /\ IF cuts < ExitCycles
       THEN LET aimed == setTarget(cia, "DisableVoltage")
            IN  /\ cuts' = cuts + 1
                /\ cia' = update(aimed, drive.sw)
                /\ Exchange(controlword(aimed, drive.sw), want_mode, 0)
                /\ UNCHANGED rtpc
       ELSE /\ rtpc' = "dead"
            /\ cuts' = 0
            /\ UNCHANGED <<cia, plant>>
  /\ UNCHANGED <<atomics, threads, cw, want_mode, mode_matched, running, out,
                 wait, snap>>

RtThread == Sample \/ Interlock \/ Output \/ LeaveLoop \/ ExitGate \/ ExitCut

-----------------------------------------------------------------------------
(* The IPC threads.  An operation checks what it checks and then makes its *)
(* stores one by one.                                                      *)
Begin(c, command, stores) ==
  /\ command \in Commands
  /\ todo[c] = <<>>
  /\ todo' = [todo EXCEPT ![c] = stores]
  /\ UNCHANGED <<atomics, main, private, plant, snap>>

stopRunStores == <<<<"run_req", FALSE>>, <<"stopping", TRUE>>>>

servoDisableStores ==
  stopRunStores \o <<<<"desired_target", "DisableVoltage">>>>

(* startRun also zeroes run_start_ns_ here; it only restarts the           *)
(* trajectory clock, which Demand abstracts.                               *)
startRunStores == <<<<"stopping", FALSE>>, <<"run_req", TRUE>>>>

servoEnable(c) ==
  /\ snap.op
  /\ Begin(c, "servo_enable", <<<<"desired_target", "EnableOperation">>>>)

servoDisable(c) == Begin(c, "servo_disable", servoDisableStores)

faultReset(c) == Begin(c, "fault_reset", <<<<"fault_reset_req", TRUE>>>>)

quickStop(c) ==
  Begin(c, "quick_stop", <<<<"run_req", FALSE>>, <<"desired_target", "QuickStop">>>>)

setMode(c, m) ==
  /\ ~run_req
  /\ Begin(c, "set_mode", <<<<"desired_mode", m>>>>)

checkRunPreconditions ==
  snap.op /\ snap.cia = "OperationEnabled" /\ snap.matched

startRun(c) ==
  /\ checkRunPreconditions
  /\ Begin(c, "start_run", startRunStores)

stopRun(c) == Begin(c, "stop_run", stopRunStores)

(* A thread makes its next store.                                          *)
Store(t) ==
  /\ todo[t] # <<>>
  /\ LET s == Head(todo[t])
         Stored(name, value) == IF s[1] = name THEN s[2] ELSE value
     IN  /\ desired_target' = Stored("desired_target", desired_target)
         /\ desired_mode' = Stored("desired_mode", desired_mode)
         /\ run_req' = Stored("run_req", run_req)
         /\ stopping' = Stored("stopping", stopping)
         /\ fault_reset_req' = Stored("fault_reset_req", fault_reset_req)
         /\ quit' = Stored("quit", quit)
  /\ todo' = [todo EXCEPT ![t] = Tail(@)]
  /\ UNCHANGED <<main, private, plant, snap>>

Client(c) ==
  \/ servoEnable(c) \/ servoDisable(c) \/ faultReset(c) \/ quickStop(c)
  \/ startRun(c) \/ stopRun(c)
  \/ \E m \in Modes : setMode(c, m)

-----------------------------------------------------------------------------
(* Stopping the master (disconnect in main.cpp): stop the run, wait for    *)
(* the snapshot to be safe or for the deadline, disable, let the brake act,*)
(* ask the RT thread to end and join it.  connect starts it again.         *)
MainStep(from, to, stores) ==
  /\ main = from
  /\ todo["main"] = <<>>
  /\ main' = to
  /\ todo' = [todo EXCEPT !["main"] = stores]
  /\ UNCHANGED <<private, plant, snap>>

Disconnect ==
  /\ "disconnect" \in Commands
  /\ MainStep("up", "wait", stopRunStores)
  /\ UNCHANGED atomics

WaitOver ==
  /\ isSafeToDisableAt(snap.vel, snap.stopping) \/ "deadline" \in Disturbances
  /\ MainStep("wait", "settle", servoDisableStores)
  /\ UNCHANGED atomics

(* A slip: the thread is joined without having been asked to end.          *)
JoinOnly ==
  /\ MainStep("settle", "join", <<>>)
  /\ UNCHANGED atomics

RequestStop ==
  /\ MainStep("settle", "join", <<<<"quit", TRUE>>>>)
  /\ UNCHANGED atomics

Joined ==
  /\ rtpc = "dead"
  /\ MainStep("join", "down", <<>>)
  /\ UNCHANGED atomics

Connect ==
  /\ "connect" \in Commands
  /\ main = "down" /\ rtpc = "dead"
  /\ main' = "up"
  /\ quit' = FALSE
  /\ rtpc' = "cycle"
  /\ UNCHANGED <<desired_target, desired_mode, run_req, stopping, fault_reset_req,
                 todo, cia, cw, want_mode, mode_matched, running, out, wait, cuts,
                 plant, snap>>

MainThread == Disconnect \/ WaitOver \/ RequestStop \/ Joined \/ Connect

-----------------------------------------------------------------------------
(* Between two cycles: the drive trips; the slave drops out of OP and is   *)
(* found tripped or unpowered, at any speed, when it is back.              *)
BetweenCycles == rtpc \in {"cycle", "exit_gate", "exit_cut"}

Trip ==
  /\ "trip" \in Disturbances /\ BetweenCycles /\ ecOp
  /\ ~drive.fault
  /\ drive' = driveTrip(drive)
  /\ UNCHANGED <<atomics, threads, private, ecOp, display, sent, vel, snap>>

BusDown ==
  /\ "bus" \in Disturbances /\ BetweenCycles /\ ecOp
  /\ ecOp' = FALSE
  /\ UNCHANGED <<atomics, threads, private, drive, display, sent, vel, snap>>

BusUp ==
  /\ ~ecOp /\ BetweenCycles
  /\ ecOp' = TRUE
  /\ drive' \in {driveTrip(drive), [drive EXCEPT !.sw = SwSwitchOnDisabled]}
  /\ vel' \in Speed
  /\ UNCHANGED <<atomics, threads, private, display, sent, snap>>

Environment == Trip \/ BusDown \/ BusUp

-----------------------------------------------------------------------------
Init ==
  /\ desired_target = "Idle" /\ desired_mode = "CSV"
  /\ run_req = FALSE /\ stopping = FALSE /\ fault_reset_req = FALSE
  /\ quit = FALSE
  /\ todo = [t \in Threads |-> <<>>] /\ main = "up"
  /\ rtpc = "cycle" /\ cia = Cia402Init /\ cw = kCmdDisableVoltage
  /\ want_mode = "None" /\ mode_matched = FALSE /\ running = FALSE
  /\ out = [vel |-> 0, trq |-> 0] /\ wait = 0 /\ cuts = 0
  /\ ecOp = TRUE /\ drive = driveInit /\ display = "None"
  /\ sent = 0 /\ vel = 0
  /\ snap = [cia |-> "Unknown", op |-> FALSE, matched |-> FALSE, vel |-> 0,
             stopping |-> FALSE]

Next ==
  \/ RtThread
  \/ \E c \in Clients : Client(c)
  \/ \E t \in Threads : Store(t)
  \/ MainThread
  \/ Environment

(* The RT thread is woken every cycle and the kernel runs every thread:    *)
(* cycles and begun calls go on.  Nobody owes a new command, and the bus   *)
(* owes nothing.                                                           *)
Fairness ==
  /\ WF_vars(RtThread)
  /\ \A t \in Threads : WF_vars(Store(t))
  /\ WF_vars(WaitOver \/ RequestStop \/ Joined)

Spec == Init /\ [][Next]_vars /\ Fairness
=============================================================================
