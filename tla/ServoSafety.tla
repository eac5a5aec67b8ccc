---------------------------- MODULE ServoSafety ----------------------------
(***************************************************************************)
(* What the realtime task promises about the joint: properties of the      *)
(* specification in RealtimeTask.                                          *)
(***************************************************************************)
EXTENDS RealtimeTask

(* Every variable keeps its type; in particular the CiA 402 machine never  *)
(* keeps a control word with bit 7 and the wait counter never passes the   *)
(* timeout by more than one.                                               *)
TypeOK ==
  /\ desired_target \in {"Idle"} \cup CommandTarget
  /\ desired_mode \in Modes \cup {"CSV"}
  /\ {run_req, stopping, fault_reset_req, quit} \subseteq BOOLEAN
  /\ todo \in [Threads -> Seq(Stores)] /\ main \in MainPc
  /\ rtpc \in RtPc /\ cia \in Cia402Machine /\ cw \in DriveWord
  /\ want_mode \in Modes \cup {"CSV", "None"} /\ {mode_matched, running} \subseteq BOOLEAN
  /\ out \in [vel : Speed, trq : Int]
  /\ wait \in 0 .. (Timeout + 1) /\ cuts \in 0 .. ExitCycles
  /\ ecOp \in BOOLEAN /\ drive \in Drive /\ display \in Modes \cup {"CSV", "None"}
  /\ sent \in Speed /\ vel \in Speed
  /\ snap \in [cia : Cia402State, op : BOOLEAN, matched : BOOLEAN, vel : Speed,
               stopping : BOOLEAN]

-----------------------------------------------------------------------------
Powered(d) == DriveState(d) = "OperationEnabled"

Slow == Abs(vel) < SafeRpm

(* In this step a control word of the host takes the torque off an enabled *)
(* drive (a quick stop keeps it on: the drive brakes by itself).           *)
CutsPower ==
  /\ ecOp /\ Powered(drive)
  /\ DriveState(drive') \notin {"OperationEnabled", "QuickStopActive",
                                "FaultReactionActive"}

(* The brake is spared: once the host has published the drive as enabled,  *)
(* it takes the torque off only below the brake's speed limit or after     *)
(* having waited the whole timeout -- in the cycle's gate and in the exit  *)
(* sequence, whatever the commands and their interleaving.  The one way    *)
(* around it is a fault-reset pulse (CutOnlyWhenSafe leaves that out).     *)
BrakeSpared ==
  [][CutsPower /\ snap.cia = "OperationEnabled"
       => Slow \/ wait > Timeout \/ cia.frPhase # "None"]_vars

(* The same without the exception: "the safety threshold for disabling: the*)
(* output speed must be below 2.5 rpm" (tests/test_stop_ramp.cpp) and the  *)
(* comment of the gate in RealtimeTask::cycle.                             *)
CutOnlyWhenSafe ==
  [][CutsPower /\ snap.cia = "OperationEnabled" => Slow \/ wait > Timeout]_vars

(* No self-excitation: the disable gate, which asks for Enable Operation   *)
(* while it waits, never powers a drive that is not powered -- even when   *)
(* gravity turns the joint faster than the limit, when the drive has       *)
(* tripped, or when the bus was away (shouldHoldEnableForDisableGate).     *)
NoSelfExcitation ==
  [][~Powered(drive) /\ Powered(drive')
       => wait = 0 /\ cia.target = "EnableOperation"]_vars

(* When the realtime thread has ended the drive it leaves behind is not    *)
(* powered, however the thread was asked to end.                           *)
ExitLeavesUnpowered ==
  rtpc = "dead" /\ ecOp => ~Powered(drive)

Quiet == \A t \in Threads : todo[t] = <<>>

(* stopping_ tells the truth: between cycles and with no call in progress, *)
(* a speed command that is not zero belongs to a run or to a soft stop     *)
(* that is still under way -- which is what disconnect and the disable     *)
(* gate rely on ("whether the soft-stop ramp is still in progress",        *)
(* realtime_task.hpp).  A quick stop is the exception: it ends the run and *)
(* leaves the rest to the drive, which brakes by itself.                   *)
SoftStopNotForgotten ==
  rtpc = "cycle" /\ Quiet /\ out.vel # 0 => run_req \/ stopping

(* A powered drive in CSV is commanded faster only in a cycle that runs,   *)
(* and only when the drive was seen enabled and reports the mode asked for:*)
(* neither a stale snapshot that let start_run through, nor a set_mode that*)
(* falls in between, nor the ramp of a stop makes the joint move.  The step*)
(* with which CSV comes back is left out: a soft stop abandoned by a change*)
(* of the mode leaves its speed in out_ (safeStopRamp, desired_mode_).     *)
FasterOnlyInRun ==
  [][ecOp /\ Powered(drive) /\ display = "CSV" /\ Abs(sent') > Abs(sent)
       => running /\ cia.state = "OperationEnabled" /\ mode_matched]_vars

(* The drive's operation mode never changes in a cycle that runs, although *)
(* set_mode looks at run_req and stores the mode later, and another client *)
(* may start a run in between (the mode check of the interlock).           *)
ModeKeptDuringRun ==
  [][rtpc = "output" /\ running => display' = display]_vars

(* A disable request that stays is carried out: in the end the torque is   *)
(* off, even if the speed never comes down (disableWaitTimedOut).          *)
DisableCarriedOut ==
  desired_target = "DisableVoltage"
    ~> (~Powered(drive) \/ desired_target # "DisableVoltage")

(* Stopping the master comes to its end, with the thread joined.           *)
DisconnectEnds == main = "wait" ~> main = "down"

(* A stopped run comes to rest: the commanded speed reaches zero unless a  *)
(* new run begins.                                                         *)
StopComesToRest == ~run_req ~> (sent = 0 \/ run_req)
=============================================================================
