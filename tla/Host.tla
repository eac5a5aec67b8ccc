-------------------------------- MODULE Host --------------------------------
(***************************************************************************)
(* The host process: main(), its connect, disconnect, reconnect and        *)
(* reset_encoder actions, which the main thread and the threads of the IPC *)
(* clients execute, the phases of the bus (IghBus), the life of the        *)
(* realtime thread, and the moving time that survives the process.  The    *)
(* process may be killed at any step and is started again.  What the drive *)
(* does meanwhile is in ServoSafety.                                       *)
(*                                                                         *)
(* No lock covers the bus actions.  A second one that begins while one is  *)
(* under way races for phase_, master_ and th_, plain members all of them: *)
(* from there on the program is undefined, and the module only says that   *)
(* the process ends (overlap).                                             *)
(***************************************************************************)
EXTENDS MovingStore

CONSTANT MaxBoots       \* bound: starts of the process

ASSUME HostAssumption == MaxBoots \in Nat

VARIABLES
  phase,                \* phase_
  master, domain,       \* master_, domain_ are set
  reserved, live,       \* the kernel: master reserved by us, activated
  rt,                   \* th_ and where its function is
  quit, busActive,      \* quit_, bus_active_
  pc,                   \* the threads: where they are
  again,                \* the threads: the disconnect is part of a reconnect
  signalled,            \* g_quit
  lastSaved,            \* last_saved_ns
  boots,                \* starts of the process
  overlap               \* a second bus action was begun

bus  == <<phase, master, domain, reserved, live>>
task == <<rt, quit, busActive>>
proc == <<signalled, lastSaved, boots>>
vars == <<store, bus, task, pc, again, proc, overlap>>

InConnect    == {"check", "configure", "slave", "startup", "start", "started",
                 "activate", "diagnose", "op", "handover"}
InDisconnect == {"slow", "quit", "join", "joining", "off", "deactivate",
                 "release"}
InExit       == {"exit_quit", "exit_join", "exit_joining", "exit_release"}
BusAction    == InConnect \cup InDisconnect \cup InExit \cup {"encoder"}
Blocking     == {"startup", "diagnose", "encoder"}
Where        == BusAction \cup {"idle", "saving", "reset", "gone", "enter",
                  "loop", "stop_ipc", "persist", "final", "ended"}

Running == rt \in {"looping", "cycle", "exiting", "pump"}  \* thread_running_

TypeOK ==
  /\ StoreTypeOK
  /\ phase \in {"Idle", "PreActivate", "Active", "PostDeactivate"}
  /\ master \in BOOLEAN /\ domain \in BOOLEAN
  /\ reserved \in BOOLEAN /\ live \in BOOLEAN
  /\ rt \in {"none", "starting", "looping", "cycle", "exiting", "pump",
             "ended"}
  /\ quit \in BOOLEAN /\ busActive \in BOOLEAN
  /\ pc \in [Threads -> Where]
  /\ again \in [Threads -> BOOLEAN]
  /\ signalled \in BOOLEAN /\ lastSaved \in Total /\ boots \in 0 .. MaxBoots
  /\ overlap \in BOOLEAN

(* A new process; auto_start_master decides whether main connects.         *)
Started(first) == [t \in Threads |-> IF t = Main THEN first ELSE "idle"]

Init ==
  /\ StoreInit
  /\ phase = "Idle" /\ master = FALSE /\ domain = FALSE
  /\ reserved = FALSE /\ live = FALSE
  /\ rt = "none" /\ quit = FALSE /\ busActive = FALSE
  /\ \E first \in {"check", "enter"} : pc = Started(first)
  /\ again = [t \in Threads |-> FALSE]
  /\ signalled = FALSE /\ lastSaved = 0 /\ boots = 0 /\ overlap = FALSE

Goto(t, to) == pc' = [pc EXCEPT ![t] = to]
At(t, here) == pc[t] = here

BeginBusAction(t, to) ==
  IF \E o \in Threads \ {t} : pc[o] \in BusAction
  THEN overlap' = TRUE /\ UNCHANGED pc
  ELSE Goto(t, to) /\ UNCHANGED overlap

-----------------------------------------------------------------------------
(* connect.                                                                *)

Connected(t) == Goto(t, IF t = Main THEN "enter" ELSE "idle")

Check(t) ==
  /\ At(t, "check")
  /\ \/ phase # "Active" /\ Goto(t, "configure")
     \/ Connected(t)                            \* already active, no NIC
  /\ UNCHANGED <<store, bus, task, again, proc, overlap>>

(* configure() begins: a master that is still reserved is not given again, *)
(* and the handle to it is overwritten.                                    *)
RequestMaster(t) ==
  /\ At(t, "configure") /\ phase' = "PreActivate"
  /\ \/ /\ ~reserved /\ reserved' = TRUE /\ master' = TRUE
        /\ Goto(t, "slave")
     \/ master' = FALSE /\ Connected(t) /\ UNCHANGED reserved
  /\ UNCHANGED <<store, domain, live, task, again, proc, overlap>>

(* The slave's configuration, the PDOs and the domain.                     *)
buildPdos(t) ==
  /\ At(t, "slave")
  /\ \/ domain' = TRUE /\ Goto(t, "startup")
     \/ Connected(t) /\ UNCHANGED domain
  /\ UNCHANGED <<store, phase, master, reserved, live, task, again, proc,
                 overlap>>

(* A blocking SDO, guarded by guardBlocking(), ends.                       *)
guardBlocking == master /\ phase # "Active"

WriteStartup(t) ==
  /\ At(t, "startup")
  /\ \/ Goto(t, "start")
     \/ Connected(t)
  /\ UNCHANGED <<store, bus, task, again, proc, overlap>>

(* RealtimeTask::start(): to assign to a thread that was not joined would  *)
(* end the process, so that only Kill is left.                             *)
StartTask(t) ==
  /\ At(t, "start")
  /\ \/ Running /\ Connected(t) /\ UNCHANGED <<rt, quit>>
     \/ /\ rt = "none" /\ rt' = "starting" /\ quit' = FALSE
        /\ Goto(t, "started")
  /\ UNCHANGED <<store, bus, busActive, again, proc, overlap>>

(* Slip: connect goes on before the thread runs.                           *)
TaskNotAwaited(t) ==
  /\ At(t, "started") /\ Goto(t, "activate")
  /\ UNCHANGED <<store, bus, task, again, proc, overlap>>

(* Slip: the bus is handed over before it is active.                       *)
TaskTakesOver(t) ==
  /\ At(t, "started") /\ busActive' = TRUE /\ Goto(t, "activate")
  /\ UNCHANGED <<store, bus, rt, quit, again, proc, overlap>>

TaskStarted(t) ==
  /\ At(t, "started")
  /\ \/ Running /\ Goto(t, "activate")
     \/ ~Running /\ Connected(t)                \* two seconds are over
  /\ UNCHANGED <<store, bus, task, again, proc, overlap>>

(* activate() begins with the diagnostic SDOs.                             *)
Diagnose(t) ==
  /\ At(t, "activate")
  /\ \/ master /\ domain /\ Goto(t, IF guardBlocking THEN "diagnose" ELSE "op")
     \/ ~(master /\ domain) /\ Connected(t)
  /\ UNCHANGED <<store, bus, task, again, proc, overlap>>

Activate(t) ==
  /\ At(t, "diagnose")
  /\ \/ /\ live' = TRUE /\ phase' = "Active"
        /\ Goto(t, "op") \/ Connected(t)
     \/ Connected(t) /\ UNCHANGED <<live, phase>>
  /\ UNCHANGED <<store, master, domain, reserved, task, again, proc, overlap>>

(* This thread pumps the bus until the slave is in OP, or gives up; then   *)
(* the phase stays Active.                                                 *)
WaitOp(t) ==
  /\ At(t, "op")
  /\ \/ Goto(t, "handover")
     \/ Connected(t)
  /\ UNCHANGED <<store, bus, task, again, proc, overlap>>

Handover(t) ==
  /\ At(t, "handover") /\ busActive' = TRUE /\ Connected(t)
  /\ UNCHANGED <<store, bus, rt, quit, again, proc, overlap>>

-----------------------------------------------------------------------------
(* disconnect.                                                             *)

Disconnected(t) ==
  /\ Goto(t, IF again[t] THEN "check"
             ELSE IF t = Main THEN "stop_ipc" ELSE "idle")
  /\ again' = [again EXCEPT ![t] = FALSE]

(* stopRun, the wait for a safe speed, servoDisable and the brake's time.  *)
SlowDown(t) ==
  /\ At(t, "slow") /\ Goto(t, "quit")
  /\ UNCHANGED <<store, bus, task, again, proc, overlap>>

(* Slip: the thread is not told.                                           *)
requestNothing(t, here, to) ==
  /\ At(t, here) /\ Goto(t, to)
  /\ UNCHANGED <<store, bus, task, again, proc, overlap>>

requestStop(t, here, to) ==
  /\ At(t, here) /\ quit' = TRUE /\ Goto(t, to)
  /\ UNCHANGED <<store, bus, rt, busActive, again, proc, overlap>>

Joinable(t, here, wait, to) ==
  /\ At(t, here) /\ Goto(t, IF rt = "none" THEN to ELSE wait)
  /\ UNCHANGED <<store, bus, task, again, proc, overlap>>

(* Slip: detach() for join().                                              *)
detach(t, here, to) ==
  /\ At(t, here) /\ Goto(t, to)
  /\ UNCHANGED <<store, bus, task, again, proc, overlap>>

join(t, here, to) ==
  /\ At(t, here) /\ rt = "ended" /\ rt' = "none" /\ Goto(t, to)
  /\ UNCHANGED <<store, bus, quit, busActive, again, proc, overlap>>

(* Slip: bus_active_ outlives the thread.                                  *)
KeepBus(t) ==
  /\ At(t, "off") /\ Goto(t, "deactivate")
  /\ UNCHANGED <<store, bus, task, again, proc, overlap>>

TakeBusBack(t) ==
  /\ At(t, "off") /\ busActive' = FALSE /\ Goto(t, "deactivate")
  /\ UNCHANGED <<store, bus, rt, quit, again, proc, overlap>>

deactivate(t) ==
  /\ At(t, "deactivate") /\ Goto(t, "release")
  /\ IF master /\ phase = "Active"
     THEN live' = FALSE /\ phase' = "PostDeactivate"
     ELSE UNCHANGED <<live, phase>>
  /\ UNCHANGED <<store, master, domain, reserved, task, again, proc,
                 overlap>>

(* release() deactivates first when nobody has.                            *)
ReleaseMaster ==
  IF master
  THEN /\ phase' = "Idle" /\ master' = FALSE /\ domain' = FALSE
       /\ reserved' = FALSE /\ live' = FALSE
  ELSE UNCHANGED bus

release(t) ==
  /\ At(t, "release") /\ ReleaseMaster /\ Disconnected(t)
  /\ UNCHANGED <<store, task, proc, overlap>>

DisconnectStep(t) ==
  \/ SlowDown(t) \/ requestStop(t, "quit", "join")
  \/ Joinable(t, "join", "joining", "off") \/ join(t, "joining", "off")
  \/ TakeBusBack(t) \/ deactivate(t) \/ release(t)

ConnectStep(t) ==
  \/ Check(t) \/ RequestMaster(t) \/ buildPdos(t) \/ WriteStartup(t)
  \/ StartTask(t) \/ TaskStarted(t) \/ Diagnose(t) \/ Activate(t)
  \/ WaitOp(t) \/ Handover(t)

-----------------------------------------------------------------------------
(* The realtime thread.                                                    *)

(* applyRtScheduling is over: thread_running_.                             *)
EnterLoop ==
  /\ rt = "starting" /\ rt' = "looping"
  /\ UNCHANGED <<store, bus, quit, busActive, pc, again, proc, overlap>>

(* The top of the loop: quit_, and bus_active_ at the top of cycle().      *)
Look ==
  /\ rt = "looping"
  /\ \/ quit /\ rt' = "exiting"
     \/ ~quit /\ busActive /\ rt' = "cycle"
  /\ UNCHANGED <<store, bus, quit, busActive, pc, again, proc, overlap>>

(* A cycle on the bus; a joint that moves is counted.                      *)
Cycle ==
  /\ rt = "cycle" /\ rt' = "looping"
  /\ \/ total < MaxTotal /\ total' = total + 1
     \/ UNCHANGED total
  /\ UNCHANGED <<files, savers, kept, spoiled, bus, quit, busActive, pc, again,
                 proc, overlap>>

(* The exit sequence pumps for as long as the phase is Active.             *)
Exit ==
  /\ \/ rt = "exiting" /\ rt' = IF phase = "Active" THEN "pump" ELSE "ended"
     \/ rt = "pump" /\ rt' = "ended"
  /\ UNCHANGED <<store, bus, quit, busActive, pc, again, proc, overlap>>

RtStep == ~overlap /\ (EnterLoop \/ Look \/ Cycle \/ Exit)

-----------------------------------------------------------------------------
(* The commands of the clients.                                            *)

Serving(t) == t \in Clients /\ At(t, "idle")
                /\ pc[Main] \in {"enter", "loop", "saving"} \cup InConnect
                                  \cup InDisconnect

connect_bus(t) ==
  /\ Serving(t) /\ BeginBusAction(t, "check")
  /\ UNCHANGED <<store, bus, task, again, proc>>

disconnect_bus(t) ==
  /\ Serving(t) /\ BeginBusAction(t, "slow")
  /\ UNCHANGED <<store, bus, task, again, proc>>

reconnect(t) ==
  /\ Serving(t) /\ BeginBusAction(t, "slow")
  /\ again' = [again EXCEPT ![t] = TRUE]
  /\ UNCHANGED <<store, bus, task, proc>>

(* Slip: the phase is not asked.                                           *)
reset_any_time(t) ==
  /\ Serving(t) /\ master /\ BeginBusAction(t, "encoder")
  /\ UNCHANGED <<store, bus, task, again, proc>>

reset_load_encoder(t) ==
  /\ Serving(t) /\ guardBlocking /\ BeginBusAction(t, "encoder")
  /\ UNCHANGED <<store, bus, task, again, proc>>

EncoderReset(t) ==
  /\ At(t, "encoder") /\ Goto(t, "idle")
  /\ UNCHANGED <<store, bus, task, again, proc, overlap>>

(* The counter is zero at once, the file a little later.  (A counter that  *)
(* is zero already is saved once more: left out.)                          *)
reset_total_moving_time(t) ==
  /\ Serving(t) /\ total # 0 /\ total' = 0 /\ Goto(t, "reset")
  /\ UNCHANGED <<files, savers, kept, spoiled, bus, task, again, proc, overlap>>

Command(t) ==
  /\ ~overlap
  /\ connect_bus(t) \/ disconnect_bus(t) \/ reconnect(t)
       \/ reset_load_encoder(t) \/ reset_total_moving_time(t)

(* persist_moving.                                                         *)
Persist(t, here, to) ==
  /\ At(t, here) /\ BeginSave(t) /\ Goto(t, to)
  /\ UNCHANGED <<bus, task, again, proc, overlap>>

Persisted(t, here, to) ==
  /\ At(t, here) /\ save[t] = "none" /\ Goto(t, to)
  /\ UNCHANGED <<store, bus, task, again, proc, overlap>>

ClientStep(t) ==
  /\ t \in Clients /\ ~overlap
  /\ ConnectStep(t) \/ DisconnectStep(t) \/ EncoderReset(t)
       \/ Persist(t, "reset", "saving") \/ Persisted(t, "saving", "idle")

-----------------------------------------------------------------------------
(* The main thread.                                                        *)

onSignal ==
  /\ ~overlap /\ ~signalled /\ signalled' = TRUE
  /\ UNCHANGED <<store, bus, task, pc, again, lastSaved, boots, overlap>>

EnterMainLoop ==
  /\ At(Main, "enter") /\ lastSaved' = total /\ Goto(Main, "loop")
  /\ UNCHANGED <<store, bus, task, again, signalled, boots, overlap>>

(* Every 30 s: a counter that has changed is saved, and counts as saved    *)
(* whatever became of it.                                                  *)
Tick ==
  /\ At(Main, "loop") /\ ~signalled /\ total # lastSaved
  /\ lastSaved' = total /\ BeginSave(Main) /\ Goto(Main, "saving")
  /\ UNCHANGED <<bus, task, again, signalled, boots, overlap>>

BeginExit ==
  /\ At(Main, "loop") /\ signalled
  /\ IF phase = "Active" THEN BeginBusAction(Main, "slow")
     ELSE Goto(Main, "stop_ipc") /\ UNCHANGED overlap
  /\ UNCHANGED <<store, bus, task, again, proc>>

(* ipc.stop() joins the threads of the clients.                            *)
StopIpc ==
  /\ At(Main, "stop_ipc") /\ \A c \in Clients : At(c, "idle")
  /\ pc' = [t \in Threads |-> IF t = Main THEN "persist" ELSE "gone"]
  /\ UNCHANGED <<store, bus, task, again, proc, overlap>>

(* The destructors: ~RealtimeTask, then ~IghBus.                           *)
ReleaseAtExit ==
  /\ At(Main, "exit_release") /\ ReleaseMaster /\ Goto(Main, "ended")
  /\ UNCHANGED <<store, task, again, proc, overlap>>

MainStep ==
  /\ ~overlap
  /\ \/ ConnectStep(Main) \/ DisconnectStep(Main)
     \/ EnterMainLoop \/ Tick \/ Persisted(Main, "saving", "loop")
     \/ BeginExit \/ StopIpc
     \/ Persist(Main, "persist", "final") \/ Persisted(Main, "final", "exit_quit")
     \/ requestStop(Main, "exit_quit", "exit_join")
     \/ Joinable(Main, "exit_join", "exit_joining", "exit_release")
     \/ join(Main, "exit_joining", "exit_release")
     \/ ReleaseAtExit

(* The process ends: orderly, by kill -9, by a failure or by the watchdog. *)
(* The kernel deactivates and releases the master, and the process is      *)
(* started again.                                                          *)
Boot ==
  /\ boots < MaxBoots /\ boots' = boots + 1
  /\ StoreBoot
  /\ phase' = "Idle" /\ master' = FALSE /\ domain' = FALSE
  /\ reserved' = FALSE /\ live' = FALSE
  /\ rt' = "none" /\ quit' = FALSE /\ busActive' = FALSE
  /\ \E first \in {"check", "enter"} : pc' = Started(first)
  /\ again' = [t \in Threads |-> FALSE]
  /\ signalled' = FALSE /\ lastSaved' = 0 /\ overlap' = FALSE

Saving(t) ==
  /\ ~overlap /\ SaveStep(t)
  /\ UNCHANGED <<bus, task, pc, again, proc, overlap>>

Next ==
  \/ Boot
  \/ MainStep \/ onSignal \/ RtStep
  \/ \E t \in Clients : Command(t) \/ ClientStep(t)
  \/ \E t \in Threads : Saving(t)

(* Every thread that has something to do goes on: the waits for the slave, *)
(* for the drive and for the disk have time limits.  The operator, the     *)
(* signal and the end of the process are under no obligation.              *)
Fairness ==
  /\ WF_vars(MainStep) /\ WF_vars(RtStep)
  /\ \A t \in Clients : WF_vars(ClientStep(t))
  /\ \A t \in Threads : WF_vars(Saving(t))

Spec == Init /\ [][Next]_vars /\ Fairness

-----------------------------------------------------------------------------
(* The realtime thread touches the bus only while the master is held and   *)
(* active and the process image is mapped: a disconnect joins it before it *)
(* takes the bus down, and a connect raises bus_active_ only at its end,   *)
(* also after earlier attempts that failed half way.                       *)
RtOnLiveMaster ==
  rt \in {"cycle", "pump"} => master /\ domain /\ live

(* One thread at a time pumps the bus: activate() has stopped before the   *)
(* realtime thread begins.                                                 *)
OneBusOwner ==
  \A t \in Threads : At(t, "op") => live /\ rt \notin {"cycle", "pump"}

(* No gap behind activate(): from the moment the slave is in OP until a    *)
(* disconnect is begun the realtime thread runs its loop (the order of     *)
(* rt.start and bus->activate in connect).                                 *)
PumpedOnceUp ==
  (busActive \/ \E t \in Threads : At(t, "handover"))
    /\ (\A t \in Threads : pc[t] \notin InDisconnect \cup InExit \cup {"ended"})
    => live /\ ~quit /\ rt \in {"looping", "cycle"}

(* A blocking SDO is never under way on an active master, where it would   *)
(* hang for good once nobody pumps: phase_, which the guard looks at, says *)
(* what the kernel does, after failures too.                               *)
NeverBlockedOnline ==
  \A t \in Threads : pc[t] \in Blocking => master /\ ~live

(* start() never assigns to a thread that was not joined, and a join       *)
(* always finds its thread (std::terminate, or a wait for ever).           *)
ThreadJoinedOnce ==
  \A t \in Threads :
    /\ At(t, "start") => Running \/ rt = "none"
    /\ pc[t] \in {"joining", "exit_joining"} => rt # "none" /\ quit

(* Without a full disk and without two saves at once, what the last save   *)
(* of an orderly end puts in place is all of the moving time: it comes     *)
(* after the realtime thread has ended (unless a client has connected      *)
(* behind the main thread's back).                                         *)
LastSaveIsWhole ==
  ~spoiled /\ ~busActive
    /\ At(Main, "final") /\ save[Main] = "rename"
    => tmp = total

(* The file never holds half a number, as moving_time_store.hpp promises;  *)
(* save() renames what a full disk has left of the .tmp all the same.      *)
NeverHalf == path # Empty

(* However the process ended, the next one begins with the moving time of  *)
(* the last save that was complete (.tmp, fsync and rename in save, load   *)
(* in main).                                                               *)
BootKeepsTotal == [][Boot /\ ~spoiled => total' = kept]_vars

(* After a signal the process comes to its end by itself, whatever phase   *)
(* the bus is in and whatever the clients were doing: the watchdog is not  *)
(* needed (BeginExit, the join of the realtime thread, ipc.stop).          *)
ExitEnds == signalled ~> (~signalled \/ At(Main, "ended") \/ overlap)
=============================================================================
