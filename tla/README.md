# A verification project for the EtherCAT joint host

The repository is the host of one EtherCAT robot joint (ZeroErr eRob): a C++17 realtime backend that
runs the drive at 1 kHz, and an operator GUI in Python that commands it over a Unix socket. What can go
wrong in it goes wrong in time: commands of several clients race with the realtime cycle, the drive
trips, the bus goes away, the operator disables while the joint turns, a client stops reading, a recording
is stopped while the writer is in the middle of a batch, the process is asked to end. The joint has a brake
that is destroyed when it engages above 2.5 rpm (`config.hpp:160-162`), so *when* the torque goes off is the
central safety question.

This directory holds TLA+ modules translated from the source, TLC configurations that check them on small
instances, and TLAPS proofs of the properties for every value of the constants.

    tlc -config MCStop.cfg MCServo        # model-check one instance
    tlapm ServoProofs.tla                 # check the proofs of a module

## 1. Inventory

Paths are relative to `src/backend`.

| Component | State it keeps | Operations | Interacts with | What makes it correct |
|---|---|---|---|---|
| CiA 402 state machine (`src/cia402/cia402.cpp`) | target, decoded state, last control word, phase and counter of a fault reset | `setTarget`, `requestFaultReset`, `update` | called by the RT thread only | one rung of 06-07-0F per cycle; a reset pulse is a rising edge; no enabling word survives a fault |
| Realtime task (`src/realtime/realtime_task.cpp`) | atomics (target, mode, run request, stopping, reset, quit), the RT thread's private cycle state, a seqlock snapshot, pending/retired pointers, two rings | `cycle`, exit sequence of `threadMain`, the command methods | IPC threads write atomics, RT thread reads them; bus; rings | torque goes off only at a safe speed or after the whole wait; the joint moves only in a run; no self-excitation; every stop ends |
| Starting/stopping the master (`main.cpp`) | the lambdas `connect`, `disconnect`, `reconnect`, the signal path, the watchdog | called by IPC threads and by the main thread | realtime task, bus | stop - wait - disable - join - deactivate in order; bus and thread in step after every failure; the drive is left unpowered |
| EtherCAT bus (`src/ethercat/igh_bus.cpp`) | `phase_`, `master_`, `domain_`; in the kernel the reservation and the activation | configure, activate, deactivate, release, blocking SDOs, cyclic exchange | RT thread, main, IPC | one thread pumps it at a time; no blocking SDO on an active master |
| Hot swap (in the realtime task) and parameters (`src/parameter`) | pending, retired, current pointer of trajectory and controller; parameters with a generation | `setTrajectory`, `setController`, `reapRetired`, `swapPending`, `ParameterBlock` | IPC threads, RT thread | one owner per object; a run uses the trajectory, flag and parameters that belong together |
| Telemetry rings (`include/ecjc/ring_buffer.hpp`) | head, tail, slots, drop counter | `push` (RT), `popBatch` (logger or telemetry thread) | two threads without a lock | a bounded FIFO; no slot is overwritten while it is copied |
| Recorder (`src/logger/data_logger.cpp`) | `active_`, `fresh_start_`, file and columns, metadata, status | `start`, `stop`, the writer thread, the destructor | ring, disk, IPC threads, main | a complete file for what is active; no older samples, no row after a lost one, no ragged columns; closed before the next |
| IPC server (`src/communication/ipc_server.cpp`) | clients, evicted descriptors, drop counts, reconnect grace period with an epoch, threads | accept, one thread per client, telemetry, grace, `stop`, commands | commands to task, logger, main | marks and closes hit nobody else, a deadline nobody who came in time; an unwatched run ends; `stop` leaves nobody behind |
| Moving-time store (`src/logger/moving_time_store.cpp`) | one number in a file | `load`, `save` (temporary file, fsync, rename) | main loop, IPC, RT thread (counter) | a kill at any step leaves the old number or the new one |
| Simulated bus (`src/mock/mock_bus.cpp`) | a drive and a joint | cyclic exchange | RT thread | the drive follows the CiA 402 transitions |
| Trajectories, controllers, scaling, configuration | functions of time; constants | - | RT thread | numeric; not in reach of a model checker |
| GUI (`src/gui`), tools | windows, an experiment panel, a reconnecting client | - | IPC | - |

Hard behaviours: (a) command methods are sequences of atomic stores that interleave with the reads of a
cycle; (b) decisions on a snapshot that is one or more cycles old; (c) the gate decides with the state of
the previous cycle; (d) trips and losses of the bus between any two cycles; (e) the exit sequence can
begin at any cycle; (f) lock-free structures with wrapping counters; (g) timeouts that must end a wait,
but not early; (h) descriptors that are closed and used again; (i) a flag tested outside the lock that
covers what it stands for; (j) a connect that fails half way, and what is tried after it; (k) kills between
two system calls of a save. `PROJECT.json` lists them line by line under "hazards".

## 2. Modules

    Cia402  <-- MockDrive <-- ServoLadder <-- ServoLadderProofs (with Cia402Lemmas)
                    ^-------- RealtimeTask <-- ServoSafety <-- MCServo
                                                    ^--------- ServoProofs (with Cia402Lemmas)
    SampleQueue <-- (refined by) SpscRing <-- MCRing, SpscRingProofs
    HotSwap     <-- MCHotSwap, HotSwapProofs
    Recorder    <-- RecorderProofs
    Session     <-- SessionProofs
    MovingStore <-- Host <-- HostProofs

An action whose comment begins with "Slip" is not part of any next-state relation: it is the action beside it
with a plausible mistake in it, and shows that a property notices the mistake.

**Cia402** is `Cia402StateMachine` as functions on a record (it has no variables, the modules that run it
keep the record). A control or status word is the set of the numbers of its 1 bits, so the masks 0x004F
and 0x006F of `decodeState` are intersections. `update()` of the source is split into the word it returns
(`controlword`) and the machine it leaves (`update`), both functions of the same arguments.

**MockDrive** is the drive as `MockBus::updateCia402` implements it, plus the one thing the simulation
never does and a real drive does: it trips (`driveTrip`, external).

**ServoLadder** runs the two against each other: any target, any reset request, any trip between cycles.

**RealtimeTask** is the core. One cycle of the RT thread is three steps:

| Action | Source | What it does |
|---|---|---|
| `Sample` | `cycle` 243-324 | takes the reset request, reads target and stopping, the disable gate, the control word, the mode |
| `Interlock` | `cycle` 326-346 | reads the run request; out of OP, not enabled or wrong mode turns a run into a soft stop |
| `Output` | `cycle` 348-539 | trajectory and controller or the ramp, limits, the CSP guard, frame, snapshot |
| `LeaveLoop`, `ExitGate`, `ExitCut` | `threadMain` 133-214 | the exit sequence: wait enabled at target 0, then DisableVoltage for `ExitCycles` cycles |
| `servoEnable` ... `stopRun` | `ipc_server.cpp` 787-858, `realtime_task.cpp` 638-738 | the check of a command; its stores go to `todo` |
| `Store(t)` | the same | the next atomic store of thread t, in program order |
| `Disconnect`, `WaitOver`, `RequestStop`, `Joined`, `Connect` | `main.cpp` 241-303 | the thread that stops and starts the master |
| `Trip`, `BusDown`, `BusUp` | external | drive and bus between two cycles |

The cut of a cycle is where the RT thread touches an atomic that a client may write in between. The data
is abstracted: speeds and torques are small integers with a sign, trajectory and controller ask for any
member of `Demand` (or keep the last speed, as a controller that commands torque does) and may
end in any cycle, positions appear only as "the CSP guard may trigger". The state of the drive, the control
words, the modes and the ramp are exact. A powered joint in CSV follows the commanded speed with some lag,
in any other mode its speed may change by one per cycle, without power it runs down; `"push"` in
`Disturbances` lets gravity turn it.

**ServoSafety** states what this promises. **MCServo** gives the constants that a .cfg cannot write.

**SpscRing** is `push` and `popBatch`, one step per access to shared memory, with counters modulo `Wrap`.
**SampleQueue** is the abstract promise (a bounded queue that drops the newest sample), and
`SpscRing!ImplementsQueue` says that the ring implements it under the mapping `Queued` (the slots from
tail up to head).

**HotSwap** is how an IPC thread gives the running cycle a new trajectory, controller or parameter table. An
action is one access to something shared: `Replace` (the check of `run_req_` and the new object),
`AnnounceTrajectory` and `redefine` (what is published beside it), `reapRetired` (two exchanges), `HandOver`
(the exchange with `pending_`), and of the RT thread `Take` and `Retire` for each slot (`swapPending`),
`LoadGeneration` and `CopyParams` (`refreshIfChanged`), `Run` (the rest of the cycle, which may end a run).
An object that an exchange returns belongs to its thread, so its deletion is part of the same step; the
heap is a set of addresses, and a deleted one may be used again at once. `overlapped` is a history variable:
two calls for the same slot have once been under way together. It is a module of its own because nothing
of the cycle but `run_req_` matters to it, and the servo core does not look at objects.

**Recorder** is `DataLogger` with the callers of `record_start` and `record_stop`, the main thread at its end,
and the writer thread. `active_` and `fresh_start_` are read and written without `io_mu_`; the lock covers a
batch of the writer and `closeFile`, but not the opening of a file, so both sides are cut into one step per
access: `CheckStart`, `CreateFile`, `CreateColumns`, `Announce`, `Arm`, `Activate` of a start; `Halt`, `Clear`,
`WaitDrained`, `Close`, `Off` of a stop; `Look`, `Drain`, `popBatch`, `Filter`, `Seen`, `WriteFirst`, `WriteRest`,
`Failed`, `Flush` of the writer. A sample is the number of the recording it was produced for (`era`), which
is what the time stamps are compared for. Creating the file, a column or a row may fail, the disk may be
full. The ring is used at the level of its abstract promise, which SpscRing implements. Three history
variables delimit what the code can promise: `overlapped` (two calls at once), `stale` (a start found the
writer in a round that began under the last recording) and `gaveUp` (a failure left the file open).

**Session** is the server without the commands: `threadMain` (accept, list, cancel the grace period, greet,
start a thread), `serveClient` and `dropClient` of each client, `telemetryLoop` (a broadcast to a snapshot of
the clients, drop counts, eviction), `graceLoop` and `stop()`, which runs twice, from main and from the
destructor. A step is what happens under one lock, or one system call. The telemetry thread stands for every
thread that broadcasts (log lines are sent by others in the same way). Descriptors are given out lowest free
first as the kernel does, so that they are used again, and the model knows beside each one whose connection
it is. Peers leave, stop reading and read again as they like. A run is one bit here.

**MovingStore** is `save()`, one step per system call, of several threads with one `.tmp`; a `FILE` follows its
inode when the name moves. **Host** EXTENDS it with the process: `main()`, the bus actions `connect`,
`disconnect`, `reconnect` and the encoder reset as the main thread and the clients execute them, with a
failure at every step that can fail; the phases of `IghBus` and what the kernel's master does; the life of the
RT thread; signals, kills at any step and restarts (`Boot`). No lock covers the bus actions: a second one that
begins while one is under way makes the behaviour of the program undefined, and from there the model only
says that the process ends (`overlap`).

The modules meet in what they share, and each takes of the others what it needs: Host has the order of
connect and disconnect that RealtimeTask runs with a joint that turns; Session has the one bit of a run;
Recorder has the queue that SpscRing implements. One module of everything would multiply states that do not
influence each other.

## 3. Runs

| Run | Instance | States | What it shows |
|---|---|---|---|
| ladder | all 7 targets, pulse of 3 cycles, 2 trips | 2,275 | a reset pulse clears its fault; no rung skipped; faults lead to Switch On Disabled; a lasting enable request is honoured |
| stop | 1 client (enable, start, quick stop), disconnect/connect, deadline, speeds to 2, limit 1 | 554,929 | no faster command without a run; the exit leaves the drive unpowered; a disconnect ends |
| rest | 1 client (enable, disable, start, stop, reset), trips, deadline, speeds to 3, limit 1, stop ramp in steps of 2 | 447,842 | soft stops are not forgotten; a disable that stays takes the torque off; a stopped run comes to rest |
| fault | trips and bus losses, enable, disable, start, mode changes between CSV and CST | 1,580,844 | the gate never powers a drive; the brake is spared; no mode change in a cycle that runs |
| ring | 2 slots, counters modulo 8, batches of 1 and 2 | 72,532 | the ring is the queue; no torn sample; the oldest sample is taken |
| hotswap | 2 clients, 4 addresses (symmetric), 2 kinds each, 2 changes of the parameters | 346,652 | one owner for each object; flag and parameters follow the newest object unless calls overlap; no stale parameters |
| recorder | 1 client and main, ring of 3, batches of 2, 2 recordings | 386,448 | an active recording has its file; no older samples, no ragged columns, no row after a lost one; files are closed in order, and the end closes the last |
| session | 1 place for a client, 2 connections, eviction after 2 drops | 342,756 | marks and closes hit nobody else, the end of a grace period nobody it could see; an abandoned run ends; both calls of `stop()` end and leave nobody |
| host | main and 1 client, a moving time of 1, one restart | 690,490 | bus phases and RT thread in step after every failure; no blocking SDO on an active master; the total survives kills; a signal ends the process |
| cut_on_reset | 1 client | violation | see section 6 |
| orphan_run | as session | violation | see section 6 |
| store_half | as host | violation | see section 6 |

**Bounds.** *Servo:* speed limit 1 of `VMax` 2 (3 in the rest run, 1 in the fault run): "slow" is a joint at rest,
"fast" is anything else, and a ramp from full speed takes two cycles, so a command can fall before, inside and
after it; in the rest run the stop ramp takes steps of 2, so that it starts from speeds below, at and above
a step and ends in one that is not whole. `Timeout`
1 or 2 gives a wait that ends by itself and one that does not. `ExitCycles` 1 instead of 50: one is enough to
take the power away, the others repeat it. `FrHold` 1 in the servo runs and 3 in the ladder run (20 in the
code): shorter than, equal to and longer than what happens around it. One client is enough where one writer
at a time suffices to disturb the cycle; in the stop run the stopping thread is a second one. *Ring:* two slots and eight
counter values, so it is full after two samples and wraps after four batches. *Hot swap:* two clients, since
two calls overlap; four addresses are the two objects in use and two more, so that one can wait while another
is made, or be retired while its address is about to be used again; two changes of the parameters (`MaxGen` 4,
from 2) let one fall between the load of the generation and the copy of the other. *Recorder:* a client and the
main thread are two callers that can overlap; a ring of 3 with batches of 2 leaves a sample behind a full
batch, so that a batch can begin with samples of the last recording and end with those of the new one, and the
filter is needed for a second batch (a push to a full ring is left out: what it drops never enters the history of rows,
so `NoHole` is about samples lost by a failure or by the writer); two recordings are the least for a residue and for a file that is
overwritten; one wait in `stop()` lets it end both by itself and by its bound. *Session:* with one place the
second connection is either refused or comes while the first is being dropped, and gets its descriptor; two
drops are one that evicts and one that does not. *Host:* one client and main are the two threads that can
interfere; a moving time of 1 tells "saved" from "not saved"; one restart is one load.

**Deadlock** is not checked in recorder, session and host: there the process or the server ends.

**Fairness.** *Servo:* `WF_vars(RtThread)`, the thread wakes by `clock_nanosleep` every cycle; `WF_vars(Store(t))`
and the weak fairness of the stopping thread, a method that has begun runs to its end. *Hot swap, ring:* the RT
thread and the consumer are scheduled. *Recorder:* weak fairness of the writer, of main at its end and of every
call that has begun; strong fairness of `Close`, because the lock it waits for is released for at least 5 ms
whenever the ring is empty, again and again, and not for good. *Session:* weak fairness of the accept,
telemetry, grace and client threads (a send times out, 30 s pass) and of a `stop()` that has begun. *Host:* weak
fairness of main, of the RT thread, of a client's action that has begun and of its system calls. Nobody owes a
command, a connection, a signal or the restart of the process, and neither the drive nor the bus owes a trip
or a recovery; a peer owes nothing, it may stop reading for ever.

## 4. Properties

Each is stated in words above its definition.

| Module | Safety | Liveness |
|---|---|---|
| ServoLadder | `ResetClears`, `NoRungSkipped`, `FaultLeadsToDisabled` (`ResetPulseIsEdge` proved) | `EnableReached` |
| ServoSafety | `BrakeSpared`, `NoSelfExcitation`, `ExitLeavesUnpowered`, `SoftStopNotForgotten`, `FasterOnlyInRun`, `ModeKeptDuringRun` | `DisableCarriedOut`, `DisconnectEnds`, `StopComesToRest` |
| SpscRing | `CopiedIsQueued`, `ImplementsQueue` (`Bounds` proved) | `OldestIsTaken` |
| HotSwap | `OneOwner`, `FlagFollows`, `ParametersFollow`, `SeenIsCurrent` | - |
| Recorder | `ActiveHasFile`, `NoHole`, `NoResidue`, `ClosesWhole`, `ClosedBeforeNext` (`WritesBuiltFile` proved) | `EndsClosed` |
| Session | `MarkIsOwners`, `CloseOwn`, `GraceUndisturbed`, `NobodyLeft` (`ListedIsOpen` proved) | `OrphanRunEnds`, `StopEnds` |
| Host | `RtOnLiveMaster`, `OneBusOwner`, `PumpedOnceUp`, `NeverBlockedOnline`, `ThreadJoinedOnce`, `LastSaveIsWhole`, `BootKeepsTotal` | `ExitEnds` |

Some carry an exception that a run or section 6 justifies: `BrakeSpared` a fault-reset pulse; `FasterOnlyInRun`
the step with which the mode CSV comes back; `SoftStopNotForgotten`, as a theorem, a quick stop and every other
mode (its run has neither); the properties of
HotSwap and Recorder calls that overlap; those of Recorder a writer left over from the last recording;
`OrphanRunEnds` a connection torn before it had a thread; `GraceUndisturbed` a client listed between the answer
of `hasClient()` and the stop; the moving time a full disk and two saves at once.
Without the exception each of them fails, in the model and in the code. The type invariants are not among the
runs' properties: they are proved (`TypeCorrect`, `ServoTypeCorrect`, `RingTypeCorrect`).

## 5. Proofs

Every theorem holds for every value of the constants that satisfies the named assumptions
(`FrHoldAssumption`, `TargetsAssumption`, `MaxTripsAssumption`, `ClientsAssumption`, `SpeedAssumption`,
`CycleAssumption`, `RingAssumption`, `SampleAssumption`, `HeapAssumption`, `KindAssumption`,
`RecorderAssumption`, `SessionAssumption`, `StoreAssumption`, `HostAssumption`); TLC evaluates them in the runs.

* **ServoLadderProofs**: all safety properties of the ladder. `ResetPulseIsEdge` is inductive with the types;
  `NoRungSkipped` needs `KeptWordSafe`: a kept word 0F means the drive is enabled or in fault, so that the
  target Idle, which repeats the kept word, never enables. `EnableClimbs` is what `EnableReached` owes its
  success to: while an enable is wanted every bus cycle takes the drive one rung up, from any state, and no
  step in between takes it down.
* **ServoProofs**: `ServoTypeCorrect`, `ExitIsSafe`, `NeverSelfExcited`, `BrakeIsSpared`, `ModeIsKept`, from one
  inductive invariant `ServoInv`: types; `IdleIsOff` (the target Idle is only ever there before the first
  command, with a word that does not enable); `DriveFits` (a drive in fault shows it); `WordFits` (in the
  middle of a cycle the word to send fits the state just decoded and the reason it was chosen for);
  `ViewFits` (once the snapshot says enabled, what the gate looks at is not older than a cycle); `ExitFits`
  (where the exit sequence is and what the drive can be); `ModeFits` (in a running cycle the mode to send is
  the one the drive displays). None of the properties is inductive alone: each speaks of the step that
  sends the word, the reason for the word lies one or two steps before. Seven theorems need more:
  * `FasterOnlyWhileRunning`: `SpeedInv` adds `SpeedFits`, what the speed to send is in the middle of a cycle
    that has no run, compared with the speed sent before.
  * `StopIsKept`: `SoftInv` follows the stores of every command that has begun (`StoresFit`: after the store
    that ends a run comes the one that asks for the soft stop) and the place of the cycle (`StopFits`). It holds
    while the mode is CSV and no quick stop is given; `[](...)` in the theorem is that condition on the history.
  * `DisableIsBounded`: `DisableWord` says that a word chosen for a disable is one that takes the torque off.
  * `DownIsSafe`: `LifeInv` ties the place of `disconnect` to the life of the RT thread.
  * `LadderInServo`: `NoRungSkipped` and `FaultLeadsToDisabled` of an instance of ServoLadder, for the servo core.
    It is not a step-by-step refinement, since a cycle here sets the target and moves the machine in one step and
    the drive in another; `LadderFits` says what the word between the two steps can be.
  * `ResetReachesDrive`: the same for the fault-reset pulse (`EdgeFits`), under `[]ecOp`. The condition is needed:
    while the slave is out of OP the host counts the cycles of a pulse that the drive does not see.
  * `EnableClimbsInServo`: `EnableClimbs` for the cycle cut in three steps, with the lemma `NextRung` both share.
* **SpscRingProofs**: types, `Bounds`, `CopiedIsQueued` and the refinement. The invariant `RingInv` adds
  `Written` (the slot of a push that has been written holds its sample); the arithmetic of counters that wrap
  is in a handful of lemmas about remainders.
* **HotSwapProofs**: all properties of the hot swap. A step only ever moves an object between places, deletes
  what a place held, makes one, or rotates three places; one lemma for each of the four shapes
  (`OwnerMoved`, `OwnerDeleted`, `OwnerCreated`, `OwnersRotated`) gives `OneOwner`, which is inductive with the
  types. `FlagFollows` and `ParametersFollow` come from `Published`, which adds that at most one call for a
  slot is under way as long as `overlapped` is false; they need `OneOwner`, since a deletion elsewhere must
  not change the kind of the newest object. `OnlyTheDropLeaks` is about steps: an object that exists and that
  nobody can reach any more was dropped by `swapPending`; no other step loses one (see section 6).
* **RecorderProofs**: all safety properties of the recorder. `CallInv` follows a recording through `start()` and
  `stop()` (one call at a time, the file fits the place of the call, columns are ragged only in the middle of a
  batch); `WriterInv` adds what the writer relies on (while a file is opened it is outside a batch; in a batch
  the file is complete or closed; no row is lost from a file that rows may still be written to). `NoResidue`
  is of another kind: it needs that what is queued is in the order of its production (`OrderInv`, with lemmas
  about the parts of a rising sequence), and then that a batch which was filtered begins with a sample of the
  recording (`ResidueInv`). `EndIsFinal`: what the end of the process leaves, from `EndInv` (the writer goes
  only when told to, and the destructor closes after it has gone).
* **SessionProofs**: all safety properties of the connections. `OwnInv`: an open descriptor is served by exactly
  one thread, the accept thread or its own, which gives `CloseOwn`; `BookInv`: what is listed is open and not
  shut down, what is marked belongs to a connection that was shut down or to one the accept thread is about
  to forget; `GraceInv`: whoever comes while a period is timed changes its flag or its epoch for good,
  and whoever is listed when it stops the run came after the look; `EndInv`: when `stop()` runs
  for the second time there is no accept thread any more, so the threads it takes are all there will ever be.
  `JoinedAreWoken`: no join waits for a reader that nobody has woken; it needs that whoever reads is listed
  (`ReadersListed`) and that the loop of `stop()` has shut down what it has passed (`ReadersWoken`).
  `RunIsWatched`: a run with nobody connected has a thread at work that will end it (`AtWork`: a client that
  leaves, the accept thread between two of its steps, or the grace period).
* **HostProofs**: all safety properties of the process. `HostInv`: bus actions exclude each other as long as the
  program is defined (`Exclusive`), `phase_` tells what the kernel does (`PhaseTells`), `bus_active_` is up only on
  a live bus with a thread behind it (`HandedOver`), and for each place in a bus action what the RT thread can
  be doing (`Places`). `StoreInv`: while saves have not overlapped and the disk was not full there is one
  saver with its own `.tmp`, and `load` gives what the last complete save promised. `LastInv`: while main is
  in its last save nobody counts any more. `HalfOnlyWhenSpoiled` is `NeverHalf` with the exception it needs.

Only model-checked: the liveness properties (fairness and ENABLED are out of the prover's reach). For those of
ServoLadder, Recorder and Session, and for `DisableCarriedOut` and `DisconnectEnds`, the part that is about
safety is proved: what a waiting step waits for has been set going, and each step either gets nearer or keeps the
distance. What `popBatch` and `Filter` do to whole sequences is proved as far as it needs no induction over data.

## 6. Where code and documentation differ

Three runs end in a counterexample that the code can follow (`PROJECT.json`, "findings"):

* **cut_on_reset**: a fault reset given to a turning, enabled drive takes the torque off at once.
* **orphan_run**: a client that does not read is evicted by the accept thread while it is greeted; it never had
  a thread, nobody decides about the run, and the grace period was cancelled a moment before.
* **store_half**: on a full disk the empty `.tmp` is renamed over the good file.

Of the same kind, found by the models with the exceptions of section 4 taken away:

* A **run started while the disable gate waits** is accepted, since the snapshot still says enabled, and
  accelerates the joint into the forced cut (`realtime_task.cpp:703`; the comment at 289 counts on the ramp).
* A **disable after a quick stop** finds Quick Stop Active, where the gate does not hold (`config.hpp:199`), and
  cuts at any speed, although the safe stop of the IPC server (`ipc_server.cpp:798-799`) relies on the gate.
* **stop_run, set_mode CSP, set_mode CSV**: the soft stop is abandoned by the first change of the mode
  (`realtime_task.cpp:562`) and its speed is sent again after the second.
* Two **set_trajectory calls that overlap** leave the flag of one with the object of the other: a sine is
  overridden by the constant target for good (`realtime_task.cpp:689`; the comment at 362-364 excludes it).
* `Retire` of the hot swap loses a retired object that nobody has reaped, although the comment at
  `realtime_task.cpp:223` says that this is rare and that `reapRetired` will take care of it: nobody has the
  address any more. One client and two calls without overlap suffice, when the second reaps before the RT
  thread has given back what the first replaced. `refreshIfChanged` takes the mutex in the RT
  thread although `parameter.hpp` promises that it never locks.

In the recorder (`data_logger.cpp`), each reachable in the module:

* `stop()` clears `active_` and waits for the writer to write what is queued (comment at 127); the writer, which
  finds `active_` clear, throws it away. The end of a recording is missing from the file.
* A failed write or a full disk clears `active_` and leaves the file open; the `stop()` that follows returns at
  once, and the next `start()` overwrites the handle (`ClosedBeforeNext` has the exception `gaveUp`).
* The writer tests `active_` before it takes `io_mu_`. A writer that is between the two while a recording ends
  and the next begins writes into a file that is being built (`stale`).
* The low-disk branch and a `start()` of another thread can leave `active_` set and `st_.active` clear.
* Two calls of `record_start`/`record_stop` that overlap can close the file that one is about to activate.
* `meta_` is written by `start()` and read by the writer without a lock.
* main stops the recorder before the server, so a client can begin a recording in between; it is closed
  only by the destructor. A `record_start` that is refused has already moved the time base of the recording
  in progress (`ipc_server.cpp:910`).

In the server (`ipc_server.cpp`):

* Between a failed send and `evictClient` the descriptor may have been closed and given to a new connection,
  which is evicted in its place or inherits drop counts; the lock that the comment at 450-457 explains only
  rules out a close after the erase.
* `dropClient` decides with what it saw under the lock: a client that connects before the decision finds its run
  stopped, or a grace period begun behind its back.
* `graceLoop` asks `hasClient()` (526) and then calls `stopRun()` (527), with no lock around both: a client
  listed between the two finds its run stopped, although `ipc_server.hpp:114-116` says that the run is stopped only
  if there is still no client when the period is over. `GraceUndisturbed` names that client (`late`); with
  `clients = {}` in its place it fails after `GraceExpires`, `HasClient`, `List`, `GraceStops`.
* `listen_fd_` is closed by `stop()` while the accept thread reads it.
* A client accepted in the last moment gets a thread that only the second `stop()`, in the destructor, joins;
  by then the lambdas of main it may call are gone.
* `servo_enable` decides on the last snapshot, which after a disconnect still says OP (788).

In the process (`main.cpp`, `igh_bus.cpp`):

* After a disconnect `reset_load_encoder` always fails ("not initialised"), since `release()` has given the master
  up, although its own message asks to stop the master first (`main.cpp:317-320`).
* A `connect` that fails in configure or activate keeps the reservation; the next `connect` without a disconnect
  overwrites the handle and is refused as busy until the process ends.
* When OP is not reached in time the phase stays Active with nobody pumping.
* `connect` and `disconnect` of two clients at once, or of a client and main, race for plain members and join
  one thread twice: undefined behaviour (`overlap`). main looks once whether to disconnect, and may miss a
  connect that completes later.
* Two saves share one `.tmp`; `last_saved_ns` counts a save that failed.

## 7. Not modelled

* Trajectories, controllers, scaling: floating-point functions of time. The realtime task sees them as any
  demand and any end of a run. The configuration reader has no state.
* Of the IgH driver the exchange of frames, the process image and the asynchronous SDOs; of the simulated bus
  position, torque and noise.
* Of the IPC server the parsing and wording of messages, and the requests that only read.
* Recording flags, contents of samples and the layout of the file; the time base of a recording.
* The GUI (one thread, a client among others) and the offline tools.
* The seqlock is read atomically; after 64 tries its reader returns what it has (`realtime_task.cpp:751`). Data races on plain
  variables other than the bus members (`run_start_ns_`, `meta_`, `listen_fd_`) are named above and not modelled.
* Seconds do not exist: waits are counts of cycles or end at any time, so that the 45 s of the watchdog
  (`main.cpp:150`) suffice for all waits together is not shown.

## 8. Plan

1. The seqlock access by access, with its bounded retry, and what `start_run` does with a torn snapshot.
2. The asynchronous SDOs of `IghBus` and their requests from several clients.
3. `servo_enable` on the snapshot of the last connection, and the joint at a reconnect, as a composition of Host
   with the servo core.
4. The reconnecting client of the GUI against Session.
5. Proofs: the steps of `StopComesToRest` (a cycle of a soft stop is nearer to rest) over a change of the mode, and
   what 1 to 3 add.
