------------------------------- MODULE HotSwap -------------------------------
(***************************************************************************)
(* How an IPC thread gives the realtime thread a new trajectory, a new     *)
(* controller or new parameters while the cycle goes on: pointers that are *)
(* exchanged atomically (pending_, retired_), the flag traj_is_constant_,  *)
(* and a parameter block with a generation counter.  A step is one access  *)
(* to something shared; an object that an exchange has returned belongs to *)
(* its thread alone, so its deletion is part of the same step.             *)
(*                                                                         *)
(* The heap is a set of addresses; a deleted address may be used again for *)
(* the next object.  Of an object only its kind is kept.                   *)
(***************************************************************************)
EXTENDS Naturals

CONSTANTS
  Clients,        \* IPC threads
  Addr,           \* addresses (bounds the number of objects)
  Trajectories,   \* kinds of trajectories, "constant" among them
  Controllers,    \* controllers, by their ids
  MaxGen,         \* bound on the parameters' generation
  NULL

ASSUME HeapAssumption == NULL \notin Addr
ASSUME KindAssumption ==
  /\ "constant" \in Trajectories
  /\ "free" \notin Trajectories \cup Controllers
  /\ MaxGen \in Nat

Slot == {"traj", "ctrl"}
Pointer  == Addr \cup {NULL}

Kind == Trajectories \cup Controllers \cup {"free"}

(* staging_ and param_view_: whose parameters they are, and whether a      *)
(* client has set one of them since the defaults.                          *)
Params == [owner : Kind, set : BOOLEAN]

VARIABLES
  heap,             \* heap[a]: the kind of the object at a, or "free"
  pending, retired, \* the atomic pointers of each slot
  run_req, traj_is_constant,
  staging, generation,
  \* an IPC thread: where it is, the slot it replaces and its new object
  pc, slot, hand,
  \* the RT thread: where it is, its objects, the one it has replaced, the
  \* generation it has loaded and the one it has seen, its parameters
  rtpc, current, old, g, seen, view,
  \* not in the code: two calls for the same slot have once overlapped
  overlapped

shared == <<heap, pending, retired, run_req, traj_is_constant, staging, generation>>
ipc    == <<pc, slot, hand, overlapped>>
rt     == <<rtpc, current, old, g, seen, view>>
vars   == <<shared, ipc, rt>>

Free(p) == [a \in Addr |-> IF a = p THEN "free" ELSE heap[a]]

-----------------------------------------------------------------------------
(* An IPC thread: setTrajectory and setController.  Refused in a run;      *)
(* otherwise the new object is made first, ...                             *)
Replace(c, s, kind) ==
  /\ pc[c] = "idle" /\ ~run_req
  /\ \E a \in Addr :
       /\ heap[a] = "free"
       /\ heap' = [heap EXCEPT ![a] = kind]
       /\ hand' = [hand EXCEPT ![c] = a]
  /\ slot' = [slot EXCEPT ![c] = s]
  /\ pc' = [pc EXCEPT ![c] = "announce"]
  /\ overlapped' = [overlapped EXCEPT ![s] =
                      @ \/ \E d \in Clients : pc[d] # "idle" /\ slot[d] = s]
  /\ UNCHANGED <<pending, retired, run_req, traj_is_constant, staging, generation, rt>>

setTrajectory(c) == \E kind \in Trajectories : Replace(c, "traj", kind)
setController(c) == \E kind \in Controllers  : Replace(c, "ctrl", kind)

(* ... then what the RT thread has to know of it is published: the flag,   *)
(* or the parameters with their defaults (redefine, under its mutex; and   *)
(* ctrl_id_, which is only shown), ...                                     *)
AnnounceTrajectory(c) ==
  /\ pc[c] = "announce" /\ slot[c] = "traj"
  /\ traj_is_constant' = (heap[hand[c]] = "constant")
  /\ pc' = [pc EXCEPT ![c] = "reap_traj"]
  /\ UNCHANGED <<heap, pending, retired, run_req, staging, generation,
                 slot, hand, overlapped, rt>>

(* Slip: the generation is left alone.                                     *)
redefineQuietly(c) ==
  /\ pc[c] = "announce" /\ slot[c] = "ctrl"
  /\ staging' = [owner |-> heap[hand[c]], set |-> FALSE]
  /\ pc' = [pc EXCEPT ![c] = "reap_traj"]
  /\ UNCHANGED <<heap, pending, retired, run_req, traj_is_constant, generation,
                 slot, hand, overlapped, rt>>

redefine(c) ==
  /\ pc[c] = "announce" /\ slot[c] = "ctrl"
  /\ generation < MaxGen
  /\ staging' = [owner |-> heap[hand[c]], set |-> FALSE]
  /\ generation' = generation + 1
  /\ pc' = [pc EXCEPT ![c] = "reap_traj"]
  /\ UNCHANGED <<heap, pending, retired, run_req, traj_is_constant,
                 slot, hand, overlapped, rt>>

(* Slip: what was retired is read, not exchanged.                          *)
ReapRead(c, s, from, to) ==
  /\ pc[c] = from
  /\ heap' = Free(retired[s])
  /\ pc' = [pc EXCEPT ![c] = to]
  /\ UNCHANGED <<pending, retired, run_req, traj_is_constant, staging, generation,
                 slot, hand, overlapped, rt>>

(* ... then the objects the RT thread has given back are deleted, ...      *)
Reap(c, s, from, to) ==
  /\ pc[c] = from
  /\ retired' = [retired EXCEPT ![s] = NULL]
  /\ heap' = Free(retired[s])
  /\ pc' = [pc EXCEPT ![c] = to]
  /\ UNCHANGED <<pending, run_req, traj_is_constant, staging, generation,
                 slot, hand, overlapped, rt>>

reapRetired(c) ==
  \/ Reap(c, "traj", "reap_traj", "reap_ctrl")
  \/ Reap(c, "ctrl", "reap_ctrl", "hand_over")

(* Slip: one that is waiting already is kept, and the new one deleted.     *)
HandOverIfFree(c) ==
  /\ pc[c] = "hand_over"
  /\ IF pending[slot[c]] = NULL
       THEN /\ pending' = [pending EXCEPT ![slot[c]] = hand[c]]
            /\ heap' = heap
       ELSE /\ pending' = pending
            /\ heap' = Free(hand[c])
  /\ hand' = [hand EXCEPT ![c] = NULL]
  /\ pc' = [pc EXCEPT ![c] = "idle"]
  /\ UNCHANGED <<retired, run_req, traj_is_constant, staging, generation,
                 slot, overlapped, rt>>

(* ... and the new object is handed over; one that the RT thread has not   *)
(* taken yet is deleted.                                                   *)
HandOver(c) ==
  /\ pc[c] = "hand_over"
  /\ pending' = [pending EXCEPT ![slot[c]] = hand[c]]
  /\ heap' = Free(pending[slot[c]])
  /\ hand' = [hand EXCEPT ![c] = NULL]
  /\ pc' = [pc EXCEPT ![c] = "idle"]
  /\ UNCHANGED <<retired, run_req, traj_is_constant, staging, generation,
                 slot, overlapped, rt>>

(* set_param, under the mutex of the block; the passthrough controller has *)
(* no parameters to set.                                                   *)
setParam(c) ==
  /\ pc[c] = "idle" /\ generation < MaxGen
  /\ staging.owner # "passthrough"
  /\ staging' = [staging EXCEPT !.set = TRUE]
  /\ generation' = generation + 1
  /\ UNCHANGED <<heap, pending, retired, run_req, traj_is_constant, ipc, rt>>

(* start_run and stop_run, as far as they matter here: run_req_.           *)
SetRun(c, on) ==
  /\ pc[c] = "idle"
  /\ run_req' = on
  /\ UNCHANGED <<heap, pending, retired, traj_is_constant, staging, generation,
                 ipc, rt>>

startRun(c) == SetRun(c, TRUE)
stopRun(c)  == SetRun(c, FALSE)

Client(c) ==
  \/ setTrajectory(c) \/ setController(c)
  \/ AnnounceTrajectory(c) \/ redefine(c) \/ reapRetired(c) \/ HandOver(c)
  \/ setParam(c) \/ startRun(c) \/ stopRun(c)

-----------------------------------------------------------------------------
(* The RT thread, at the top of a cycle: swapPending takes what is pending *)
(* in a slot ...                                                           *)
Take(s, from, retire, skip) ==
  /\ rtpc = from
  /\ IF pending[s] = NULL
       THEN /\ rtpc' = skip
            /\ UNCHANGED <<pending, current, old>>
       ELSE /\ old' = current[s]
            /\ current' = [current EXCEPT ![s] = pending[s]]
            /\ pending' = [pending EXCEPT ![s] = NULL]
            /\ rtpc' = retire
  /\ UNCHANGED <<heap, retired, run_req, traj_is_constant, staging, generation,
                 ipc, g, seen, view>>

(* ... and gives the object it replaces back.  The pointer that was there  *)
(* is dropped.                                                             *)
Retire(s, from, to) ==
  /\ rtpc = from
  /\ retired' = [retired EXCEPT ![s] = old]
  /\ old' = NULL
  /\ rtpc' = to
  /\ UNCHANGED <<heap, pending, run_req, traj_is_constant, staging, generation,
                 ipc, current, g, seen, view>>

swapPending ==
  \/ Take("traj", "take_traj", "retire_traj", "take_ctrl")
  \/ Retire("traj", "retire_traj", "take_ctrl")
  \/ Take("ctrl", "take_ctrl", "retire_ctrl", "refresh")
  \/ Retire("ctrl", "retire_ctrl", "refresh")

(* refreshIfChanged: the generation is loaded; if it is new, the block is  *)
(* copied under its mutex.                                                 *)
LoadGeneration ==
  /\ rtpc = "refresh"
  /\ g' = generation
  /\ rtpc' = IF generation = seen THEN "run" ELSE "copy"
  /\ UNCHANGED <<shared, ipc, current, old, seen, view>>

CopyParams ==
  /\ rtpc = "copy"
  /\ view' = staging
  /\ seen' = g
  /\ rtpc' = "run"
  /\ UNCHANGED <<shared, ipc, current, old, g>>

(* The rest of the cycle: with a run requested the trajectory is evaluated *)
(* and may end the run, and the controller computes.                       *)
Run ==
  /\ rtpc = "run"
  /\ run_req' \in IF run_req THEN BOOLEAN ELSE {FALSE}
  /\ rtpc' = "take_traj"
  /\ UNCHANGED <<heap, pending, retired, traj_is_constant, staging, generation,
                 ipc, current, old, g, seen, view>>

RtThread == swapPending \/ LoadGeneration \/ CopyParams \/ Run

-----------------------------------------------------------------------------
(* The constructor: a constant trajectory, the configured controller and   *)
(* its parameters, which it has copied already.                            *)
Init ==
  /\ \E a, b \in Addr, kind \in Controllers :
       /\ a # b
       /\ current = [s \in Slot |-> IF s = "traj" THEN a ELSE b]
       /\ heap = [x \in Addr |-> IF x = a THEN "constant"
                                 ELSE IF x = b THEN kind ELSE "free"]
       /\ staging = [owner |-> kind, set |-> FALSE]
  /\ pending = [s \in Slot |-> NULL] /\ retired = [s \in Slot |-> NULL]
  /\ run_req = FALSE /\ traj_is_constant = TRUE
  /\ generation = 2 /\ g = 2 /\ seen = 2 /\ view = staging
  /\ pc = [c \in Clients |-> "idle"] /\ slot = [c \in Clients |-> "traj"]
  /\ hand = [c \in Clients |-> NULL]
  /\ rtpc = "take_traj" /\ old = NULL
  /\ overlapped = [s \in Slot |-> FALSE]

Next == RtThread \/ \E c \in Clients : Client(c)

Spec == Init /\ [][Next]_vars

-----------------------------------------------------------------------------
(* Types, and what the program counters say of the pointers.               *)
TypeOK ==
  /\ heap \in [Addr -> Kind]
  /\ pending \in [Slot -> Pointer] /\ retired \in [Slot -> Pointer]
  /\ run_req \in BOOLEAN /\ traj_is_constant \in BOOLEAN
  /\ staging \in Params /\ generation \in Nat
  /\ pc \in [Clients -> {"idle", "announce", "reap_traj", "reap_ctrl", "hand_over"}]
  /\ slot \in [Clients -> Slot] /\ hand \in [Clients -> Pointer]
  /\ overlapped \in [Slot -> BOOLEAN]
  /\ rtpc \in {"take_traj", "retire_traj", "take_ctrl", "retire_ctrl",
               "refresh", "copy", "run"}
  /\ current \in [Slot -> Addr] /\ old \in Pointer
  /\ g \in Nat /\ seen \in Nat /\ view \in Params
  /\ seen <= generation /\ g <= generation
  /\ \A c \in Clients : (hand[c] = NULL) <=> (pc[c] = "idle")
  /\ (old = NULL) <=> rtpc \notin {"retire_traj", "retire_ctrl"}

(* Who may hold an object: a pointer of a slot, the RT thread's `old`, the *)
(* hands of an IPC thread.                                                 *)
Places == ({"pending", "retired", "current"} \X Slot)
            \cup {<<"old", "old">>} \cup ({"hand"} \X Clients)

Held == [p \in Places |-> CASE p[1] = "pending" -> pending[p[2]]
                            [] p[1] = "retired" -> retired[p[2]]
                            [] p[1] = "current" -> current[p[2]]
                            [] p[1] = "hand"    -> hand[p[2]]
                            [] OTHER            -> old]

(* Every pointer that anybody holds is to an object that has not been      *)
(* deleted, and nobody else holds it: the RT thread never runs a deleted   *)
(* trajectory and nothing is deleted twice, with any number of clients     *)
(* replacing the same slot at once (swapPending, reapRetired).             *)
OneOwner ==
  \A p, q \in Places : Held[p] # NULL =>
    /\ heap[Held[p]] # "free"
    /\ p # q => Held[p] # Held[q]

(* The newest object of a slot: that of a call whose announcement is out,  *)
(* the one that waits, or the one in use.                                  *)
Announced(s) == {c \in Clients : slot[c] = s /\ pc[c] \notin {"idle", "announce"}}

Newest(s) ==
  IF Announced(s) # {} THEN {hand[c] : c \in Announced(s)}
                       ELSE {IF pending[s] = NULL THEN current[s] ELSE pending[s]}

(* What is published for the slot is about such an object.                 *)
Suits(s, a) == IF s = "traj" THEN traj_is_constant <=> heap[a] = "constant"
                             ELSE staging.owner = heap[a]

ToldOfNewest(s) == \A a \in Newest(s) : Suits(s, a)

(* As long as no two calls for the trajectory have overlapped, the flag    *)
(* that lets the target override the trajectory is about the newest one:   *)
(* the one under way, the one waiting, or the one in use (setTrajectory).  *)
FlagFollows == ~overlapped["traj"] => ToldOfNewest("traj")

(* Likewise the parameters are those of the newest controller, whatever    *)
(* values clients set in between (setController).                          *)
ParametersFollow == ~overlapped["ctrl"] => ToldOfNewest("ctrl")

(* The RT thread never takes old parameters for the present ones, although *)
(* the generation it notes was loaded before the copy (refreshIfChanged).  *)
SeenIsCurrent == seen = generation => view = staging
=============================================================================
