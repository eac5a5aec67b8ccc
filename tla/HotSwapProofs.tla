---------------------------- MODULE HotSwapProofs ----------------------------
(***************************************************************************)
(* Proofs about the hot swap, for any number of clients, objects and kinds *)
(* of them: every pointer has one owner, and what is published beside a    *)
(* pointer is about the newest object as long as calls do not overlap.     *)
(***************************************************************************)
EXTENDS HotSwap, TLAPS

-----------------------------------------------------------------------------
(* The types.                                                              *)

(* The initial values have their types.                                    *)
LEMMA InitTypes == Init => TypeOK
<1> SUFFICES ASSUME Init PROVE TypeOK
  OBVIOUS
<1> PICK a \in Addr, b \in Addr, kind \in Controllers :
      /\ current = [s \in Slot |-> IF s = "traj" THEN a ELSE b]
      /\ heap = [x \in Addr |-> IF x = a THEN "constant"
                                ELSE IF x = b THEN kind ELSE "free"]
      /\ staging = [owner |-> kind, set |-> FALSE]
  BY DEF Init
<1>1. heap \in [Addr -> Kind] /\ current \in [Slot -> Addr]
  BY KindAssumption DEF Kind
<1>2. staging \in Params /\ view \in Params
  BY DEF Init, Params, Kind
<1>3. overlapped \in [Slot -> BOOLEAN]
  BY Zenon DEF Init
<1>4. pending \in [Slot -> Pointer] /\ retired \in [Slot -> Pointer]
  BY DEF Init, Pointer
<1>5. /\ pc \in [Clients -> {"idle", "announce", "reap_traj", "reap_ctrl", "hand_over"}]
      /\ slot \in [Clients -> Slot] /\ hand \in [Clients -> Pointer]
      /\ \A c \in Clients : (hand[c] = NULL) <=> (pc[c] = "idle")
  BY DEF Init, Pointer, Slot
<1>6. /\ generation \in Nat /\ g \in Nat /\ seen \in Nat
      /\ seen <= generation /\ g <= generation
      /\ rtpc = "take_traj" /\ old = NULL /\ old \in Pointer
  BY DEF Init, Pointer
<1>7. run_req \in BOOLEAN /\ traj_is_constant \in BOOLEAN
  BY Zenon DEF Init
<1> QED
  BY <1>1, <1>2, <1>3, <1>4, <1>5, <1>6, <1>7 DEF TypeOK

(* Making a new object for a slot.                                         *)
LEMMA ReplaceTypes ==
  ASSUME TypeOK, NEW c \in Clients, NEW s \in Slot, NEW kind \in Kind,
         Replace(c, s, kind)
  PROVE  TypeOK'
<1>1. overlapped' \in [Slot -> BOOLEAN]
  BY Zenon DEF TypeOK, Replace
<1>2. PICK a \in Addr : /\ heap' = [heap EXCEPT ![a] = kind]
                        /\ hand' = [hand EXCEPT ![c] = a]
  BY DEF Replace
<1>3. a # NULL
  BY HeapAssumption
<1> QED
  BY <1>1, <1>2, <1>3 DEF TypeOK, Replace, rt, Pointer

(* Every step of an IPC thread.                                            *)
LEMMA ClientTypes ==
  ASSUME TypeOK, NEW c \in Clients, Client(c)
  PROVE  TypeOK'
<1>1. CASE setTrajectory(c) \/ setController(c)
  BY <1>1, ReplaceTypes DEF setTrajectory, setController, Kind, Slot
<1>2. CASE AnnounceTrajectory(c)
  BY <1>2 DEF TypeOK, AnnounceTrajectory, rt
<1>3. CASE redefine(c)
  <2>1. hand[c] \in Addr
    BY <1>3 DEF TypeOK, redefine, Pointer
  <2>2. staging' \in Params
    BY <1>3, <2>1 DEF TypeOK, redefine, Params
  <2> QED BY <1>3, <2>2 DEF TypeOK, redefine, rt
<1>4. CASE reapRetired(c)
  <2>1. heap' \in [Addr -> Kind] /\ retired' \in [Slot -> Pointer]
    BY <1>4 DEF TypeOK, reapRetired, Reap, Free, Pointer, Kind, Slot
  <2> QED BY <1>4, <2>1 DEF TypeOK, reapRetired, Reap, rt
<1>5. CASE HandOver(c)
  <2>1. heap' \in [Addr -> Kind] /\ pending' \in [Slot -> Pointer]
    BY <1>5 DEF TypeOK, HandOver, Free, Pointer, Kind
  <2> QED BY <1>5, <2>1 DEF TypeOK, HandOver, rt, Pointer
<1>6. CASE setParam(c)
  <2>1. staging' \in Params
    BY <1>6 DEF TypeOK, setParam, Params
  <2> QED BY <1>6, <2>1 DEF TypeOK, setParam, ipc, rt
<1>7. CASE startRun(c) \/ stopRun(c)
  BY <1>7 DEF TypeOK, startRun, stopRun, SetRun, ipc, rt
<1> QED BY <1>1, <1>2, <1>3, <1>4, <1>5, <1>6, <1>7 DEF Client

(* Every step of the RT thread.                                            *)
LEMMA RtTypes ==
  ASSUME TypeOK, RtThread
  PROVE  TypeOK'
<1>1. ASSUME NEW s \in Slot, NEW from, NEW retire, NEW skip,
             Take(s, from, retire, skip),
             retire \in {"retire_traj", "retire_ctrl"},
             from \in {"take_traj", "take_ctrl"}, skip \in {"take_ctrl", "refresh"}
      PROVE  TypeOK'
  <2>1. pending' \in [Slot -> Pointer] /\ current' \in [Slot -> Addr] /\ old' \in Pointer
    BY <1>1 DEF TypeOK, Take, Pointer
  <2>2. (old' = NULL) <=> rtpc' \notin {"retire_traj", "retire_ctrl"}
    BY <1>1, HeapAssumption DEF TypeOK, Take
  <2>3. rtpc' \in {"take_traj", "retire_traj", "take_ctrl", "retire_ctrl",
                   "refresh", "copy", "run"}
    BY <1>1 DEF Take
  <2> QED BY <1>1, <2>1, <2>2, <2>3 DEF TypeOK, Take, ipc
<1>2. ASSUME NEW s \in Slot, NEW from, NEW to, Retire(s, from, to),
             to \in {"take_ctrl", "refresh"}
      PROVE  TypeOK'
  BY <1>2 DEF TypeOK, Retire, ipc, Pointer
<1>3. CASE swapPending
  BY <1>1, <1>2, <1>3 DEF swapPending, Slot
<1>4. CASE LoadGeneration
  BY <1>4 DEF TypeOK, LoadGeneration, shared, ipc
<1>5. CASE CopyParams
  BY <1>5 DEF TypeOK, CopyParams, shared, ipc
<1>6. CASE Run
  BY <1>6 DEF TypeOK, Run, ipc
<1> QED BY <1>3, <1>4, <1>5, <1>6 DEF RtThread

(* Type correctness, for every number of clients, addresses and kinds.     *)
THEOREM TypeCorrect == Spec => []TypeOK
<1>1. TypeOK /\ [Next]_vars => TypeOK'
  <2> SUFFICES ASSUME TypeOK, [Next]_vars PROVE TypeOK'
    OBVIOUS
  <2>1. CASE UNCHANGED vars
    BY <2>1 DEF TypeOK, vars, shared, ipc, rt
  <2> QED BY <2>1, ClientTypes, RtTypes DEF Next
<1> QED BY <1>1, InitTypes, PTL DEF Spec

-----------------------------------------------------------------------------
(* Who holds what.                                                         *)

(* What holds of each form of a place holds of all of them.                *)
LEMMA EveryPlace ==
  ASSUME NEW S,
         \A s \in Slot : /\ <<"pending", s>> \in S
                         /\ <<"retired", s>> \in S
                         /\ <<"current", s>> \in S,
         \A c \in Clients : <<"hand", c>> \in S,
         <<"old", "old">> \in S
  PROVE  Places \subseteq S
<1> SUFFICES ASSUME NEW p \in Places PROVE p \in S
  OBVIOUS
<1>1. CASE p \in {"pending", "retired", "current"} \X Slot
  <2>1. PICK k \in {"pending", "retired", "current"}, s \in Slot : p = <<k, s>>
    BY <1>1
  <2> QED BY <2>1
<1>2. CASE p \in {"hand"} \X Clients
  BY <1>2
<1>3. CASE p = <<"old", "old">>
  BY <1>3
<1> QED BY <1>1, <1>2, <1>3 DEF Places

(* Each form reads its own pointer.                                        *)
LEMMA HeldIs ==
  /\ \A s \in Slot :
       /\ <<"pending", s>> \in Places /\ Held[<<"pending", s>>] = pending[s]
       /\ <<"retired", s>> \in Places /\ Held[<<"retired", s>>] = retired[s]
       /\ <<"current", s>> \in Places /\ Held[<<"current", s>>] = current[s]
  /\ \A c \in Clients : <<"hand", c>> \in Places /\ Held[<<"hand", c>>] = hand[c]
  /\ <<"old", "old">> \in Places /\ Held[<<"old", "old">>] = old
BY DEF Places, Held

(* So it does in the next state.                                           *)
LEMMA HeldIsNext ==
  /\ \A s \in Slot :
       /\ Held'[<<"pending", s>>] = pending'[s]
       /\ Held'[<<"retired", s>>] = retired'[s]
       /\ Held'[<<"current", s>>] = current'[s]
  /\ \A c \in Clients : Held'[<<"hand", c>>] = hand'[c]
  /\ Held'[<<"old", "old">>] = old'
BY DEF Places, Held

(* What is held is a pointer.                                              *)
LEMMA HeldType ==
  ASSUME TypeOK, NEW p \in Places
  PROVE  Held[p] \in Pointer
<1> DEFINE S == {q \in Places : Held[q] \in Pointer}
<1>1. Places \subseteq S
  <2>1. \A s \in Slot : pending[s] \in Pointer /\ retired[s] \in Pointer
                                             /\ current[s] \in Pointer
    BY DEF TypeOK, Pointer
  <2>2. old \in Pointer /\ \A c \in Clients : hand[c] \in Pointer
    BY DEF TypeOK
  <2> QED BY <2>1, <2>2, HeldIs, EveryPlace
<1> QED BY <1>1

(* Where the pointers do not change, nothing changes hands.                *)
LEMMA HeldKept ==
  ASSUME NEW X,
         \A s \in Slot : <<"pending", s>> \notin X => pending'[s] = pending[s],
         \A s \in Slot : <<"retired", s>> \notin X => retired'[s] = retired[s],
         \A s \in Slot : <<"current", s>> \notin X => current'[s] = current[s],
         \A c \in Clients : <<"hand", c>> \notin X => hand'[c] = hand[c],
         <<"old", "old">> \notin X => old' = old
  PROVE  \A p \in Places \ X : Held'[p] = Held[p]
<1> DEFINE S == {p \in Places : p \notin X => Held'[p] = Held[p]}
<1>1. \A s \in Slot : /\ <<"pending", s>> \in S
                      /\ <<"retired", s>> \in S
                      /\ <<"current", s>> \in S
  BY HeldIs, HeldIsNext, ZenonT(60)
<1>2. \A c \in Clients : <<"hand", c>> \in S
  BY HeldIs, HeldIsNext
<1>3. <<"old", "old">> \in S
  BY HeldIs, HeldIsNext
<1>4. Places \subseteq S
  <2> HIDE DEF S
  <2> QED BY <1>1, <1>2, <1>3, EveryPlace
<1> QED BY <1>4

(* Nothing changes hands and nothing is deleted.                           *)
LEMMA OwnersKept ==
  ASSUME TypeOK, OneOwner, UNCHANGED <<heap, pending, retired, current, old, hand>>
  PROVE  OneOwner'
<1>1. Held' = Held
  BY DEF Held
<1> QED BY <1>1 DEF OneOwner

(* An object moves from y to x, and what was at x is deleted or forgotten. *)
LEMMA OwnerMoved ==
  ASSUME TypeOK, OneOwner, NEW x \in Places, NEW y \in Places, x # y,
         heap' = Free(Held[x]) \/ heap' = heap,
         Held'[x] = Held[y], Held'[y] = NULL,
         \A p \in Places \ {x, y} : Held'[p] = Held[p]
  PROVE  OneOwner'
<1> SUFFICES ASSUME NEW p \in Places, NEW q \in Places, Held'[p] # NULL
             PROVE  heap'[Held'[p]] # "free" /\ (p # q => Held'[p] # Held'[q])
  BY Zenon DEF OneOwner
<1> DEFINE From(r) == IF r = x THEN y ELSE r
<1>1. p # y /\ From(p) \in Places /\ Held'[p] = Held[From(p)]
  OBVIOUS
<1>2. Held[From(p)] # NULL /\ From(p) # x
  BY <1>1
<1>3. heap[Held'[p]] # "free" /\ Held'[p] # Held[x] /\ Held'[p] \in Addr
  BY <1>1, <1>2, HeldType DEF OneOwner, Pointer
<1>4. heap'[Held'[p]] # "free"
  BY <1>3 DEF Free
<1>5. ASSUME p # q PROVE Held'[p] # Held'[q]
  <2>1. CASE q = y
    BY <2>1
  <2>2. CASE q # y
    BY <1>1, <1>2, <1>5, <2>2 DEF OneOwner
  <2> QED BY <2>1, <2>2
<1> QED BY <1>4, <1>5

(* What x held is deleted, and x is cleared.                               *)
LEMMA OwnerDeleted ==
  ASSUME TypeOK, OneOwner, NEW x \in Places,
         heap' = Free(Held[x]), Held'[x] = NULL,
         \A p \in Places \ {x} : Held'[p] = Held[p]
  PROVE  OneOwner'
<1> SUFFICES ASSUME NEW p \in Places, NEW q \in Places, Held'[p] # NULL
             PROVE  heap'[Held'[p]] # "free" /\ (p # q => Held'[p] # Held'[q])
  BY Zenon DEF OneOwner
<1>1. p # x /\ Held'[p] = Held[p]
  OBVIOUS
<1>2. heap[Held[p]] # "free" /\ Held[p] # Held[x] /\ Held[p] \in Addr
  BY <1>1, HeldType DEF OneOwner, Pointer
<1>3. heap'[Held'[p]] # "free"
  BY <1>1, <1>2 DEF Free
<1>4. ASSUME p # q PROVE Held'[p] # Held'[q]
  BY <1>1, <1>4 DEF OneOwner
<1> QED BY <1>3, <1>4

(* A new object is made at a free address and held at x, which was empty.  *)
LEMMA OwnerCreated ==
  ASSUME TypeOK, OneOwner, NEW x \in Places, Held[x] = NULL,
         NEW a \in Addr, heap[a] = "free", NEW kind, kind # "free",
         heap' = [heap EXCEPT ![a] = kind], Held'[x] = a,
         \A p \in Places \ {x} : Held'[p] = Held[p]
  PROVE  OneOwner'
<1> SUFFICES ASSUME NEW p \in Places, NEW q \in Places, Held'[p] # NULL
             PROVE  heap'[Held'[p]] # "free" /\ (p # q => Held'[p] # Held'[q])
  BY Zenon DEF OneOwner
<1>1. \A r \in Places \ {x} : Held'[r] # a
  BY HeapAssumption DEF OneOwner
<1>2. heap'[Held'[p]] # "free"
  <2>1. CASE p = x
    BY <2>1 DEF TypeOK
  <2>2. CASE p # x
    BY <1>1, <2>2, HeldType DEF TypeOK, OneOwner, Pointer
  <2> QED BY <2>1, <2>2
<1>3. ASSUME p # q PROVE Held'[p] # Held'[q]
  BY <1>1, <1>3 DEF OneOwner
<1> QED BY <1>2, <1>3

(* Three places take turns: what is pending becomes current, and what was  *)
(* current is put aside where nothing was.                                 *)
LEMMA OwnersRotated ==
  ASSUME TypeOK, OneOwner, NEW x \in Places, NEW y \in Places, NEW z \in Places,
         x # y, y # z, x # z, Held[z] = NULL, heap' = heap,
         Held'[z] = Held[y], Held'[y] = Held[x], Held'[x] = NULL,
         \A p \in Places \ {x, y, z} : Held'[p] = Held[p]
  PROVE  OneOwner'
<1> SUFFICES ASSUME NEW p \in Places, NEW q \in Places, Held'[p] # NULL
             PROVE  heap'[Held'[p]] # "free" /\ (p # q => Held'[p] # Held'[q])
  BY Zenon DEF OneOwner
<1> DEFINE From(r) == IF r = z THEN y ELSE IF r = y THEN x ELSE IF r = x THEN z ELSE r
<1>1. \A r \in Places : From(r) \in Places /\ Held'[r] = Held[From(r)]
  OBVIOUS
<1>2. p # q => From(p) # From(q)
  OBVIOUS
<1> HIDE DEF From
<1> QED BY <1>1, <1>2 DEF OneOwner

-----------------------------------------------------------------------------
(* Every action keeps the owners apart.                                    *)

(* A new object is in the hands of the thread that made it.                *)
LEMMA ReplaceOwners ==
  ASSUME TypeOK, OneOwner, NEW c \in Clients, NEW s \in Slot,
         NEW kind \in Trajectories \cup Controllers, Replace(c, s, kind)
  PROVE  OneOwner'
<1>1. PICK a \in Addr : /\ heap[a] = "free"
                        /\ heap' = [heap EXCEPT ![a] = kind]
                        /\ hand' = [hand EXCEPT ![c] = a]
  BY DEF Replace
<1> DEFINE x == <<"hand", c>>
<1>2. x \in Places /\ Held[x] = NULL /\ Held'[x] = a
  BY <1>1, HeldIs, HeldIsNext DEF Replace, TypeOK
<1>3. \A p \in Places \ {x} : Held'[p] = Held[p]
  <2>1. UNCHANGED <<pending, retired, current, old>>
    BY DEF Replace, rt
  <2>2. \A d \in Clients : <<"hand", d>> # <<"hand", c>> => hand'[d] = hand[d]
    BY <1>1 DEF TypeOK
  <2> QED BY <2>1, <2>2, HeldKept
<1> HIDE DEF x
<1> QED BY <1>1, <1>2, <1>3, KindAssumption, OwnerCreated

(* Reaping deletes what was retired, which nobody else holds.              *)
LEMMA ReapOwners ==
  ASSUME TypeOK, OneOwner, NEW c \in Clients, NEW s \in Slot, NEW from, NEW to,
         Reap(c, s, from, to)
  PROVE  OneOwner'
<1> DEFINE x == <<"retired", s>>
<1>1. x \in Places /\ Held'[x] = NULL /\ heap' = Free(Held[x])
  BY HeldIs, HeldIsNext DEF Reap, TypeOK
<1>2. \A p \in Places \ {x} : Held'[p] = Held[p]
  <2>1. UNCHANGED <<pending, hand, current, old>>
    BY DEF Reap, rt
  <2>2. \A d \in Slot : <<"retired", d>> # <<"retired", s>> => retired'[d] = retired[d]
    BY DEF Reap, TypeOK
  <2> QED BY <2>1, <2>2, HeldKept
<1> HIDE DEF x
<1> QED BY <1>1, <1>2, OwnerDeleted

(* Handing over deletes what waited, which nobody else holds.              *)
LEMMA HandOverOwners ==
  ASSUME TypeOK, OneOwner, NEW c \in Clients, HandOver(c)
  PROVE  OneOwner'
<1> DEFINE x == <<"pending", slot[c]>>
           y == <<"hand", c>>
<1>1. slot[c] \in Slot /\ x \in Places /\ y \in Places /\ x # y
  BY HeldIs DEF TypeOK
<1>2. Held'[x] = Held[y] /\ Held'[y] = NULL /\ heap' = Free(Held[x])
  BY <1>1, HeldIs, HeldIsNext, ZenonT(60) DEF HandOver, TypeOK
<1>3. \A p \in Places \ {x, y} : Held'[p] = Held[p]
  <2>1. UNCHANGED <<retired, current, old>>
    BY DEF HandOver, rt
  <2>2. /\ \A d \in Slot : <<"pending", d>> # <<"pending", slot[c]>> => pending'[d] = pending[d]
        /\ \A d \in Clients : <<"hand", d>> # <<"hand", c>> => hand'[d] = hand[d]
    BY DEF HandOver, TypeOK
  <2> QED BY <2>1, <2>2, HeldKept
<1> HIDE DEF x, y
<1> QED BY <1>1, <1>2, <1>3, OwnerMoved

(* Taking over rotates what waited, what is in use and what is put aside.  *)
LEMMA TakeOwners ==
  ASSUME TypeOK, OneOwner, NEW s \in Slot, NEW from, NEW retire, NEW skip,
         from \in {"take_traj", "take_ctrl"}, Take(s, from, retire, skip)
  PROVE  OneOwner'
<1>1. CASE pending[s] = NULL
  BY <1>1, OwnersKept DEF Take, ipc
<1>2. CASE pending[s] # NULL
  <2> DEFINE x == <<"pending", s>>
             y == <<"current", s>>
             z == <<"old", "old">>
  <2>1. x \in Places /\ y \in Places /\ z \in Places /\ x # y /\ y # z /\ x # z
    BY HeldIs
  <2>2. old = NULL /\ heap' = heap
    BY DEF Take, TypeOK
  <2>3. /\ old' = current[s]
        /\ current' = [current EXCEPT ![s] = pending[s]]
        /\ pending' = [pending EXCEPT ![s] = NULL]
    BY <1>2 DEF Take
  <2>4. /\ Held[z] = NULL
        /\ Held'[z] = Held[y] /\ Held'[y] = Held[x] /\ Held'[x] = NULL
    <3>1. old' = current[s] /\ current'[s] = pending[s] /\ pending'[s] = NULL
      BY <2>3 DEF TypeOK
    <3> QED BY <2>2, <3>1, HeldIs, HeldIsNext
  <2>5. \A p \in Places \ {x, y, z} : Held'[p] = Held[p]
    <3>1. UNCHANGED <<retired, hand>>
      BY DEF Take, ipc
    <3>2. \A d \in Slot : /\ <<"pending", d>> # x => pending'[d] = pending[d]
                          /\ <<"current", d>> # y => current'[d] = current[d]
      BY <2>3 DEF TypeOK
    <3> QED BY <3>1, <3>2, HeldKept
  <2> HIDE DEF x, y, z
  <2> QED BY <2>1, <2>2, <2>4, <2>5, OwnersRotated
<1> QED BY <1>1, <1>2

(* Giving back forgets what was retired before, but deletes nothing.       *)
LEMMA RetireOwners ==
  ASSUME TypeOK, OneOwner, NEW s \in Slot, NEW from, NEW to, Retire(s, from, to)
  PROVE  OneOwner'
<1> DEFINE x == <<"retired", s>>
           y == <<"old", "old">>
<1>1. x \in Places /\ y \in Places /\ x # y /\ heap' = heap
  BY HeldIs DEF Retire
<1>2. Held'[x] = Held[y] /\ Held'[y] = NULL
  BY HeldIs, HeldIsNext DEF Retire, TypeOK
<1>3. \A p \in Places \ {x, y} : Held'[p] = Held[p]
  <2>1. UNCHANGED <<pending, current, hand>>
    BY DEF Retire, ipc
  <2>2. \A d \in Slot : <<"retired", d>> # <<"retired", s>> => retired'[d] = retired[d]
    BY DEF Retire, TypeOK
  <2> QED BY <2>1, <2>2, HeldKept
<1> HIDE DEF x, y
<1> QED BY <1>1, <1>2, <1>3, OwnerMoved

(* In the beginning only the two objects in use are held.                  *)
LEMMA InitOwners == Init => OneOwner
<1> SUFFICES ASSUME Init PROVE OneOwner
  OBVIOUS
<1> PICK a \in Addr, b \in Addr, kind \in Controllers :
      /\ a # b
      /\ current = [s \in Slot |-> IF s = "traj" THEN a ELSE b]
      /\ heap = [x \in Addr |-> IF x = a THEN "constant"
                                ELSE IF x = b THEN kind ELSE "free"]
  BY DEF Init
<1> DEFINE S == {p \in Places : Held[p] # NULL =>
                   \E s \in Slot : p = <<"current", s>> /\ Held[p] = current[s]}
<1>1. Places \subseteq S
  <2>1. \A s \in Slot : /\ <<"pending", s>> \in S
                        /\ <<"retired", s>> \in S
                        /\ <<"current", s>> \in S
    BY HeldIs DEF Init
  <2>2. (\A c \in Clients : <<"hand", c>> \in S) /\ <<"old", "old">> \in S
    BY HeldIs DEF Init
  <2> HIDE DEF S
  <2> QED BY <2>1, <2>2, EveryPlace
<1>2. \A p \in Places : Held[p] # NULL =>
        \E s \in Slot : p = <<"current", s>> /\ Held[p] = current[s]
  BY <1>1
<1>3. \A s \in Slot : heap[current[s]] # "free"
  BY KindAssumption DEF Slot
<1>4. \A s, r \in Slot : s # r => current[s] # current[r]
  BY DEF Slot
<1> QED BY <1>2, <1>3, <1>4 DEF OneOwner

(* Every step keeps the owners apart.                                      *)
LEMMA NextOwners ==
  ASSUME TypeOK, OneOwner, [Next]_vars
  PROVE  OneOwner'
<1>1. CASE UNCHANGED vars
  BY <1>1, OwnersKept DEF vars, shared, ipc, rt
<1>2. ASSUME NEW c \in Clients, Client(c) PROVE OneOwner'
  <2>1. CASE setTrajectory(c) \/ setController(c)
    BY <2>1, ReplaceOwners DEF setTrajectory, setController, Slot
  <2>2. CASE AnnounceTrajectory(c) \/ redefine(c)
    BY <2>2, OwnersKept DEF AnnounceTrajectory, redefine, rt
  <2>3. CASE reapRetired(c)
    BY <2>3, ReapOwners DEF reapRetired, Slot
  <2>4. CASE HandOver(c)
    BY <2>4, HandOverOwners
  <2>5. CASE setParam(c) \/ startRun(c) \/ stopRun(c)
    BY <2>5, OwnersKept DEF setParam, startRun, stopRun, SetRun, ipc, rt
  <2> QED BY <1>2, <2>1, <2>2, <2>3, <2>4, <2>5 DEF Client
<1>3. CASE RtThread
  <2>1. CASE swapPending
    BY <2>1, TakeOwners, RetireOwners DEF swapPending, Slot
  <2>2. CASE LoadGeneration \/ CopyParams
    BY <2>2, OwnersKept DEF LoadGeneration, CopyParams, shared, ipc
  <2>3. CASE Run
    BY <2>3, OwnersKept DEF Run, ipc
  <2> QED BY <1>3, <2>1, <2>2, <2>3 DEF RtThread
<1> QED BY <1>1, <1>2, <1>3 DEF Next

(* Every pointer has one owner and no deleted object is reachable, for any *)
(* number of clients and however the allocator reuses addresses.           *)
THEOREM NoObjectShared == Spec => []OneOwner
<1>1. OneOwner /\ TypeOK /\ [Next]_vars => OneOwner'
  BY NextOwners
<1> QED BY <1>1, InitOwners, TypeCorrect, PTL DEF Spec

-----------------------------------------------------------------------------
(* What is published beside the pointers.                                  *)

(* The parameters in use are never taken for the present ones when they    *)
(* are not: a block that changes gets a generation that was never seen.    *)
THEOREM NeverStale == Spec => []SeenIsCurrent
<1>1. Init => SeenIsCurrent
  BY DEF Init, SeenIsCurrent
<1>2. ASSUME TypeOK, SeenIsCurrent, [Next]_vars PROVE SeenIsCurrent'
  <2>1. CASE UNCHANGED vars
    BY <1>2, <2>1 DEF SeenIsCurrent, vars, shared, ipc, rt
  <2>2. ASSUME NEW c \in Clients, Client(c) PROVE SeenIsCurrent'
    <3>1. CASE redefine(c) \/ setParam(c)
      <4>1. generation' = generation + 1 /\ seen' = seen
        BY <3>1 DEF redefine, setParam, rt
      <4> QED BY <1>2, <4>1 DEF TypeOK, SeenIsCurrent
    <3>2. CASE ~(redefine(c) \/ setParam(c))
      BY <1>2, <2>2, <3>2 DEF SeenIsCurrent, Client, setTrajectory, setController, Replace,
         AnnounceTrajectory, reapRetired, Reap, HandOver, startRun, stopRun, SetRun, rt
    <3> QED BY <3>1, <3>2
  <2>3. CASE RtThread
    <3>1. CASE CopyParams
      BY <1>2, <3>1 DEF TypeOK, SeenIsCurrent, CopyParams, shared
    <3>2. CASE ~CopyParams
      BY <1>2, <2>3, <3>2 DEF SeenIsCurrent, RtThread, swapPending, Take, Retire,
         LoadGeneration, Run, shared
    <3> QED BY <3>1, <3>2
  <2> QED BY <1>2, <2>1, <2>2, <2>3 DEF Next
<1> QED BY <1>1, <1>2, TypeCorrect, PTL DEF Spec

(* As long as calls for a slot have not overlapped there is at most one.   *)
Busy(s) == {c \in Clients : slot[c] = s /\ pc[c] # "idle"}

OneCall(s) == ~overlapped[s] => \A c, d \in Busy(s) : c = d

Told(s) == ~overlapped[s] => ToldOfNewest(s)

Published == \A s \in Slot : OneCall(s) /\ Told(s)

(* The newest objects are neither retired nor put aside.                   *)
LEMMA NewestHeld ==
  ASSUME TypeOK, NEW s \in Slot, NEW a \in Newest(s)
  PROVE  /\ a \in Addr
         /\ \/ \E c \in Announced(s) : a = hand[c]
            \/ Announced(s) = {} /\ (a = pending[s] \/ a = current[s])
<1>1. CASE Announced(s) # {}
  BY <1>1 DEF TypeOK, Announced, Newest, Pointer
<1>2. CASE Announced(s) = {}
  BY <1>2 DEF TypeOK, Newest, Pointer
<1> QED BY <1>1, <1>2

(* So deleting what is retired leaves them alone, ...                      *)
LEMMA RetiredIsNotNewest ==
  ASSUME TypeOK, OneOwner, NEW s \in Slot, NEW r \in Slot, NEW a \in Newest(s)
  PROVE  heap[a] # "free" /\ Free(retired[r])[a] = heap[a]
<1>1. \E p \in Places : Held[p] = a /\ p # <<"retired", r>>
  <2>1. CASE \E c \in Announced(s) : a = hand[c]
    BY <2>1, HeldIs DEF Announced
  <2>2. CASE a = pending[s] \/ a = current[s]
    BY <2>2, HeldIs
  <2> QED BY <2>1, <2>2, NewestHeld
<1>2. a \in Addr /\ a # NULL
  BY NewestHeld, HeapAssumption
<1>3. heap[a] # "free" /\ a # retired[r]
  <2>1. PICK p \in Places : Held[p] = a /\ p # <<"retired", r>>
    BY <1>1
  <2>2. <<"retired", r>> \in Places /\ Held[<<"retired", r>>] = retired[r]
    BY HeldIs
  <2> QED BY <1>2, <2>1, <2>2 DEF OneOwner
<1> QED BY <1>2, <1>3 DEF Free

(* ... and a step that publishes nothing and lets nothing newer come up    *)
(* keeps what was told true.                                               *)
LEMMA StillTold ==
  ASSUME NEW s \in Slot, ToldOfNewest(s),
         Newest(s)' \subseteq Newest(s),
         \A a \in Newest(s) : heap'[a] = heap[a],
         traj_is_constant' = traj_is_constant, staging'.owner = staging.owner
  PROVE  ToldOfNewest(s)'
<1> SUFFICES ASSUME NEW a \in Newest(s)' PROVE Suits(s, a)'
  BY DEF ToldOfNewest
<1>1. Suits(s, a) /\ heap'[a] = heap[a]
  BY DEF ToldOfNewest
<1> QED BY <1>1 DEF Suits

(* What the constructor publishes is about the objects it makes.           *)
LEMMA InitPublished == Init => Published
<1> SUFFICES ASSUME Init, NEW s \in Slot PROVE OneCall(s) /\ Told(s)
  BY DEF Published
<1> PICK a \in Addr, b \in Addr, kind \in Controllers :
      /\ a # b
      /\ current = [r \in Slot |-> IF r = "traj" THEN a ELSE b]
      /\ heap = [x \in Addr |-> IF x = a THEN "constant"
                                ELSE IF x = b THEN kind ELSE "free"]
      /\ staging = [owner |-> kind, set |-> FALSE]
  BY DEF Init
<1>1. Busy(s) = {} /\ Announced(s) = {}
  BY DEF Init, Busy, Announced
<1>2. Newest(s) = {current[s]}
  BY <1>1 DEF Init, Newest
<1>3. Suits(s, current[s])
  <2>1. CASE s = "traj"
    BY <2>1 DEF Init, Suits
  <2>2. CASE s = "ctrl"
    BY <2>2 DEF Suits
  <2> QED BY <2>1, <2>2 DEF Slot
<1> QED BY <1>1, <1>2, <1>3 DEF OneCall, Told, ToldOfNewest

-----------------------------------------------------------------------------
(* Every step keeps what is published true.                                *)

(* A step that leaves the calls alone, or moves one of them on without     *)
(* making it announced, keeps them apart.                                  *)
LEMMA CallsKept ==
  ASSUME NEW s \in Slot, OneCall(s), overlapped[s] => overlapped'[s],
         Busy(s)' \subseteq Busy(s)
  PROVE  OneCall(s)'
BY DEF OneCall

(* A call that begins while another is under way is noted as overlapping;  *)
(* a free address is nobody's newest object.                               *)
LEMMA ReplacePublished ==
  ASSUME TypeOK, OneOwner, Published, NEW c \in Clients, NEW s \in Slot, NEW kind,
         Replace(c, s, kind), NEW r \in Slot
  PROVE  OneCall(r)' /\ Told(r)'
<1>1. PICK a \in Addr : /\ heap[a] = "free"
                        /\ heap' = [heap EXCEPT ![a] = kind]
                        /\ hand' = [hand EXCEPT ![c] = a]
  BY DEF Replace
<1>2. /\ pc[c] = "idle"
      /\ pc' = [pc EXCEPT ![c] = "announce"] /\ slot' = [slot EXCEPT ![c] = s]
      /\ UNCHANGED <<pending, current, traj_is_constant, staging>>
  BY DEF Replace, rt
<1>3. overlapped'[r] <=> overlapped[r] \/ (r = s /\ Busy(s) # {})
  BY DEF Replace, TypeOK, Busy
<1>4. Busy(r)' \subseteq IF r = s THEN Busy(r) \cup {c} ELSE Busy(r)
  BY <1>2 DEF TypeOK, Busy
<1>5. OneCall(r)'
  BY <1>3, <1>4 DEF Published, OneCall
<1>6. Announced(r)' = Announced(r) /\ c \notin Announced(r)
  BY <1>2 DEF TypeOK, Announced
<1>7. Newest(r)' = Newest(r)
  <2>1. \A d \in Announced(r) : hand'[d] = hand[d]
    BY <1>1, <1>6 DEF TypeOK, Announced
  <2> QED BY <1>2, <1>6, <2>1 DEF Newest
<1>8. \A x \in Newest(r) : heap'[x] = heap[x]
  BY <1>1, RetiredIsNotNewest, NewestHeld DEF TypeOK
<1>9. Told(r)'
  BY <1>2, <1>3, <1>7, <1>8, StillTold DEF Published, Told
<1> QED BY <1>5, <1>9

(* An announcement makes the object in hand the newest of its slot, and    *)
(* says nothing of the other slot.                                         *)
LEMMA AnnouncePublished ==
  ASSUME TypeOK, OneOwner, Published, NEW c \in Clients,
         AnnounceTrajectory(c) \/ redefine(c), NEW r \in Slot
  PROVE  OneCall(r)' /\ Told(r)'
<1>1. /\ pc[c] = "announce" /\ pc' = [pc EXCEPT ![c] = "reap_traj"]
      /\ UNCHANGED <<slot, hand, heap, pending, current, overlapped>>
  BY DEF AnnounceTrajectory, redefine, rt
<1>2. Busy(r)' = Busy(r)
  BY <1>1 DEF TypeOK, Busy
<1>3. OneCall(r)'
  BY <1>1, <1>2, CallsKept DEF Published
<1>4. CASE r = slot[c]
  <2> SUFFICES ASSUME ~overlapped[r] PROVE ToldOfNewest(r)'
    BY <1>1, <1>3 DEF Told
  <2>1. Busy(r) = {c}
    BY <1>1, <1>4 DEF Published, OneCall, Busy
  <2>2. Announced(r)' = {c}
    BY <1>1, <1>4, <2>1 DEF TypeOK, Announced, Busy
  <2>3. Newest(r)' = {hand[c]}
    BY <1>1, <2>2 DEF Newest
  <2>4. Suits(r, hand[c])'
    <3>1. CASE AnnounceTrajectory(c)
      BY <1>1, <1>4, <3>1 DEF AnnounceTrajectory, Suits
    <3>2. CASE redefine(c)
      BY <1>1, <1>4, <3>2 DEF redefine, Suits
    <3> QED BY <3>1, <3>2
  <2> QED BY <1>1, <2>3, <2>4 DEF ToldOfNewest, Suits
<1>5. CASE r # slot[c]
  <2>1. Announced(r)' = Announced(r)
    BY <1>1, <1>5 DEF TypeOK, Announced
  <2>2. Newest(r)' = Newest(r)
    BY <1>1, <2>1 DEF Newest
  <2>3. \A a \in Newest(r) : Suits(r, a)' <=> Suits(r, a)
    <3>1. CASE AnnounceTrajectory(c)
      <4>1. r # "traj" /\ staging' = staging /\ heap' = heap
        BY <1>1, <1>5, <3>1 DEF AnnounceTrajectory
      <4> QED BY <4>1, Zenon DEF Suits
    <3>2. CASE redefine(c)
      <4>1. r = "traj" /\ traj_is_constant' = traj_is_constant /\ heap' = heap
        BY <1>1, <1>5, <3>2 DEF redefine, Slot
      <4> QED BY <4>1, Zenon DEF Suits
    <3> QED BY <3>1, <3>2
  <2> QED BY <1>1, <1>3, <2>2, <2>3 DEF Published, Told, ToldOfNewest
<1> QED BY <1>4, <1>5

(* Reaping moves the call on; what it deletes is nobody's newest object.   *)
LEMMA ReapPublished ==
  ASSUME TypeOK, OneOwner, Published, NEW c \in Clients, reapRetired(c), NEW r \in Slot
  PROVE  OneCall(r)' /\ Told(r)'
<1>1. PICK q \in Slot : heap' = Free(retired[q])
  BY DEF reapRetired, Reap, Slot
<1>2. /\ pc[c] \in {"reap_traj", "reap_ctrl"}
      /\ \E to \in {"reap_ctrl", "hand_over"} : pc' = [pc EXCEPT ![c] = to]
      /\ UNCHANGED <<slot, hand, pending, current, overlapped, traj_is_constant, staging>>
  BY DEF reapRetired, Reap, rt
<1>3. Busy(r)' = Busy(r) /\ Announced(r)' = Announced(r)
  BY <1>2 DEF TypeOK, Busy, Announced
<1>4. Newest(r)' = Newest(r)
  BY <1>2, <1>3 DEF Newest
<1>5. \A a \in Newest(r) : heap'[a] = heap[a]
  BY <1>1, RetiredIsNotNewest
<1>6. OneCall(r)'
  BY <1>2, <1>3, CallsKept DEF Published
<1>7. Told(r)'
  BY <1>2, <1>4, <1>5, StillTold DEF Published, Told
<1> QED BY <1>6, <1>7

(* Handing over ends the only call of the slot: what was in hand waits now.*)
LEMMA HandOverPublished ==
  ASSUME TypeOK, OneOwner, Published, NEW c \in Clients, HandOver(c), NEW r \in Slot
  PROVE  OneCall(r)' /\ Told(r)'
<1>1. /\ pc[c] = "hand_over" /\ pc' = [pc EXCEPT ![c] = "idle"]
      /\ pending' = [pending EXCEPT ![slot[c]] = hand[c]]
      /\ heap' = Free(pending[slot[c]])
      /\ hand' = [hand EXCEPT ![c] = NULL]
      /\ UNCHANGED <<slot, current, overlapped, traj_is_constant, staging>>
  BY DEF HandOver, rt
<1>2. Busy(r)' \subseteq Busy(r)
  BY <1>1 DEF TypeOK, Busy
<1>3. OneCall(r)'
  BY <1>1, <1>2, CallsKept DEF Published
<1> SUFFICES ASSUME ~overlapped[r] PROVE ToldOfNewest(r)'
  BY <1>1, <1>3 DEF Told
<1>4. Newest(r)' = Newest(r)
  <2>1. CASE r = slot[c]
    <3>1. Busy(r) = {c} /\ Announced(r) = {c}
      BY <1>1, <2>1 DEF Published, OneCall, Busy, Announced
    <3>2. Announced(r)' = {}
      BY <1>1, <3>1 DEF TypeOK, Busy, Announced
    <3>3. pending'[r] = hand[c] /\ hand[c] # NULL
      BY <1>1, <2>1 DEF TypeOK
    <3> QED BY <3>1, <3>2, <3>3 DEF Newest
  <2>2. CASE r # slot[c]
    <3>1. Announced(r)' = Announced(r)
      BY <1>1, <2>2 DEF TypeOK, Announced
    <3>2. \A d \in Announced(r) : hand'[d] = hand[d]
      BY <1>1, <2>2 DEF TypeOK, Announced
    <3>3. pending'[r] = pending[r]
      BY <1>1, <2>2 DEF TypeOK
    <3> QED BY <1>1, <3>1, <3>2, <3>3 DEF Newest
  <2> QED BY <2>1, <2>2
<1>5. \A a \in Newest(r) : heap'[a] = heap[a]
  <2> SUFFICES ASSUME NEW a \in Newest(r) PROVE a # pending[slot[c]]
    BY <1>1, NewestHeld DEF Free
  <2> DEFINE x == <<"pending", slot[c]>>
  <2>1. x \in Places /\ Held[x] = pending[slot[c]]
    BY HeldIs DEF TypeOK
  <2>2. \E p \in Places : Held[p] = a /\ p # x
    <3>1. CASE \E d \in Announced(r) : a = hand[d]
      BY <3>1, HeldIs DEF Announced
    <3>2. CASE Announced(r) = {} /\ a = current[r]
      BY <3>2, HeldIs
    <3>3. CASE Announced(r) = {} /\ a = pending[r]
      <4>1. r # slot[c]
        BY <1>1, <3>3 DEF Announced
      <4> QED BY <3>3, <4>1, HeldIs
    <3> QED BY <3>1, <3>2, <3>3, NewestHeld
  <2>3. a # NULL
    BY NewestHeld, HeapAssumption
  <2> QED BY <2>1, <2>2, <2>3 DEF OneOwner
<1>6. ToldOfNewest(r)
  BY DEF Published, Told
<1> QED BY <1>1, <1>4, <1>5, <1>6, StillTold

(* A client that sets parameters or starts and stops runs publishes        *)
(* nothing of an object.                                                   *)
LEMMA OtherPublished ==
  ASSUME TypeOK, Published, NEW c \in Clients,
         setParam(c) \/ startRun(c) \/ stopRun(c), NEW r \in Slot
  PROVE  OneCall(r)' /\ Told(r)'
<1>1. /\ UNCHANGED <<heap, pending, current, slot, pc, hand, overlapped, traj_is_constant>>
      /\ staging'.owner = staging.owner
  BY DEF TypeOK, setParam, startRun, stopRun, SetRun, ipc, rt, Params
<1>2. Busy(r)' = Busy(r) /\ Newest(r)' = Newest(r)
  BY <1>1 DEF Busy, Newest, Announced
<1>3. OneCall(r)'
  BY <1>1, <1>2, CallsKept DEF Published
<1>4. Told(r)'
  BY <1>1, <1>2, StillTold DEF Published, Told
<1> QED BY <1>3, <1>4

(* The RT thread only ever moves an object from waiting to in use.         *)
LEMMA RtPublished ==
  ASSUME TypeOK, Published, RtThread, NEW r \in Slot
  PROVE  OneCall(r)' /\ Told(r)'
<1>1. UNCHANGED <<heap, slot, pc, hand, overlapped, traj_is_constant, staging>>
  BY DEF RtThread, swapPending, Take, Retire, LoadGeneration, CopyParams, Run, ipc, shared
<1>2. Busy(r)' = Busy(r) /\ Announced(r)' = Announced(r)
  BY <1>1 DEF Busy, Announced
<1>3. (IF pending'[r] = NULL THEN current'[r] ELSE pending'[r])
        = (IF pending[r] = NULL THEN current[r] ELSE pending[r])
  <2>1. ASSUME NEW s \in Slot, NEW from, NEW retire, NEW skip, Take(s, from, retire, skip)
        PROVE  (IF pending'[r] = NULL THEN current'[r] ELSE pending'[r])
                 = (IF pending[r] = NULL THEN current[r] ELSE pending[r])
    BY <2>1 DEF Take, TypeOK
  <2>2. CASE UNCHANGED <<pending, current>>
    BY <2>2
  <2>3. CASE swapPending
    BY <2>1, <2>2, <2>3 DEF swapPending, Retire, Slot
  <2> QED BY <2>2, <2>3 DEF RtThread, LoadGeneration, CopyParams, Run, shared
<1>4. Newest(r)' = Newest(r)
  BY <1>1, <1>2, <1>3 DEF Newest
<1>5. OneCall(r)'
  BY <1>1, <1>2, CallsKept DEF Published
<1>6. Told(r)'
  BY <1>1, <1>4, StillTold DEF Published, Told
<1> QED BY <1>5, <1>6

(* So every step keeps it.                                                 *)
LEMMA NextPublished ==
  ASSUME TypeOK, OneOwner, Published, [Next]_vars
  PROVE  Published'
<1> SUFFICES ASSUME NEW r \in Slot PROVE OneCall(r)' /\ Told(r)'
  BY DEF Published
<1>1. CASE UNCHANGED vars
  <2>1. UNCHANGED <<heap, pending, current, slot, pc, hand, overlapped,
                    traj_is_constant, staging>>
    BY <1>1 DEF vars, shared, ipc, rt
  <2>2. Busy(r)' = Busy(r) /\ Newest(r)' = Newest(r)
    BY <2>1 DEF Busy, Newest, Announced
  <2>3. OneCall(r)'
    BY <2>1, <2>2, CallsKept DEF Published
  <2>4. Told(r)'
    BY <2>1, <2>2, StillTold DEF Published, Told
  <2> QED BY <2>3, <2>4
<1>2. ASSUME NEW c \in Clients, Client(c) PROVE OneCall(r)' /\ Told(r)'
  <2>1. CASE setTrajectory(c) \/ setController(c)
    BY <2>1, ReplacePublished DEF setTrajectory, setController, Slot
  <2>2. CASE AnnounceTrajectory(c) \/ redefine(c)
    BY <2>2, AnnouncePublished
  <2>3. CASE reapRetired(c)
    BY <2>3, ReapPublished
  <2>4. CASE HandOver(c)
    BY <2>4, HandOverPublished
  <2>5. CASE setParam(c) \/ startRun(c) \/ stopRun(c)
    BY <2>5, OtherPublished
  <2> QED BY <1>2, <2>1, <2>2, <2>3, <2>4, <2>5 DEF Client
<1> QED BY <1>1, <1>2, RtPublished DEF Next

(* The inductive invariant behind the two theorems that follow.            *)
LEMMA AlwaysPublished == Spec => []Published
<1>1. TypeOK /\ OneOwner /\ Published /\ [Next]_vars => Published'
  BY NextPublished
<1> QED BY <1>1, InitPublished, TypeCorrect, NoObjectShared, PTL DEF Spec

(* The flag is about the newest trajectory, whatever the RT thread is      *)
(* doing and however many clients there are, unless their calls overlap.   *)
THEOREM FlagIsRight == Spec => []FlagFollows
<1>1. Published => FlagFollows
  BY DEF Published, Told, FlagFollows, Slot
<1> QED BY <1>1, AlwaysPublished, PTL

(* The parameters are those of the newest controller, likewise.            *)
THEOREM ParametersAreRight == Spec => []ParametersFollow
<1>1. Published => ParametersFollow
  BY DEF Published, Told, ParametersFollow, Slot
<1> QED BY <1>1, AlwaysPublished, PTL

-----------------------------------------------------------------------------
(* What is lost.                                                           *)

(* Somebody has a pointer to the object at a, and will delete it or give   *)
(* it back; an object that nobody has is never deleted.                    *)
Reachable(a) ==
  \/ \E s \in Slot : a \in {pending[s], retired[s], current[s]}
  \/ \E c \in Clients : a = hand[c]
  \/ a = old

Leaked(a) == heap[a] # "free" /\ ~Reachable(a)

(* The RT thread gives an object back before an IPC thread has taken the   *)
(* one in front of it: swapPending drops that one (prev).                  *)
Dropped(a) ==
  \E s \in Slot : retired[s] = a /\ old # NULL /\ retired'[s] = old

(* Where the pointers and the heap do not change, nothing is lost.         *)
LEMMA LeaksKept ==
  ASSUME UNCHANGED <<heap, pending, retired, current, old, hand>>, NEW a,
         Leaked(a)'
  PROVE  Leaked(a)
BY DEF Leaked, Reachable

(* A call loses nothing: what it makes it has in hand, what it replaces or *)
(* reaps it deletes.                                                       *)
LEMMA ClientLeaksNothing ==
  ASSUME TypeOK, NEW c \in Clients, Client(c), NEW a \in Addr, Leaked(a)'
  PROVE  Leaked(a)
<1>1. ASSUME NEW s \in Slot, NEW kind, Replace(c, s, kind) PROVE Leaked(a)
  <2>1. PICK b \in Addr : /\ heap' = [heap EXCEPT ![b] = kind]
                          /\ hand' = [hand EXCEPT ![c] = b]
    BY <1>1 DEF Replace
  <2>2. hand[c] = NULL /\ hand'[c] = b
    BY <1>1, <2>1 DEF Replace, TypeOK
  <2>3. a # b /\ a # NULL
    BY <2>2, HeapAssumption DEF Leaked, Reachable
  <2>4. heap'[a] = heap[a] /\ \A d \in Clients : hand[d] # a \/ hand'[d] = a
    BY <2>1, <2>2, <2>3 DEF TypeOK
  <2>5. UNCHANGED <<pending, retired, current, old>>
    BY <1>1 DEF Replace, rt
  <2> QED BY <2>4, <2>5 DEF Leaked, Reachable
<1>2. ASSUME NEW s \in Slot, NEW from, NEW to, Reap(c, s, from, to)
      PROVE  Leaked(a)
  <2>1. /\ heap' = Free(retired[s]) /\ retired' = [retired EXCEPT ![s] = NULL]
        /\ UNCHANGED <<pending, current, old, hand>>
    BY <1>2 DEF Reap, rt
  <2>2. a # retired[s] /\ heap[a] # "free"
    BY <2>1 DEF Leaked, Free
  <2>3. \A r \in Slot : retired[r] = a => retired'[r] = a
    BY <2>1, <2>2 DEF TypeOK
  <2> QED BY <2>1, <2>2, <2>3 DEF Leaked, Reachable
<1>3. ASSUME HandOver(c) PROVE Leaked(a)
  <2>1. /\ pending' = [pending EXCEPT ![slot[c]] = hand[c]]
        /\ heap' = Free(pending[slot[c]]) /\ hand' = [hand EXCEPT ![c] = NULL]
        /\ UNCHANGED <<retired, current, old>>
    BY <1>3 DEF HandOver, rt
  <2>2. a # pending[slot[c]] /\ heap[a] # "free"
    BY <2>1 DEF Leaked, Free
  <2>3. slot[c] \in Slot /\ pending'[slot[c]] = hand[c]
    BY <2>1 DEF TypeOK
  <2>4. a # hand[c]
    BY <2>3 DEF Leaked, Reachable
  <2>5. /\ \A r \in Slot : pending[r] = a => pending'[r] = a
        /\ \A d \in Clients : hand[d] = a => hand'[d] = a
    BY <2>1, <2>2, <2>4 DEF TypeOK
  <2> QED BY <2>1, <2>2, <2>5 DEF Leaked, Reachable
<1>4. ASSUME \/ AnnounceTrajectory(c) \/ redefine(c) \/ setParam(c)
             \/ startRun(c) \/ stopRun(c)
      PROVE  Leaked(a)
  BY <1>4, LeaksKept DEF AnnounceTrajectory, redefine, setParam, startRun,
     stopRun, SetRun, ipc, rt
<1> QED
  BY <1>1, <1>2, <1>3, <1>4
     DEF Client, setTrajectory, setController, reapRetired, Slot

(* The RT thread loses what it drops and nothing else.                     *)
LEMMA RtLeaksDropped ==
  ASSUME TypeOK, RtThread, NEW a \in Addr, Leaked(a)'
  PROVE  Leaked(a) \/ Dropped(a)
<1>1. ASSUME NEW s \in Slot, NEW from, NEW retire, NEW skip,
             from \in {"take_traj", "take_ctrl"}, Take(s, from, retire, skip)
      PROVE  Leaked(a)
  <2>1. UNCHANGED <<heap, retired, hand>> /\ old = NULL /\ a # NULL
    BY <1>1, HeapAssumption DEF Take, ipc, TypeOK
  <2>2. CASE pending[s] = NULL
    BY <1>1, <2>1, <2>2, LeaksKept DEF Take
  <2>3. CASE pending[s] # NULL
    <3>1. /\ old' = current[s] /\ pending' = [pending EXCEPT ![s] = NULL]
          /\ current' = [current EXCEPT ![s] = pending[s]]
      BY <1>1, <2>3 DEF Take
    <3>2. /\ current'[s] = pending[s] /\ pending'[s] = NULL
          /\ \A r \in Slot \ {s} : current'[r] = current[r] /\ pending'[r] = pending[r]
      BY <3>1 DEF TypeOK
    <3> QED BY <2>1, <3>1, <3>2 DEF Leaked, Reachable
  <2> QED BY <2>2, <2>3
<1>2. ASSUME NEW s \in Slot, NEW from, NEW to,
             from \in {"retire_traj", "retire_ctrl"}, Retire(s, from, to)
      PROVE  Leaked(a) \/ Dropped(a)
  <2>1. /\ UNCHANGED <<heap, pending, current, hand>> /\ old # NULL
        /\ retired' = [retired EXCEPT ![s] = old]
    BY <1>2 DEF Retire, ipc, TypeOK
  <2>2. /\ retired'[s] = old
        /\ \A r \in Slot \ {s} : retired'[r] = retired[r]
    BY <2>1 DEF TypeOK
  <2>3. CASE retired[s] = a
    BY <2>1, <2>2, <2>3 DEF Dropped
  <2>4. CASE retired[s] # a
    BY <2>1, <2>2, <2>4 DEF Leaked, Reachable
  <2> QED BY <2>3, <2>4
<1>3. ASSUME LoadGeneration \/ CopyParams \/ Run PROVE Leaked(a)
  BY <1>3, LeaksKept DEF LoadGeneration, CopyParams, Run, shared, ipc
<1> QED BY <1>1, <1>2, <1>3 DEF RtThread, swapPending, Slot

(* For any number of clients and addresses: an object is lost only where   *)
(* swapPending drops the one that was given back before and not reaped;    *)
(* "reapRetired will catch it", its comment says, but nobody has it then.  *)
THEOREM OnlyTheDropLeaks ==
  Spec => [][\A a \in Addr : Leaked(a)' => Leaked(a) \/ Dropped(a)]_vars
<1>1. ASSUME TypeOK, [Next]_vars, NEW a \in Addr, Leaked(a)'
      PROVE  Leaked(a) \/ Dropped(a)
  <2>1. CASE UNCHANGED vars
    BY <1>1, <2>1, LeaksKept DEF vars, shared, ipc, rt
  <2>2. CASE RtThread
    BY <1>1, <2>2, RtLeaksDropped
  <2>3. CASE \E c \in Clients : Client(c)
    BY <1>1, <2>3, ClientLeaksNothing
  <2> QED BY <1>1, <2>1, <2>2, <2>3 DEF Next
<1>2. TypeOK /\ [Next]_vars =>
        \A a \in Addr : Leaked(a)' => Leaked(a) \/ Dropped(a)
  BY <1>1
<1> QED BY <1>2, TypeCorrect, PTL DEF Spec

=============================================================================
