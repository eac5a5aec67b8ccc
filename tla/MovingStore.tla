----------------------------- MODULE MovingStore -----------------------------
(***************************************************************************)
(* The moving time of the joint and its file (MovingTimeStore): save()     *)
(* writes <path>.tmp and renames it over <path>, one system call a step,   *)
(* and the threads that save share the one .tmp.  A FILE of a saver stays  *)
(* with its inode when the name moves, so the module keeps, for each       *)
(* saver, the name its inode has.                                          *)
(***************************************************************************)
EXTENDS Integers

CONSTANTS Main,         \* the main thread
          Clients,      \* the threads of the IPC clients
          MaxTotal      \* bound: moving time

Threads == {Main} \cup Clients

ASSUME StoreAssumption == Main \notin Clients /\ MaxTotal \in Nat

VARIABLES
  total,                \* total_moving_ns_
  path, tmp,            \* what the two files hold
  save, val, held,      \* the savers: next call, total_ns, name of the inode
  kept,                 \* history: what the last complete save promised
  spoiled               \* history: two saves overlapped, or the disk was full

files  == <<path, tmp>>
savers == <<save, val, held>>
store  == <<total, files, savers, kept, spoiled>>

Empty    == -1
Absent   == -2
Total    == 0 .. MaxTotal
Contents == Total \cup {Empty, Absent}

(* An unreadable, empty or missing file counts as zero.                    *)
load == IF path \in Total THEN path ELSE 0

StoreTypeOK ==
  /\ total \in Total /\ path \in Contents /\ tmp \in Contents
  /\ save \in [Threads -> {"none", "open", "write", "rename"}]
  /\ val \in [Threads -> Total]
  /\ held \in [Threads -> {"none", "tmp", "path", "gone"}]
  /\ kept \in Total /\ spoiled \in BOOLEAN

NoSaver ==
  /\ save = [t \in Threads |-> "none"] /\ val = [t \in Threads |-> 0]
  /\ held = [t \in Threads |-> "none"]

StoreInit ==
  /\ total = 0 /\ path = Absent /\ tmp = Absent /\ NoSaver
  /\ kept = 0 /\ spoiled = FALSE

(* The counter is only read in front of save(), and another save may be    *)
(* under way.                                                              *)
BeginSave(t) ==
  /\ save[t] = "none"
  /\ save' = [save EXCEPT ![t] = "open"] /\ val' = [val EXCEPT ![t] = total]
  /\ spoiled' = (spoiled \/ \E o \in Threads \ {t} : save[o] # "none")
  /\ UNCHANGED <<total, files, held, kept>>

EndSave(t) ==
  /\ save' = [save EXCEPT ![t] = "none"] /\ val' = [val EXCEPT ![t] = 0]

(* Slip: the file itself is rewritten.                                     *)
OpenInPlace(t) ==
  /\ save[t] = "open" /\ path' = Empty
  /\ held' = [held EXCEPT ![t] = "path"]
  /\ save' = [save EXCEPT ![t] = "write"]
  /\ UNCHANGED <<total, tmp, val, kept, spoiled>>

(* makeParents() and fopen(): the .tmp of another saver is cut short.      *)
OpenTmp(t) ==
  /\ save[t] = "open" /\ tmp' = Empty
  /\ held' = [held EXCEPT ![t] = "tmp"]
  /\ save' = [save EXCEPT ![t] = "write"]
  /\ UNCHANGED <<total, path, val, kept, spoiled>>

OpenFails(t) ==
  /\ save[t] = "open" /\ EndSave(t)
  /\ UNCHANGED <<total, files, held, kept, spoiled>>

(* fprintf, fflush, fsync and fclose: nobody looks at what they return.    *)
WriteTmp(t) ==
  /\ save[t] = "write"
  /\ save' = [save EXCEPT ![t] = "rename"]
  /\ held' = [held EXCEPT ![t] = "none"]
  /\ \/ /\ path' = IF held[t] = "path" THEN val[t] ELSE path
        /\ tmp'  = IF held[t] = "tmp"  THEN val[t] ELSE tmp
        /\ UNCHANGED spoiled
     \/ spoiled' = TRUE /\ UNCHANGED files
  /\ UNCHANGED <<total, val, kept>>

Moved(name) == CASE name = "tmp" -> "path" [] name = "path" -> "gone"
                 [] OTHER -> name

RenameTmp(t) ==
  /\ save[t] = "rename" /\ tmp # Absent
  /\ path' = tmp /\ tmp' = Absent /\ kept' = val[t]
  /\ held' = [o \in Threads |-> Moved(held[o])] /\ EndSave(t)
  /\ UNCHANGED <<total, spoiled>>

(* The .tmp is removed, whoever opened it.                                 *)
RenameFails(t) ==
  /\ save[t] = "rename" /\ tmp' = Absent
  /\ held' = [o \in Threads |-> IF held[o] = "tmp" THEN "gone" ELSE held[o]]
  /\ EndSave(t)
  /\ UNCHANGED <<total, path, kept, spoiled>>

SaveStep(t) == OpenTmp(t) \/ OpenFails(t) \/ WriteTmp(t) \/ RenameTmp(t)
                 \/ RenameFails(t)

(* The process is gone: its files are closed, and the next one reads path. *)
StoreBoot ==
  /\ total' = load
  /\ save' = [t \in Threads |-> "none"] /\ val' = [t \in Threads |-> 0]
  /\ held' = [t \in Threads |-> "none"]
  /\ UNCHANGED <<files, kept, spoiled>>
=============================================================================
