------------------------------- MODULE Recorder -------------------------------
(***************************************************************************)
(* The recorder (DataLogger): start() and stop(), called by the threads of *)
(* the IPC clients and by the main thread, against the writer thread,      *)
(* which takes samples from the ring of the realtime thread and appends    *)
(* them to an HDF5 file, column by column.  active_ and fresh_start_ are   *)
(* atomics; io_mu_ covers a batch of the writer and the closing of a file, *)
(* but neither the test of active_ before a batch nor the opening of a     *)
(* file.  A step is one access to something shared.                        *)
(*                                                                         *)
(* A sample is the era it was produced in: every record_start begins a new *)
(* era (setRecordEpoch and start_epoch_ns).  Of the rows of a file only    *)
(* what the properties tell apart is kept.                                 *)
(***************************************************************************)
EXTENDS Integers, Sequences

CONSTANTS Clients,      \* the threads that execute record_start/record_stop
          Main,         \* the main thread
          Cap,          \* capacity of the ring
          Batch,        \* kBatch
          MaxWaits,     \* 100 waits of 10 ms in stop()
          MaxEra        \* bound: record_starts

Callers == Clients \cup {Main}

ASSUME RecorderAssumption ==
  /\ Main \notin Clients
  /\ Cap \in Nat \ {0} /\ Batch \in Nat \ {0}
  /\ MaxWaits \in Nat /\ MaxEra \in Nat

VARIABLES
  era,                  \* the newest era
  ring,                 \* logRing_
  active, fresh, st,    \* active_, fresh_start_, st_.active
  epoch,                \* meta_.start_epoch_ns
  file,                 \* the handle and its columns: none, building, ready
  ragged,               \* the first columns are longer than the last ones
  rows,                 \* history: none, some, or some and then one lost
  gaveUp,               \* history: a failure has left the present file open
  w, batch,             \* the writer: where it is, impl_->batch
  op, arg, waits,       \* the callers: where they are, m.start_epoch_ns
  quit,                 \* quit_
  overlapped,           \* history: calls of two threads were under way at once
  stale                 \* history: a start found the writer in a round that
                        \*   began while the last recording was active

flags  == <<active, fresh, st>>
disk   == <<epoch, file, ragged, rows, gaveUp>>
writer == <<w, batch>>
caller == <<op, arg, waits>>
blots  == <<overlapped, stale>>
vars   == <<era, ring, flags, disk, writer, caller, quit, blots>>

Era     == 0 .. MaxEra
InStart == {"check", "create", "columns", "announce", "arm", "activate"}
InStop  == {"halt", "clear", "wait", "close", "off"}
Ending  == {"join", "end", "ended"}
InBatch == {"filter", "seen", "first", "rest", "failed"}

TypeOK ==
  /\ era \in Era /\ ring \in Seq(Era)
  /\ active \in BOOLEAN /\ fresh \in BOOLEAN /\ st \in BOOLEAN
  /\ epoch \in Era
  /\ file \in {"none", "building", "ready"} /\ ragged \in BOOLEAN
  /\ rows \in {"none", "some", "lost"} /\ gaveUp \in BOOLEAN
  /\ w \in {"top", "drain", "enter", "flush", "gone"} \cup InBatch
  /\ batch \in Seq(Era)
  /\ op \in [Callers -> {"idle", "ipc"} \cup Ending \cup InStart \cup InStop]
  /\ arg \in [Callers -> Era] /\ waits \in [Callers -> 0 .. MaxWaits]
  /\ quit \in BOOLEAN /\ overlapped \in BOOLEAN /\ stale \in BOOLEAN

Init ==
  /\ era = 0 /\ ring = <<>>
  /\ active = FALSE /\ fresh = FALSE /\ st = FALSE
  /\ epoch = 0 /\ file = "none" /\ ragged = FALSE
  /\ rows = "none" /\ gaveUp = FALSE
  /\ w = "top" /\ batch = <<>>
  /\ op = [c \in Callers |-> "idle"] /\ arg = [c \in Callers |-> 0]
  /\ waits = [c \in Callers |-> 0]
  /\ quit = FALSE /\ overlapped = FALSE /\ stale = FALSE

-----------------------------------------------------------------------------
(* The realtime thread pushes every cycle; a full ring drops the sample.   *)
push ==
  /\ Len(ring) < Cap /\ ring' = Append(ring, era)
  /\ UNCHANGED <<era, flags, disk, writer, caller, quit, blots>>

-----------------------------------------------------------------------------
Goto(c, pc) == op' = [op EXCEPT ![c] = pc]

Call(c, pc) ==
  /\ op[c] = "idle" /\ op[Main] \notin Ending /\ Goto(c, pc)
  /\ overlapped' = (overlapped \/ \E o \in Callers \ {c} :
                                     op[o] \in InStart \cup InStop)

(* record_start: the new era begins before the file is opened.             *)
record_start(c) ==
  /\ c \in Clients /\ era < MaxEra /\ Call(c, "check")
  /\ era' = era + 1 /\ arg' = [arg EXCEPT ![c] = era + 1]
  /\ UNCHANGED <<ring, flags, disk, writer, waits, quit, stale>>

(* record_stop, and the stop of the main thread when it was told to end.   *)
record_stop(c) ==
  /\ Call(c, "halt")
  /\ UNCHANGED <<era, ring, flags, disk, writer, arg, waits, quit, stale>>

(* start() refuses when a recording is active and when the disk is nearly  *)
(* full; meta_ is new before the disk is looked at.                        *)
CheckStart(c) ==
  /\ op[c] = "check"
  /\ IF active
     THEN Goto(c, "idle") /\ UNCHANGED <<epoch, stale>>
     ELSE /\ epoch' = arg[c]
          /\ stale' = (stale \/ w \notin {"top", "drain"})
          /\ \E pc \in {"idle", "create"} : Goto(c, pc)
  /\ UNCHANGED <<era, ring, flags, file, ragged, rows, gaveUp, writer, arg,
                 waits, quit, overlapped>>

(* openFile(), without io_mu_: H5Fcreate; the handle that was there, if a  *)
(* failure left one open, is overwritten.                                  *)
CreateFile(c) ==
  /\ op[c] = "create"
  /\ \/ file' = "building" /\ Goto(c, "columns")
     \/ file' = "none" /\ Goto(c, "idle")
  /\ ragged' = FALSE /\ gaveUp' = FALSE /\ rows' = "none"
  /\ UNCHANGED <<era, ring, flags, epoch, writer, arg, waits, quit, blots>>

(* Slip: a column that cannot be created is passed over.                   *)
CreateColumnsPassing(c) ==
  /\ op[c] = "columns" /\ Goto(c, "announce")
  /\ \/ file' = "ready" /\ UNCHANGED gaveUp
     \/ gaveUp' = TRUE /\ UNCHANGED file
  /\ UNCHANGED <<era, ring, flags, epoch, ragged, rows, writer, arg, waits,
                 quit, blots>>

(* ... and the columns.  When one of them fails the file stays open.       *)
CreateColumns(c) ==
  /\ op[c] = "columns"
  /\ \/ file' = "ready" /\ Goto(c, "announce") /\ UNCHANGED gaveUp
     \/ Goto(c, "idle") /\ gaveUp' = TRUE /\ UNCHANGED file
  /\ UNCHANGED <<era, ring, flags, epoch, ragged, rows, writer, arg, waits,
                 quit, blots>>

Announce(c) ==
  /\ op[c] = "announce" /\ Goto(c, "arm") /\ st' = TRUE
  /\ UNCHANGED <<era, ring, active, fresh, disk, writer, arg, waits, quit, blots>>

(* Slip: the flag of the last recording is left as it is.                  *)
ArmNothing(c) ==
  /\ op[c] = "arm" /\ Goto(c, "activate")
  /\ UNCHANGED <<era, ring, flags, disk, writer, arg, waits, quit, blots>>

Arm(c) ==
  /\ op[c] = "arm" /\ Goto(c, "activate") /\ fresh' = TRUE
  /\ UNCHANGED <<era, ring, active, st, disk, writer, arg, waits, quit, blots>>

Activate(c) ==
  /\ op[c] = "activate" /\ Goto(c, "idle") /\ active' = TRUE
  /\ UNCHANGED <<era, ring, fresh, st, disk, writer, arg, waits, quit, blots>>

-----------------------------------------------------------------------------
(* Where a caller goes when its stop() has ended.                          *)
AfterStop(c) == IF c = Main THEN "ipc" ELSE "idle"

Halt(c) ==
  /\ op[c] = "halt" /\ Goto(c, IF active THEN "clear" ELSE AfterStop(c))
  /\ UNCHANGED <<era, ring, flags, disk, writer, arg, waits, quit, blots>>

Clear(c) ==
  /\ op[c] = "clear" /\ Goto(c, "wait")
  /\ active' = FALSE
  /\ UNCHANGED <<era, ring, fresh, st, disk, writer, arg, waits, quit, blots>>

(* Slips: the file is not closed when the wait ended early; no limit to    *)
(* the waits.                                                              *)
WaitOrLeave(c) ==
  /\ op[c] = "wait"
  /\ IF waits[c] < MaxWaits /\ Len(ring) > 0
     THEN waits' = [waits EXCEPT ![c] = @ + 1] /\ UNCHANGED op
     ELSE /\ waits' = [waits EXCEPT ![c] = 0]
          /\ Goto(c, IF ring = <<>> THEN "close" ELSE "off")
  /\ UNCHANGED <<era, ring, flags, disk, writer, arg, quit, blots>>

WaitForEver(c) ==
  /\ op[c] = "wait" /\ ring = <<>>
  /\ Goto(c, "close")
  /\ UNCHANGED <<era, ring, flags, disk, writer, arg, waits, quit, blots>>

(* 100 times 10 ms at most, while the ring is not empty.                   *)
WaitDrained(c) ==
  /\ op[c] = "wait"
  /\ IF waits[c] < MaxWaits /\ Len(ring) > 0
     THEN waits' = [waits EXCEPT ![c] = @ + 1] /\ UNCHANGED op
     ELSE waits' = [waits EXCEPT ![c] = 0] /\ Goto(c, "close")
  /\ UNCHANGED <<era, ring, flags, disk, writer, arg, quit, blots>>

(* Slip: the file is closed without the lock.                              *)
closeFileUnlocked ==
  file' = "none" /\ ragged' = FALSE /\ rows' = "none" /\ gaveUp' = FALSE

(* closeFile() takes io_mu_, so it waits for the batch the writer has      *)
(* taken.  A handle that is not open is left alone.                        *)
closeFile ==
  /\ w \notin InBatch
  /\ file' = "none" /\ ragged' = FALSE /\ rows' = "none" /\ gaveUp' = FALSE

Close(c) ==
  /\ op[c] = "close" /\ Goto(c, "off")
  /\ closeFile
  /\ UNCHANGED <<era, ring, flags, epoch, writer, arg, waits, quit, blots>>

Off(c) ==
  /\ op[c] = "off" /\ Goto(c, AfterStop(c)) /\ st' = FALSE
  /\ UNCHANGED <<era, ring, active, fresh, disk, writer, arg, waits, quit, blots>>

(* main: ipc.stop() ends the server, after logger.stop(); until then a     *)
(* client may begin another recording.                                     *)
StopServer ==
  /\ op[Main] = "ipc" /\ Goto(Main, "join")
  /\ UNCHANGED <<era, ring, flags, disk, writer, arg, waits, quit, blots>>

(* The clients are joined (by ipc.stop() or the destructor of the server); *)
(* then ~DataLogger sets quit_, joins the writer and closes the file.      *)
JoinClients ==
  /\ op[Main] = "join" /\ \A c \in Clients : op[c] = "idle"
  /\ Goto(Main, "end") /\ quit' = TRUE
  /\ UNCHANGED <<era, ring, flags, disk, writer, arg, waits, blots>>

Destroy ==
  /\ op[Main] = "end" /\ w = "gone" /\ Goto(Main, "ended")
  /\ closeFile
  /\ UNCHANGED <<era, ring, flags, epoch, writer, arg, waits, quit, blots>>

Caller(c) ==
  \/ CheckStart(c) \/ CreateFile(c) \/ CreateColumns(c)
  \/ Announce(c) \/ Arm(c) \/ Activate(c)
  \/ Halt(c) \/ Clear(c) \/ WaitDrained(c) \/ Close(c) \/ Off(c)

-----------------------------------------------------------------------------
(* The writer reads quit_ and active_ ...                                  *)
Look ==
  /\ w = "top"
  /\ w' = IF quit THEN "gone" ELSE IF active THEN "enter" ELSE "drain"
  /\ UNCHANGED <<era, ring, flags, disk, batch, caller, quit, blots>>

(* ... empties the ring when nothing is recorded (one step: what happens   *)
(* between two pops of the loop could as well happen before it) ...        *)
Drain ==
  /\ w = "drain" /\ w' = "top"
  /\ ring' = <<>>
  /\ rows' = IF rows = "some" /\ \E i \in 1 .. Len(ring) : ring[i] >= epoch
             THEN "lost" ELSE rows
  /\ UNCHANGED <<era, flags, epoch, file, ragged, gaveUp, batch, caller, quit, blots>>

Taken == IF Len(ring) < Batch THEN Len(ring) ELSE Batch

(* ... or takes io_mu_ and a batch.                                        *)
popBatch ==
  /\ w = "enter"
  /\ batch' = SubSeq(ring, 1, Taken)
  /\ ring' = SubSeq(ring, Taken + 1, Len(ring))
  /\ w' = IF Taken = 0 THEN "flush" ELSE "filter"
  /\ UNCHANGED <<era, flags, disk, caller, quit, blots>>

(* How many samples at the front of a batch are older than the recording.  *)
Residue(b) == CHOOSE n \in 0 .. Len(b) :
                /\ \A i \in 1 .. n : b[i] < epoch
                /\ n < Len(b) => b[n + 1] >= epoch

Skipped == IF fresh /\ epoch > 0 THEN Residue(batch) ELSE 0

(* They are skipped until the first sample of the recording was seen (the  *)
(* batch keeps what is left) ...                                           *)
Filter ==
  /\ w = "filter"
  /\ batch' = SubSeq(batch, Skipped + 1, Len(batch))
  /\ w' = IF Skipped < Len(batch) THEN "seen" ELSE "flush"
  /\ UNCHANGED <<era, ring, flags, disk, caller, quit, blots>>

(* ... and never after it.  Without a file writeBatch() has nothing to do. *)
Seen ==
  /\ w = "seen" /\ fresh' = FALSE
  /\ IF file = "none" THEN w' = "flush" /\ batch' = <<>>
                      ELSE w' = "first" /\ UNCHANGED batch
  /\ UNCHANGED <<era, ring, active, st, disk, caller, quit, blots>>

(* Slip: the failure is ignored.                                           *)
GiveUpBatch ==
  /\ UNCHANGED active /\ gaveUp' = TRUE /\ rows' = "lost"
  /\ w' = "failed" /\ batch' = <<>>

(* A column that cannot be written ends the recording; the file stays open.*)
GiveUp ==
  /\ active' = FALSE /\ gaveUp' = TRUE /\ rows' = "lost"
  /\ w' = "failed" /\ batch' = <<>>

(* writeBatch(): the first columns, then the others, under io_mu_.         *)
WriteFirst ==
  /\ w = "first"
  /\ \/ /\ w' = "rest" /\ ragged' = TRUE
        /\ UNCHANGED <<active, gaveUp, rows, batch>>
     \/ GiveUp /\ UNCHANGED ragged
  /\ UNCHANGED <<era, ring, fresh, st, epoch, file, caller, quit, blots>>

WriteRest ==
  /\ w = "rest"
  /\ \/ /\ w' = "flush" /\ ragged' = FALSE /\ batch' = <<>>
        /\ rows' = IF rows = "none" THEN "some" ELSE rows
        /\ UNCHANGED <<active, gaveUp>>
     \/ GiveUp /\ UNCHANGED ragged
  /\ UNCHANGED <<era, ring, fresh, st, epoch, file, caller, quit, blots>>

Failed ==
  /\ w = "failed" /\ w' = "top" /\ st' = FALSE
  /\ UNCHANGED <<era, ring, active, fresh, disk, batch, caller, quit, blots>>

(* Every 30 s the file is flushed and the disk looked at; when it is       *)
(* nearly full the recording ends, and the file stays open.                *)
Flush ==
  /\ w = "flush" /\ w' = "top"
  /\ \/ UNCHANGED <<active, st, gaveUp>>
     \/ active' = FALSE /\ st' = FALSE /\ gaveUp' = TRUE
  /\ UNCHANGED <<era, ring, fresh, epoch, file, ragged, rows, batch, caller,
                 quit, blots>>

threadMain ==
  \/ Look \/ Drain \/ popBatch \/ Filter \/ Seen
  \/ WriteFirst \/ WriteRest \/ Failed \/ Flush

-----------------------------------------------------------------------------
Next ==
  \/ push \/ threadMain \/ StopServer \/ JoinClients \/ Destroy
  \/ \E c \in Callers : record_start(c) \/ record_stop(c) \/ Caller(c)

(* Every thread is scheduled, and sleep_for ends; nobody owes a command.   *)
(* The writer empties the ring faster than one sample per cycle fills it,  *)
(* so it leaves io_mu_ alone for 5 ms again and again.                     *)
Fairness ==
  /\ WF_vars(threadMain)
  /\ WF_vars(StopServer \/ JoinClients \/ Destroy)
  /\ \A c \in Callers : WF_vars(Caller(c)) /\ SF_vars(Close(c))

Spec == Init /\ [][Next]_vars /\ Fairness

-----------------------------------------------------------------------------
(* A recording that is active has an open file with all its columns: what  *)
(* start() arms is what it has built.  Two overlapping calls can close a   *)
(* file that the other one is about to activate.                           *)
ActiveHasFile == active /\ ~overlapped /\ w # "gone" => file = "ready"

(* The writer indexes the columns by position, without a bound: it must    *)
(* not write while start() is still appending to them.                     *)
WritesBuiltFile ==
  w \in {"first", "rest"} /\ ~overlapped /\ ~stale => file = "ready"

(* The rows of a file are consecutive: once a sample of the recording was  *)
(* thrown away (by a failure, or by the writer when active_ is clear), no  *)
(* row is appended to that file any more.                                  *)
NoHole == w \in {"first", "rest"} /\ ~overlapped /\ ~stale => rows # "lost"

(* No sample that is older than the recording gets into its file, although *)
(* the ring may hold samples of the last one when the file is opened.      *)
NoResidue == w = "first" /\ ~overlapped /\ ~stale =>
               \A i \in 1 .. Len(batch) : batch[i] >= epoch

(* A file is never closed, or given up for the next one, with columns of   *)
(* different lengths, unless a write failed: closing waits for the whole   *)
(* batch (io_mu_).                                                         *)
ClosesWhole ==
  [][ file' # file /\ ~overlapped /\ ~stale => ~ragged \/ gaveUp ]_vars

(* A file is replaced by the next one only after it was closed, unless a   *)
(* failure left it open.                                                   *)
ClosedBeforeNext ==
  [][ (\E c \in Callers : op[c] = "create" /\ op'[c] # "create") /\ ~overlapped
      => file = "none" \/ gaveUp ]_vars

(* The main thread gets to its end: neither the samples that keep coming   *)
(* nor a client that starts a recording in the last moment can hold it,    *)
(* and then the writer is gone and the file closed.                        *)
EndsClosed == op[Main] # "idle" ~> op[Main] = "ended" /\ file = "none"
===============================================================================
