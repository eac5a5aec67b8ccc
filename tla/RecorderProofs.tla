---------------------------- MODULE RecorderProofs ----------------------------
(***************************************************************************)
(* Proofs about the recorder, for any number of clients, any capacity and  *)
(* batch and any number of recordings.  The invariant CallInv follows one  *)
(* recording through start() and stop(), as long as no two calls overlap;  *)
(* WriterInv adds what the writer relies on, as long as no start() found   *)
(* it in a round of the last recording; OrderInv is about the samples.     *)
(***************************************************************************)
EXTENDS Recorder, SequenceTheorems, WellFoundedInduction, TLAPS

-----------------------------------------------------------------------------
(* The calls.                                                              *)

Places  == {"idle", "ipc"} \cup Ending \cup InStart \cup InStop
Opening == InStart \ {"check"}

OpTypes == op \in [Callers -> Places] /\ Main \in Callers

(* One call at a time, and none when the process is about to end.          *)
OneCall ==
  \A c, d \in Callers :
    op[c] \in InStart \cup InStop /\ op[d] \in InStart \cup InStop => c = d

NoCallAtEnd ==
  op[Main] \in {"end", "ended"} =>
    \A c \in Callers : op[c] \notin InStart \cup InStop

(* The file is there while a recording is active, and closed or given up   *)
(* when none is and nobody is about to begin or to end one.                *)
FileFollows ==
  /\ active /\ w # "gone" => file = "ready"
  /\ \A c \in Callers : op[c] \in Opening \cup {"wait", "close"} => ~active
  /\ \A c \in Callers : op[c] \in {"announce", "arm", "activate"} => file = "ready"
  /\ ~active /\ (\A c \in Callers : op[c] \notin (Opening \ {"create"})
                                                   \cup {"wait", "close"})
       => file = "none" \/ gaveUp

RaggedTells == ragged => w = "rest" \/ gaveUp

CallInv == 
  /\ OpTypes /\ NoCallAtEnd /\ RaggedTells 
  /\ ~overlapped => OneCall /\ FileFollows

(* CallInv is inductive.                                                   *)
LEMMA CallInvHolds == CallInv /\ [Next]_vars => CallInv'
<1> SUFFICES ASSUME CallInv, [Next]_vars PROVE CallInv'
  OBVIOUS
<1>0. CallInv
  OBVIOUS
<1>1. ASSUME NEW c \in Callers, record_start(c) PROVE CallInv'
  BY <1>0, <1>1
     DEF record_start, CallInv, OpTypes, Places, Opening, OneCall, NoCallAtEnd,
         FileFollows, RaggedTells, Goto, Call, Callers, Ending, InStart, InStop,
         InBatch, flags, disk, writer, caller, blots
<1>2. ASSUME NEW c \in Callers, record_stop(c) PROVE CallInv'
  BY <1>0, <1>2
     DEF record_stop, CallInv, OpTypes, Places, Opening, OneCall, NoCallAtEnd,
         FileFollows, RaggedTells, Goto, Call, Callers, Ending, InStart, InStop,
         InBatch, flags, disk, writer, caller, blots
<1>3. ASSUME NEW c \in Callers, CheckStart(c) PROVE CallInv'
  BY <1>0, <1>3
     DEF CheckStart, CallInv, OpTypes, Places, Opening, OneCall, NoCallAtEnd,
         FileFollows, RaggedTells, Goto, Call, Callers, Ending, InStart, InStop,
         InBatch, flags, disk, writer, caller, blots
<1>4. ASSUME NEW c \in Callers, CreateFile(c) PROVE CallInv'
  BY <1>0, <1>4
     DEF CreateFile, CallInv, OpTypes, Places, Opening, OneCall, NoCallAtEnd,
         FileFollows, RaggedTells, Goto, Call, Callers, Ending, InStart, InStop,
         InBatch, flags, disk, writer, caller, blots
<1>5. ASSUME NEW c \in Callers, CreateColumns(c) PROVE CallInv'
  BY <1>0, <1>5
     DEF CreateColumns, CallInv, OpTypes, Places, Opening, OneCall, NoCallAtEnd,
         FileFollows, RaggedTells, Goto, Call, Callers, Ending, InStart, InStop,
         InBatch, flags, disk, writer, caller, blots
<1>6. ASSUME NEW c \in Callers, Announce(c) PROVE CallInv'
  BY <1>0, <1>6
     DEF Announce, CallInv, OpTypes, Places, Opening, OneCall, NoCallAtEnd,
         FileFollows, RaggedTells, Goto, Call, Callers, Ending, InStart, InStop,
         InBatch, flags, disk, writer, caller, blots
<1>7. ASSUME NEW c \in Callers, Arm(c) PROVE CallInv'
  BY <1>0, <1>7
     DEF Arm, CallInv, OpTypes, Places, Opening, OneCall, NoCallAtEnd,
         FileFollows, RaggedTells, Goto, Call, Callers, Ending, InStart, InStop,
         InBatch, flags, disk, writer, caller, blots
<1>8. ASSUME NEW c \in Callers, Activate(c) PROVE CallInv'
  BY <1>0, <1>8
     DEF Activate, CallInv, OpTypes, Places, Opening, OneCall, NoCallAtEnd,
         FileFollows, RaggedTells, Goto, Call, Callers, Ending, InStart, InStop,
         InBatch, flags, disk, writer, caller, blots
<1>9. ASSUME NEW c \in Callers, Halt(c) PROVE CallInv'
  BY <1>0, <1>9
     DEF Halt, AfterStop, CallInv, OpTypes, Places, Opening, OneCall, NoCallAtEnd,
         FileFollows, RaggedTells, Goto, Call, Callers, Ending, InStart, InStop,
         InBatch, flags, disk, writer, caller, blots
<1>10. ASSUME NEW c \in Callers, Clear(c) PROVE CallInv'
  BY <1>0, <1>10
     DEF Clear, CallInv, OpTypes, Places, Opening, OneCall, NoCallAtEnd,
         FileFollows, RaggedTells, Goto, Call, Callers, Ending, InStart, InStop,
         InBatch, flags, disk, writer, caller, blots
<1>11. ASSUME NEW c \in Callers, WaitDrained(c) PROVE CallInv'
  BY <1>0, <1>11
     DEF WaitDrained, CallInv, OpTypes, Places, Opening, OneCall, NoCallAtEnd,
         FileFollows, RaggedTells, Goto, Call, Callers, Ending, InStart, InStop,
         InBatch, flags, disk, writer, caller, blots
<1>12. ASSUME NEW c \in Callers, Close(c) PROVE CallInv'
  BY <1>0, <1>12
     DEF Close, closeFile, CallInv, OpTypes, Places, Opening, OneCall, NoCallAtEnd,
         FileFollows, RaggedTells, Goto, Call, Callers, Ending, InStart, InStop,
         InBatch, flags, disk, writer, caller, blots
<1>13. ASSUME NEW c \in Callers, Off(c) PROVE CallInv'
  BY <1>0, <1>13
     DEF Off, AfterStop, CallInv, OpTypes, Places, Opening, OneCall, NoCallAtEnd,
         FileFollows, RaggedTells, Goto, Call, Callers, Ending, InStart, InStop,
         InBatch, flags, disk, writer, caller, blots
<1>14. ASSUME Look PROVE CallInv'
  BY <1>0, <1>14
     DEF Look, CallInv, OpTypes, Places, Opening, OneCall, NoCallAtEnd,
         FileFollows, RaggedTells, Goto, Call, Callers, Ending, InStart, InStop,
         InBatch, flags, disk, writer, caller, blots
<1>15. ASSUME Drain PROVE CallInv'
  BY <1>0, <1>15
     DEF Drain, CallInv, OpTypes, Places, Opening, OneCall, NoCallAtEnd,
         FileFollows, RaggedTells, Goto, Call, Callers, Ending, InStart, InStop,
         InBatch, flags, disk, writer, caller, blots
<1>16. ASSUME popBatch PROVE CallInv'
  BY <1>0, <1>16
     DEF popBatch, CallInv, OpTypes, Places, Opening, OneCall, NoCallAtEnd,
         FileFollows, RaggedTells, Goto, Call, Callers, Ending, InStart, InStop,
         InBatch, flags, disk, writer, caller, blots
<1>17. ASSUME Filter PROVE CallInv'
  BY <1>0, <1>17
     DEF Filter, CallInv, OpTypes, Places, Opening, OneCall, NoCallAtEnd,
         FileFollows, RaggedTells, Goto, Call, Callers, Ending, InStart, InStop,
         InBatch, flags, disk, writer, caller, blots
<1>18. ASSUME Seen PROVE CallInv'
  BY <1>0, <1>18
     DEF Seen, CallInv, OpTypes, Places, Opening, OneCall, NoCallAtEnd,
         FileFollows, RaggedTells, Goto, Call, Callers, Ending, InStart, InStop,
         InBatch, flags, disk, writer, caller, blots
<1>19. ASSUME WriteFirst PROVE CallInv'
  BY <1>0, <1>19
     DEF WriteFirst, GiveUp, CallInv, OpTypes, Places, Opening, OneCall, NoCallAtEnd,
         FileFollows, RaggedTells, Goto, Call, Callers, Ending, InStart, InStop,
         InBatch, flags, disk, writer, caller, blots
<1>20. ASSUME WriteRest PROVE CallInv'
  BY <1>0, <1>20
     DEF WriteRest, GiveUp, CallInv, OpTypes, Places, Opening, OneCall, NoCallAtEnd,
         FileFollows, RaggedTells, Goto, Call, Callers, Ending, InStart, InStop,
         InBatch, flags, disk, writer, caller, blots
<1>21. ASSUME Failed PROVE CallInv'
  BY <1>0, <1>21
     DEF Failed, CallInv, OpTypes, Places, Opening, OneCall, NoCallAtEnd,
         FileFollows, RaggedTells, Goto, Call, Callers, Ending, InStart, InStop,
         InBatch, flags, disk, writer, caller, blots
<1>22. ASSUME Flush PROVE CallInv'
  BY <1>0, <1>22
     DEF Flush, CallInv, OpTypes, Places, Opening, OneCall, NoCallAtEnd,
         FileFollows, RaggedTells, Goto, Call, Callers, Ending, InStart, InStop,
         InBatch, flags, disk, writer, caller, blots
<1>23. ASSUME push PROVE CallInv'
  BY <1>0, <1>23
     DEF push, CallInv, OpTypes, Places, Opening, OneCall, NoCallAtEnd,
         FileFollows, RaggedTells, Goto, Call, Callers, Ending, InStart, InStop,
         InBatch, flags, disk, writer, caller, blots
<1>24. ASSUME StopServer PROVE CallInv'
  BY <1>0, <1>24
     DEF StopServer, CallInv, OpTypes, Places, Opening, OneCall, NoCallAtEnd,
         FileFollows, RaggedTells, Goto, Call, Callers, Ending, InStart, InStop,
         InBatch, flags, disk, writer, caller, blots
<1>25. ASSUME JoinClients PROVE CallInv'
  BY <1>0, <1>25
     DEF JoinClients, CallInv, OpTypes, Places, Opening, OneCall, NoCallAtEnd,
         FileFollows, RaggedTells, Goto, Call, Callers, Ending, InStart, InStop,
         InBatch, flags, disk, writer, caller, blots
<1>26. ASSUME Destroy PROVE CallInv'
  BY <1>0, <1>26
     DEF Destroy, closeFile, CallInv, OpTypes, Places, Opening, OneCall, NoCallAtEnd,
         FileFollows, RaggedTells, Goto, Call, Callers, Ending, InStart, InStop,
         InBatch, flags, disk, writer, caller, blots
<1>27. CASE UNCHANGED vars
  BY <1>0, <1>27
     DEF vars, CallInv, OpTypes, Places, Opening, OneCall, NoCallAtEnd,
         FileFollows, RaggedTells, Goto, Call, Callers, Ending, InStart, InStop,
         InBatch, flags, disk, writer, caller, blots
<1> QED
  BY <1>1, <1>2, <1>3, <1>4, <1>5, <1>6, <1>7, <1>8, <1>9, <1>10, <1>11, <1>12, <1>13, <1>14, <1>15, <1>16, <1>17, <1>18, <1>19, <1>20, <1>21, <1>22, <1>23, <1>24, <1>25, <1>26, <1>27
     DEF Next, threadMain, Caller

-----------------------------------------------------------------------------
(* What the writer relies on.                                              *)

(* While a file is being opened the writer is at the top of its loop; in a *)
(* batch it finds the file with all its columns, or none.                  *)
WriterApart ==
  /\ \A c \in Callers : op[c] \in Opening => w \in {"top", "drain", "gone"}
  /\ \A c \in Callers : op[c] = "activate" => fresh
  /\ w \in {"enter", "filter", "seen"} => file \in {"ready", "none"}
  /\ w \in {"first", "rest"} => file = "ready"

(* No row is lost from a file that rows may still be written to.           *)
NothingLost ==
  /\ active \/ w \in {"enter", "filter", "seen", "first", "rest"}
       => rows # "lost"
  /\ \A c \in Callers : op[c] \in Opening \ {"create"} => rows = "none"
  /\ active /\ w = "drain" => rows = "none"

WriterInv == ~overlapped /\ ~stale => WriterApart /\ NothingLost

(* WriterInv is inductive, relative to CallInv.                            *)
LEMMA WriterInvHolds == CallInv /\ WriterInv /\ [Next]_vars => WriterInv'
<1> SUFFICES ASSUME CallInv, WriterInv, [Next]_vars PROVE WriterInv'
  OBVIOUS
<1>0. CallInv /\ WriterInv
  OBVIOUS
<1>1. ASSUME NEW c \in Callers, record_start(c) PROVE WriterInv'
  BY <1>0, <1>1
     DEF record_start, CallInv, OpTypes, Places, Opening, OneCall, FileFollows, WriterInv,
         WriterApart, NothingLost, Goto, Call, Callers, Ending, InStart, InStop,
         InBatch, flags, disk, writer, caller, blots
<1>2. ASSUME NEW c \in Callers, record_stop(c) PROVE WriterInv'
  BY <1>0, <1>2
     DEF record_stop, CallInv, OpTypes, Places, Opening, OneCall, FileFollows, WriterInv,
         WriterApart, NothingLost, Goto, Call, Callers, Ending, InStart, InStop,
         InBatch, flags, disk, writer, caller, blots
<1>3. ASSUME NEW c \in Callers, CheckStart(c) PROVE WriterInv'
  BY <1>0, <1>3, ZenonT(60)
     DEF CheckStart, CallInv, OpTypes, Places, Opening, OneCall, FileFollows, WriterInv,
         WriterApart, NothingLost, Goto, Call, Callers, Ending, InStart, InStop,
         InBatch, flags, disk, writer, caller, blots
<1>4. ASSUME NEW c \in Callers, CreateFile(c) PROVE WriterInv'
  BY <1>0, <1>4
     DEF CreateFile, CallInv, OpTypes, Places, Opening, OneCall, FileFollows, WriterInv,
         WriterApart, NothingLost, Goto, Call, Callers, Ending, InStart, InStop,
         InBatch, flags, disk, writer, caller, blots
<1>5. ASSUME NEW c \in Callers, CreateColumns(c) PROVE WriterInv'
  BY <1>0, <1>5
     DEF CreateColumns, CallInv, OpTypes, Places, Opening, OneCall, FileFollows, WriterInv,
         WriterApart, NothingLost, Goto, Call, Callers, Ending, InStart, InStop,
         InBatch, flags, disk, writer, caller, blots
<1>6. ASSUME NEW c \in Callers, Announce(c) PROVE WriterInv'
  BY <1>0, <1>6
     DEF Announce, CallInv, OpTypes, Places, Opening, OneCall, FileFollows, WriterInv,
         WriterApart, NothingLost, Goto, Call, Callers, Ending, InStart, InStop,
         InBatch, flags, disk, writer, caller, blots
<1>7. ASSUME NEW c \in Callers, Arm(c) PROVE WriterInv'
  BY <1>0, <1>7
     DEF Arm, CallInv, OpTypes, Places, Opening, OneCall, FileFollows, WriterInv,
         WriterApart, NothingLost, Goto, Call, Callers, Ending, InStart, InStop,
         InBatch, flags, disk, writer, caller, blots
<1>8. ASSUME NEW c \in Callers, Activate(c) PROVE WriterInv'
  BY <1>0, <1>8
     DEF Activate, CallInv, OpTypes, Places, Opening, OneCall, FileFollows, WriterInv,
         WriterApart, NothingLost, Goto, Call, Callers, Ending, InStart, InStop,
         InBatch, flags, disk, writer, caller, blots
<1>9. ASSUME NEW c \in Callers, Halt(c) PROVE WriterInv'
  BY <1>0, <1>9
     DEF Halt, AfterStop, CallInv, OpTypes, Places, Opening, OneCall, FileFollows, WriterInv,
         WriterApart, NothingLost, Goto, Call, Callers, Ending, InStart, InStop,
         InBatch, flags, disk, writer, caller, blots
<1>10. ASSUME NEW c \in Callers, Clear(c) PROVE WriterInv'
  BY <1>0, <1>10
     DEF Clear, CallInv, OpTypes, Places, Opening, OneCall, FileFollows, WriterInv,
         WriterApart, NothingLost, Goto, Call, Callers, Ending, InStart, InStop,
         InBatch, flags, disk, writer, caller, blots
<1>11. ASSUME NEW c \in Callers, WaitDrained(c) PROVE WriterInv'
  BY <1>0, <1>11
     DEF WaitDrained, CallInv, OpTypes, Places, Opening, OneCall, FileFollows, WriterInv,
         WriterApart, NothingLost, Goto, Call, Callers, Ending, InStart, InStop,
         InBatch, flags, disk, writer, caller, blots
<1>12. ASSUME NEW c \in Callers, Close(c) PROVE WriterInv'
  BY <1>0, <1>12
     DEF Close, closeFile, CallInv, OpTypes, Places, Opening, OneCall, FileFollows, WriterInv,
         WriterApart, NothingLost, Goto, Call, Callers, Ending, InStart, InStop,
         InBatch, flags, disk, writer, caller, blots
<1>13. ASSUME NEW c \in Callers, Off(c) PROVE WriterInv'
  BY <1>0, <1>13
     DEF Off, AfterStop, CallInv, OpTypes, Places, Opening, OneCall, FileFollows, WriterInv,
         WriterApart, NothingLost, Goto, Call, Callers, Ending, InStart, InStop,
         InBatch, flags, disk, writer, caller, blots
<1>14. ASSUME Look PROVE WriterInv'
  BY <1>0, <1>14
     DEF Look, CallInv, OpTypes, Places, Opening, OneCall, FileFollows, WriterInv,
         WriterApart, NothingLost, Goto, Call, Callers, Ending, InStart, InStop,
         InBatch, flags, disk, writer, caller, blots
<1>15. ASSUME Drain PROVE WriterInv'
  BY <1>0, <1>15
     DEF Drain, CallInv, OpTypes, Places, Opening, OneCall, FileFollows, WriterInv,
         WriterApart, NothingLost, Goto, Call, Callers, Ending, InStart, InStop,
         InBatch, flags, disk, writer, caller, blots
<1>16. ASSUME popBatch PROVE WriterInv'
  BY <1>0, <1>16
     DEF popBatch, CallInv, OpTypes, Places, Opening, OneCall, FileFollows, WriterInv,
         WriterApart, NothingLost, Goto, Call, Callers, Ending, InStart, InStop,
         InBatch, flags, disk, writer, caller, blots
<1>17. ASSUME Filter PROVE WriterInv'
  BY <1>0, <1>17
     DEF Filter, CallInv, OpTypes, Places, Opening, OneCall, FileFollows, WriterInv,
         WriterApart, NothingLost, Goto, Call, Callers, Ending, InStart, InStop,
         InBatch, flags, disk, writer, caller, blots
<1>18. ASSUME Seen PROVE WriterInv'
  BY <1>0, <1>18
     DEF Seen, CallInv, OpTypes, Places, Opening, OneCall, FileFollows, WriterInv,
         WriterApart, NothingLost, Goto, Call, Callers, Ending, InStart, InStop,
         InBatch, flags, disk, writer, caller, blots
<1>19. ASSUME WriteFirst PROVE WriterInv'
  BY <1>0, <1>19
     DEF WriteFirst, GiveUp, CallInv, OpTypes, Places, Opening, OneCall, FileFollows, WriterInv,
         WriterApart, NothingLost, Goto, Call, Callers, Ending, InStart, InStop,
         InBatch, flags, disk, writer, caller, blots
<1>20. ASSUME WriteRest PROVE WriterInv'
  BY <1>0, <1>20
     DEF WriteRest, GiveUp, CallInv, OpTypes, Places, Opening, OneCall, FileFollows, WriterInv,
         WriterApart, NothingLost, Goto, Call, Callers, Ending, InStart, InStop,
         InBatch, flags, disk, writer, caller, blots
<1>21. ASSUME Failed PROVE WriterInv'
  BY <1>0, <1>21
     DEF Failed, CallInv, OpTypes, Places, Opening, OneCall, FileFollows, WriterInv,
         WriterApart, NothingLost, Goto, Call, Callers, Ending, InStart, InStop,
         InBatch, flags, disk, writer, caller, blots
<1>22. ASSUME Flush PROVE WriterInv'
  BY <1>0, <1>22
     DEF Flush, CallInv, OpTypes, Places, Opening, OneCall, FileFollows, WriterInv,
         WriterApart, NothingLost, Goto, Call, Callers, Ending, InStart, InStop,
         InBatch, flags, disk, writer, caller, blots
<1>23. ASSUME push PROVE WriterInv'
  BY <1>0, <1>23
     DEF push, CallInv, OpTypes, Places, Opening, OneCall, FileFollows, WriterInv,
         WriterApart, NothingLost, Goto, Call, Callers, Ending, InStart, InStop,
         InBatch, flags, disk, writer, caller, blots
<1>24. ASSUME StopServer PROVE WriterInv'
  BY <1>0, <1>24
     DEF StopServer, CallInv, OpTypes, Places, Opening, OneCall, FileFollows, WriterInv,
         WriterApart, NothingLost, Goto, Call, Callers, Ending, InStart, InStop,
         InBatch, flags, disk, writer, caller, blots
<1>25. ASSUME JoinClients PROVE WriterInv'
  BY <1>0, <1>25
     DEF JoinClients, CallInv, OpTypes, Places, Opening, OneCall, FileFollows, WriterInv,
         WriterApart, NothingLost, Goto, Call, Callers, Ending, InStart, InStop,
         InBatch, flags, disk, writer, caller, blots
<1>26. ASSUME Destroy PROVE WriterInv'
  BY <1>0, <1>26
     DEF Destroy, closeFile, CallInv, OpTypes, Places, Opening, OneCall, FileFollows, WriterInv,
         WriterApart, NothingLost, Goto, Call, Callers, Ending, InStart, InStop,
         InBatch, flags, disk, writer, caller, blots
<1>27. CASE UNCHANGED vars
  BY <1>0, <1>27
     DEF vars, CallInv, OpTypes, Places, Opening, OneCall, FileFollows, WriterInv,
         WriterApart, NothingLost, Goto, Call, Callers, Ending, InStart, InStop,
         InBatch, flags, disk, writer, caller, blots
<1> QED
  BY <1>1, <1>2, <1>3, <1>4, <1>5, <1>6, <1>7, <1>8, <1>9, <1>10, <1>11, <1>12, <1>13, <1>14, <1>15, <1>16, <1>17, <1>18, <1>19, <1>20, <1>21, <1>22, <1>23, <1>24, <1>25, <1>26, <1>27
     DEF Next, threadMain, Caller

(* CallInv and WriterInv hold in every state.                              *)
LEMMA InvsAlways == Spec => [](CallInv /\ WriterInv)
<1>1. Init => CallInv /\ WriterInv
  BY DEF Init, CallInv, OpTypes, Places, OneCall, NoCallAtEnd, FileFollows,
     RaggedTells, WriterInv, WriterApart, NothingLost, Callers, Opening, Ending,
     InStart, InStop
<1> QED BY <1>1, CallInvHolds, WriterInvHolds, PTL DEF Spec

(* For any number of clients and of recordings: a recording that is active *)
(* has its file, with all columns.                                         *)
THEOREM FileOfActive == Spec => []ActiveHasFile
<1>1. CallInv => ActiveHasFile
  BY DEF CallInv, FileFollows, ActiveHasFile
<1> QED BY <1>1, InvsAlways, PTL

(* The writer never indexes columns that start() is still appending.       *)
THEOREM FileIsBuilt == Spec => []WritesBuiltFile
<1>1. WriterInv => WritesBuiltFile
  BY DEF WriterInv, WriterApart, WritesBuiltFile
<1> QED BY <1>1, InvsAlways, PTL

(* The rows of a file are consecutive.                                     *)
THEOREM NoGapInRows == Spec => []NoHole
<1>1. WriterInv => NoHole
  BY DEF WriterInv, NothingLost, NoHole
<1> QED BY <1>1, InvsAlways, PTL

(* A file is closed, or replaced, with columns of the same length.         *)
THEOREM ClosedWhole == Spec => ClosesWhole
<1>1. CallInv /\ WriterInv /\ [Next]_vars
        => (file' # file /\ ~overlapped /\ ~stale => ~ragged \/ gaveUp)
  <2> SUFFICES ASSUME CallInv, WriterInv, Next, file' # file, ~overlapped, ~stale
               PROVE  ~ragged \/ gaveUp
    BY DEF vars, disk
  <2>1. CASE w \notin InBatch
    BY <2>1 DEF CallInv, RaggedTells, InBatch
  <2>2. CASE w \in InBatch
    <3>1. PICK c \in Callers : CreateFile(c) \/ CreateColumns(c)
      BY <2>2 DEF Next, push, StopServer, JoinClients, Destroy, record_start,
         record_stop, Caller, CheckStart, Announce, Arm, Activate, Halt, Clear,
         WaitDrained, Close, Off, closeFile, threadMain, Look, Drain, popBatch,
         Filter, Seen, WriteFirst, WriteRest, Failed, Flush, disk
    <3>2. op[c] \in Opening
      BY <3>1 DEF CreateFile, CreateColumns, Opening, InStart
    <3> QED BY <2>2, <3>2 DEF WriterInv, WriterApart, InBatch
  <2> QED BY <2>1, <2>2
<1> QED BY <1>1, InvsAlways, PTL DEF Spec, ClosesWhole

(* A file is replaced only after it was closed or given up.                *)
THEOREM ClosedFirst == Spec => ClosedBeforeNext
<1>1. CallInv => ((\E c \in Callers : op[c] = "create" /\ op'[c] # "create")
                    /\ ~overlapped => file = "none" \/ gaveUp)
  <2> SUFFICES ASSUME CallInv, NEW c \in Callers, op[c] = "create", ~overlapped
               PROVE  file = "none" \/ gaveUp
    OBVIOUS
  <2>1. \A d \in Callers : d # c => op[d] \notin InStart \cup InStop
    BY DEF CallInv, OneCall, InStart
  <2> QED BY <2>1 DEF CallInv, FileFollows, Opening, InStart, InStop
<1> QED BY <1>1, InvsAlways, PTL DEF ClosedBeforeNext

-----------------------------------------------------------------------------
(* Type correctness.                                                       *)

Below == {p \in Nat \X Nat : p[1] < p[2]}

(* A set of numbers that is not empty has a least one.                     *)
LEMMA LeastNumber ==
  ASSUME NEW T, T \subseteq Nat, T # {} PROVE \E x \in T : \A y \in T : x <= y
<1>1. IsWellFoundedOn(Below, Nat)
  BY NatLessThanWellFounded, Zenon DEF Below, OpToRel
<1>2. PICK x \in T : \A y \in T : ~ (<<y, x>> \in Below)
  BY <1>1, WFMin, Zenon
<1>3. \A y \in Nat : y < x => <<y, x>> \in Below
  BY DEF Below
<1>4. \A y \in T : ~ (y < x)
  BY <1>2, <1>3
<1> QED BY <1>4

(* Recordings are numbers, so that they can be compared.                   *)
LEMMA EraIsNat == Era \subseteq Nat
  BY RecorderAssumption DEF Era

(* The residue of a batch is a prefix, and behind it comes a sample of the *)
(* recording.                                                              *)
LEMMA ResidueIsPrefix ==
  ASSUME NEW b \in Seq(Era), epoch \in Nat
  PROVE  /\ Residue(b) \in 0 .. Len(b)
         /\ Residue(b) < Len(b) => b[Residue(b) + 1] >= epoch
<1> DEFINE Of(n) == /\ \A i \in 1 .. n : b[i] < epoch
                    /\ n < Len(b) => b[n + 1] >= epoch
<1>0. Len(b) \in Nat /\ \A i \in 1 .. Len(b) : b[i] \in Nat
  <2>1. \A i \in 1 .. Len(b) : b[i] \in Era
    OBVIOUS
  <2>2. Len(b) \in Nat
    OBVIOUS
  <2> QED BY <2>1, <2>2, EraIsNat, Zenon
<1>1. \E n \in 0 .. Len(b) : Of(n)
  <2> DEFINE T == {i \in 1 .. Len(b) : b[i] >= epoch}
  <2>1. CASE T = {}
    <3>1. Of(Len(b))
      BY <1>0, <2>1
    <3> QED BY <1>0, <3>1
  <2>2. CASE T # {}
    <3>1. T \subseteq Nat
      BY <1>0
    <3>2. PICK x \in T : \A y \in T : x <= y
      BY <2>2, <3>1, LeastNumber
    <3>3. Of(x - 1) /\ x - 1 \in 0 .. Len(b)
      BY <1>0, <3>2
    <3> QED BY <3>3
  <2> QED BY <2>1, <2>2
<1> HIDE DEF Of
<1>2. Residue(b) = CHOOSE n \in 0 .. Len(b) : Of(n)
  BY DEF Residue, Of
<1>3. Residue(b) \in 0 .. Len(b) /\ Of(Residue(b))
  BY <1>1, <1>2
<1> QED BY <1>3 DEF Of

(* What the steps do to the two queues.                                    *)
QueueTypes == era \in Era /\ epoch \in Era /\ ring \in Seq(Era)
                /\ batch \in Seq(Era) /\ arg \in [Callers -> Era]

(* What popBatch leaves in the ring and in the batch.                      *)
LEMMA PopBatchDoes ==
  ASSUME QueueTypes, popBatch
  PROVE  /\ Taken \in 0 .. Len(ring) /\ Len(batch') = Taken
         /\ ring' \in Seq(Era) /\ batch' \in Seq(Era)
         /\ Len(ring') = Len(ring) - Taken
         /\ \A i \in 1 .. Len(batch') : batch'[i] = ring[i]
         /\ \A i \in 1 .. Len(ring') : ring'[i] = ring[i + Taken]
<1>1. /\ ring \in Seq(Era) /\ Len(ring) \in Nat
      /\ \A i \in 1 .. Len(ring) : ring[i] \in Era
  BY DEF QueueTypes
<1>2. Taken \in 0 .. Len(ring)
  BY <1>1, RecorderAssumption DEF Taken
<1>3. batch' = SubSeq(ring, 1, Taken) /\ ring' = SubSeq(ring, Taken + 1, Len(ring))
  BY DEF popBatch
<1>4. /\ batch' \in Seq(Era) /\ Len(batch') = Taken
      /\ \A i \in 1 .. Taken : batch'[i] = ring[i]
  BY <1>1, <1>2, <1>3, SubSeqProperties
<1>5. /\ ring' \in Seq(Era) /\ Len(ring') = Len(ring) - Taken
      /\ \A i \in 1 .. Len(ring) - Taken : ring'[i] = ring[i + Taken]
  BY <1>1, <1>2, <1>3, SubSeqProperties
<1> QED BY <1>2, <1>4, <1>5

(* The filter takes a prefix of the batch away and leaves the rest.        *)
LEMMA FilterDoes ==
  ASSUME QueueTypes, Filter
  PROVE  /\ Skipped \in 0 .. Len(batch)
         /\ Skipped < Len(batch) /\ fresh => batch[Skipped + 1] >= epoch
         /\ ~fresh => Skipped = 0
         /\ batch' \in Seq(Era) /\ Len(batch') = Len(batch) - Skipped
         /\ \A i \in 1 .. Len(batch') : batch'[i] = batch[i + Skipped]
<1>1. /\ batch \in Seq(Era) /\ Len(batch) \in Nat
      /\ \A i \in 1 .. Len(batch) : batch[i] \in Era
      /\ epoch \in Nat
  BY EraIsNat DEF QueueTypes
<1>3. /\ Residue(batch) \in 0 .. Len(batch)
      /\ Residue(batch) < Len(batch) => batch[Residue(batch) + 1] >= epoch
  BY <1>1, ResidueIsPrefix
<1>4. Skipped < Len(batch) /\ fresh => batch[Skipped + 1] >= epoch
  <2>0. Len(batch) > 0 => batch[1] \in Era
    BY <1>1
  <2>1. Len(batch) > 0 => batch[1] \in Nat
    BY <2>0, EraIsNat, Zenon
  <2> QED BY <1>1, <1>3, <2>1 DEF Skipped
<1>5. Skipped \in 0 .. Len(batch) /\ (~fresh => Skipped = 0)
  BY <1>1, <1>3 DEF Skipped
<1>6. batch' = SubSeq(batch, Skipped + 1, Len(batch))
  BY DEF Filter
<1>7. /\ batch' \in Seq(Era) /\ Len(batch') = Len(batch) - Skipped
      /\ \A i \in 1 .. Len(batch) - Skipped : batch'[i] = batch[i + Skipped]
  BY <1>1, <1>5, <1>6, SubSeqProperties
<1> QED BY <1>4, <1>5, <1>7

(* The samples in the ring, and before them those in the batch, are in the *)
(* order they were produced in, and no recording begins in the future.     *)
Rising(s) == \A i, j \in 1 .. Len(s) : i <= j => s[i] <= s[j]

OrderInv ==
  /\ QueueTypes /\ Rising(ring) /\ Rising(batch)
  /\ \A i \in 1 .. Len(ring) : ring[i] <= era
  /\ \A i \in 1 .. Len(batch) : \A j \in 1 .. Len(ring) : batch[i] <= ring[j]
  /\ \A i \in 1 .. Len(batch) : batch[i] <= era
  /\ epoch <= era /\ \A c \in Callers : arg[c] <= era

(* A part of a rising sequence rises.                                      *)
LEMMA SuffixRises ==
  ASSUME NEW s, NEW u, Len(s) \in Nat, NEW k \in 0 .. Len(s),
         Len(u) = Len(s) - k, \A i \in 1 .. Len(u) : u[i] = s[i + k], Rising(s)
  PROVE  Rising(u)
<1> SUFFICES ASSUME NEW i \in 1 .. Len(u), NEW j \in 1 .. Len(u), i <= j
             PROVE  u[i] <= u[j]
  BY DEF Rising
<1>1. i + k \in 1 .. Len(s) /\ j + k \in 1 .. Len(s) /\ i + k <= j + k
  OBVIOUS
<1>2. s[i + k] <= s[j + k]
  BY <1>1 DEF Rising
<1> QED BY <1>2

(* OrderInv is inductive.                                                  *)
LEMMA OrderInvHolds == OrderInv /\ [Next]_vars => OrderInv'
<1> SUFFICES ASSUME OrderInv, [Next]_vars PROVE OrderInv'
  OBVIOUS
<1>0. /\ QueueTypes /\ Era \subseteq Nat /\ ring \in Seq(Era) /\ batch \in Seq(Era)
      /\ Len(ring) \in Nat /\ Len(batch) \in Nat /\ era \in Nat
  BY EraIsNat DEF OrderInv, QueueTypes
<1>v. /\ \A i \in 1 .. Len(ring) : ring[i] \in Nat
      /\ \A i \in 1 .. Len(batch) : batch[i] \in Nat
  <2>1. \A i \in 1 .. Len(ring) : ring[i] \in Era
    BY <1>0
  <2>2. \A i \in 1 .. Len(batch) : batch[i] \in Era
    BY <1>0
  <2> QED BY <1>0, <2>1, <2>2
<1>1. CASE push
  <2>1. /\ ring' \in Seq(Era) /\ Len(ring') = Len(ring) + 1
        /\ \A i \in 1 .. Len(ring) : ring'[i] = ring[i]
        /\ ring'[Len(ring) + 1] = era
    BY <1>0, <1>1, AppendProperties DEF push, OrderInv, QueueTypes
  <2>2. UNCHANGED <<era, epoch, batch, arg>>
    BY <1>1 DEF push, disk, writer, caller
  <2>3. Rising(ring)'
    BY <1>0, <2>1 DEF OrderInv, Rising
  <2>4. \A i \in 1 .. Len(batch) : \A j \in 1 .. Len(ring') : batch[i] <= ring'[j]
    BY <1>0, <2>1 DEF OrderInv
  <2>5. \A i \in 1 .. Len(ring') : ring'[i] <= era
    BY <1>0, <2>1 DEF OrderInv
  <2> QED BY <2>1, <2>2, <2>3, <2>4, <2>5 DEF OrderInv, QueueTypes, Rising
<1>2. CASE popBatch
  <2>1. /\ Taken \in 0 .. Len(ring) /\ Len(batch') = Taken
        /\ ring' \in Seq(Era) /\ batch' \in Seq(Era)
        /\ Len(ring') = Len(ring) - Taken
        /\ \A i \in 1 .. Len(batch') : batch'[i] = ring[i]
        /\ \A i \in 1 .. Len(ring') : ring'[i] = ring[i + Taken]
    BY <1>0, <1>2, PopBatchDoes
  <2>2. UNCHANGED <<era, epoch, arg>>
    BY <1>2 DEF popBatch, disk, caller
  <2>3. Rising(ring')
    BY <1>0, <2>1, SuffixRises DEF OrderInv
  <2>4. Rising(batch')
    <3> SUFFICES ASSUME NEW i \in 1 .. Len(batch'), NEW j \in 1 .. Len(batch'),
                        i <= j
                 PROVE  batch'[i] <= batch'[j]
      BY DEF Rising
    <3>1. i \in 1 .. Len(ring) /\ j \in 1 .. Len(ring)
      BY <1>0, <2>1
    <3>2. ring[i] <= ring[j]
      BY <3>1 DEF OrderInv, Rising
    <3> QED BY <2>1, <3>2
  <2>5. \A j \in 1 .. Len(ring') : j + Taken \in 1 .. Len(ring)
    BY <1>0, <2>1
  <2>6. \A i \in 1 .. Len(batch') : i \in 1 .. Len(ring)
    BY <1>0, <2>1
  <2>7. /\ \A i \in 1 .. Len(ring') : ring'[i] <= era
        /\ \A i \in 1 .. Len(batch') : batch'[i] <= era
    BY <2>1, <2>5, <2>6 DEF OrderInv
  <2>8. \A i \in 1 .. Len(batch') : \A j \in 1 .. Len(ring') :
          batch'[i] <= ring'[j]
    <3> SUFFICES ASSUME NEW i \in 1 .. Len(batch'), NEW j \in 1 .. Len(ring')
                 PROVE  batch'[i] <= ring'[j]
      OBVIOUS
    <3>1. i <= j + Taken
      BY <1>0, <2>1
    <3>2. ring[i] <= ring[j + Taken]
      BY <2>5, <2>6, <3>1 DEF OrderInv, Rising
    <3> QED BY <2>1, <3>2
  <2> QED BY <2>1, <2>2, <2>3, <2>4, <2>7, <2>8 DEF OrderInv, QueueTypes, Rising
<1>3. CASE Filter
  <2>1. /\ Skipped \in 0 .. Len(batch)
        /\ batch' \in Seq(Era) /\ Len(batch') = Len(batch) - Skipped
        /\ \A i \in 1 .. Len(batch') : batch'[i] = batch[i + Skipped]
    BY <1>0, <1>3, FilterDoes
  <2>2. UNCHANGED <<era, epoch, arg, ring>>
    BY <1>3 DEF Filter, disk, caller
  <2>3. Rising(batch')
    BY <1>0, <2>1, SuffixRises DEF OrderInv
  <2>5. \A i \in 1 .. Len(batch') : i + Skipped \in 1 .. Len(batch)
    BY <1>0, <2>1
  <2>4. /\ \A i \in 1 .. Len(batch') : batch'[i] <= era
        /\ \A i \in 1 .. Len(batch') : \A j \in 1 .. Len(ring) :
             batch'[i] <= ring[j]
    BY <2>1, <2>5 DEF OrderInv
  <2> QED BY <2>1, <2>2, <2>3, <2>4 DEF OrderInv, QueueTypes, Rising
<1>4. CASE Drain \/ Seen \/ WriteFirst \/ WriteRest
  <2>1. /\ UNCHANGED <<era, epoch, arg>>
        /\ ring' = ring \/ ring' = <<>>
        /\ batch' = batch \/ batch' = <<>>
    BY <1>4 DEF Drain, Seen, WriteFirst, WriteRest, GiveUp, disk, writer, caller
  <2>0. <<>> \in Seq(Era)
    OBVIOUS
  <2>2. ring' \in Seq(Era) /\ batch' \in Seq(Era)
    BY <1>0, <2>0, <2>1, Zenon
  <2> QED BY <2>1, <2>2 DEF OrderInv, QueueTypes, Rising
<1>5. CASE \E c \in Callers : record_start(c) \/ CheckStart(c)
  <2>1. PICK c \in Callers : record_start(c) \/ CheckStart(c)
    BY <1>5
  <2>2. /\ UNCHANGED <<ring, batch>> /\ era' \in Era /\ era <= era'
        /\ epoch' \in {epoch, arg[c]} /\ arg' \in [Callers -> Era]
        /\ \A d \in Callers : arg'[d] \in {arg[d], era'}
    BY <1>0, <2>1, RecorderAssumption
       DEF record_start, CheckStart, disk, writer, QueueTypes, Era
  <2>5. arg[c] \in Era /\ arg[c] <= era /\ epoch <= era /\ era' \in Nat
    BY <1>0, <2>2 DEF OrderInv, QueueTypes
  <2>6. epoch' \in Era /\ epoch' <= era'
    BY <1>0, <2>2, <2>5 DEF QueueTypes
  <2>7. \A d \in Callers : arg[d] \in Nat /\ arg[d] <= era
    BY <1>0 DEF OrderInv, QueueTypes
  <2>3. epoch' \in Era /\ epoch' <= era' /\ \A d \in Callers : arg'[d] <= era'
    BY <1>0, <2>2, <2>5, <2>6, <2>7
  <2>4. /\ \A i \in 1 .. Len(ring) : ring[i] <= era'
        /\ \A i \in 1 .. Len(batch) : batch[i] <= era'
    BY <1>0, <1>v, <2>2 DEF OrderInv
  <2> QED BY <2>2, <2>3, <2>4 DEF OrderInv, QueueTypes, Rising
<1>6. CASE UNCHANGED <<era, epoch, arg, ring, batch>>
  BY <1>6 DEF OrderInv, QueueTypes, Rising
<1>7. ASSUME NEW c \in Callers, record_stop(c) \/ (Caller(c) /\ ~CheckStart(c))
      PROVE  UNCHANGED <<era, epoch, arg, ring, batch>>
  BY <1>7 DEF record_stop, Caller, CreateFile, CreateColumns, Announce, Arm,
     Activate, Halt, Clear, WaitDrained, Close, Off, closeFile, disk, writer,
     caller
<1>8. ASSUME \/ Look \/ Failed \/ Flush \/ StopServer \/ JoinClients \/ Destroy
             \/ UNCHANGED vars
      PROVE  UNCHANGED <<era, epoch, arg, ring, batch>>
  BY <1>8 DEF Look, Failed, Flush, StopServer, JoinClients, Destroy, vars,
     closeFile, disk, writer, caller
<1> QED
  BY <1>1, <1>2, <1>3, <1>4, <1>5, <1>6, <1>7, <1>8 DEF Next, threadMain

-----------------------------------------------------------------------------
(* Nothing older than the recording.                                       *)

(* A batch that was filtered begins with a sample of the recording; once   *)
(* fresh_start_ is clear there is nothing older any more.                  *)
InRound == {"enter", "filter", "seen", "first", "rest"}

ResidueInv ==
  ~overlapped /\ ~stale =>
    /\ w \in {"seen", "first", "rest"} => Len(batch) > 0 /\ batch[1] >= epoch
    /\ w = "filter" => Len(batch) > 0
    /\ ~fresh /\ (active \/ w \in InRound)
         => \A i \in 1 .. Len(ring) : ring[i] >= epoch
    /\ ~fresh /\ w = "filter" => \A i \in 1 .. Len(batch) : batch[i] >= epoch

(* ResidueInv is inductive, relative to the order of the queue.            *)
LEMMA ResidueInvHolds ==
  CallInv /\ WriterInv /\ OrderInv /\ ResidueInv /\ [Next]_vars => ResidueInv'
<1> SUFFICES ASSUME CallInv, WriterInv, OrderInv, ResidueInv, [Next]_vars,
                    ~overlapped', ~stale'
             PROVE  ResidueInv'
  BY DEF ResidueInv
<1>0. ~overlapped /\ ~stale
  <2>1. ASSUME NEW c \in Callers, record_start(c) \/ record_stop(c)
        PROVE  ~overlapped /\ ~stale
    <3>1. /\ overlapped' = (overlapped \/ \E o \in Callers \ {c} :
                                           op[o] \in InStart \cup InStop)
          /\ UNCHANGED stale
      BY <2>1, Zenon DEF record_start, record_stop, Call
    <3> QED BY <3>1, Zenon
  <2>2. ASSUME NEW c \in Callers, Caller(c) PROVE ~overlapped /\ ~stale
    <3>1. CASE CheckStart(c)
      <4>1. stale' = stale \/ stale' = (stale \/ w \notin {"top", "drain"})
        BY <3>1, Zenon DEF CheckStart
      <4>2. ~overlapped
        BY <3>1 DEF CheckStart
      <4>3. stale' = stale => ~stale
        OBVIOUS
      <4>4. stale' = (stale \/ w \notin {"top", "drain"}) => ~stale
        BY Zenon
      <4> QED BY <4>1, <4>2, <4>3, <4>4
    <3>2. CASE ~CheckStart(c)
      BY <2>2, <3>2 DEF Caller, CreateFile, CreateColumns, Announce, Arm,
         Activate, Halt, Clear, WaitDrained, Close, Off, blots
    <3> QED BY <3>1, <3>2
  <2>3. ASSUME \/ push \/ threadMain \/ StopServer \/ JoinClients \/ Destroy
               \/ UNCHANGED vars
        PROVE  ~overlapped /\ ~stale
    BY <2>3 DEF push, StopServer, JoinClients, Destroy, threadMain, Look, Drain,
       popBatch, Filter, Seen, WriteFirst, WriteRest, Failed, Flush, vars, blots
  <2> QED BY <2>1, <2>2, <2>3 DEF Next
<1>1. /\ QueueTypes /\ ring \in Seq(Era) /\ batch \in Seq(Era) /\ era \in Nat
      /\ epoch \in Nat /\ epoch <= era /\ Len(ring) \in Nat /\ Len(batch) \in Nat
  BY EraIsNat DEF OrderInv, QueueTypes
<1>2. CASE push
  <2>1. /\ Len(ring') = Len(ring) + 1
        /\ \A i \in 1 .. Len(ring) : ring'[i] = ring[i]
        /\ ring'[Len(ring) + 1] = era
    BY <1>1, <1>2, AppendProperties DEF push, QueueTypes
  <2>2. UNCHANGED <<epoch, batch, w, fresh, active>>
    BY <1>2 DEF push, flags, disk, writer
  <2> QED BY <1>0, <1>1, <2>1, <2>2 DEF ResidueInv
<1>3. CASE popBatch
  <2>1. /\ Taken \in 0 .. Len(ring) /\ Len(batch') = Taken
        /\ Len(ring') = Len(ring) - Taken
        /\ \A i \in 1 .. Len(batch') : batch'[i] = ring[i]
        /\ \A i \in 1 .. Len(ring') : ring'[i] = ring[i + Taken]
    BY <1>1, <1>3, PopBatchDoes
  <2>2. /\ UNCHANGED <<epoch, fresh, active>> /\ w = "enter"
        /\ w' = IF Taken = 0 THEN "flush" ELSE "filter"
    BY <1>3 DEF popBatch, flags, disk
  <2>3. ASSUME ~fresh PROVE \A i \in 1 .. Len(ring) : ring[i] >= epoch
    BY <1>0, <2>2, <2>3 DEF ResidueInv, InRound
  <2>4. /\ \A i \in 1 .. Len(ring') : i + Taken \in 1 .. Len(ring)
        /\ \A i \in 1 .. Len(batch') : i \in 1 .. Len(ring)
    BY <1>1, <2>1
  <2>5. ASSUME ~fresh
        PROVE  /\ \A i \in 1 .. Len(ring') : ring'[i] >= epoch
               /\ \A i \in 1 .. Len(batch') : batch'[i] >= epoch
    BY <2>1, <2>3, <2>4, <2>5
  <2> QED BY <1>1, <2>1, <2>2, <2>5 DEF ResidueInv
<1>4. CASE Filter
  <2>1. /\ Skipped \in 0 .. Len(batch)
        /\ Skipped < Len(batch) /\ fresh => batch[Skipped + 1] >= epoch
        /\ ~fresh => Skipped = 0
        /\ Len(batch') = Len(batch) - Skipped
        /\ \A i \in 1 .. Len(batch') : batch'[i] = batch[i + Skipped]
    BY <1>1, <1>4, FilterDoes
  <2>2. /\ UNCHANGED <<epoch, ring, fresh, active>> /\ w = "filter"
        /\ w' = IF Skipped < Len(batch) THEN "seen" ELSE "flush"
    BY <1>4 DEF Filter, flags, disk
  <2>3. Skipped < Len(batch) => Len(batch') > 0 /\ batch'[1] = batch[Skipped + 1]
    BY <1>1, <2>1
  <2>4. Skipped < Len(batch) => batch[Skipped + 1] >= epoch
    <3>1. CASE fresh
      BY <2>1, <3>1
    <3>2. CASE ~fresh
      BY <1>0, <1>1, <2>1, <2>2, <3>2 DEF ResidueInv
    <3> QED BY <3>1, <3>2
  <2>5. ~fresh => \A i \in 1 .. Len(ring) : ring[i] >= epoch
    BY <1>0, <2>2 DEF ResidueInv, InRound
  <2> QED BY <2>2, <2>3, <2>4, <2>5 DEF ResidueInv
<1>5. CASE Seen
  <2>1. /\ UNCHANGED <<epoch, ring, active>> /\ w = "seen" /\ ~fresh'
        /\ \/ w' = "flush"
           \/ w' = "first" /\ batch' = batch
    BY <1>5 DEF Seen, disk
  <2>2. Len(batch) > 0 /\ batch[1] >= epoch
    BY <1>0, <2>1 DEF ResidueInv
  <2>3. \A i \in 1 .. Len(ring) : ring[i] >= epoch
    <3> SUFFICES ASSUME NEW i \in 1 .. Len(ring) PROVE ring[i] >= epoch
      OBVIOUS
    <3>1. batch[1] <= ring[i]
      BY <1>1, <2>2 DEF OrderInv
    <3>2. batch[1] \in Era /\ ring[i] \in Era
      BY <1>1, <2>2
    <3>3. batch[1] \in Nat /\ ring[i] \in Nat
      BY <3>2, EraIsNat, Zenon
    <3> QED BY <1>1, <2>2, <3>1, <3>3
  <2> QED BY <2>1, <2>2, <2>3 DEF ResidueInv
<1>6. CASE Drain
  <2>1. ring' = <<>> /\ w' = "top"
    BY <1>6 DEF Drain
  <2> QED BY <2>1 DEF ResidueInv
<1>7. CASE Look \/ WriteFirst \/ WriteRest \/ Failed \/ Flush
  <2>1. /\ UNCHANGED <<epoch, ring, fresh>> /\ (active' => active)
        /\ w' \in {"enter", "first", "rest"} =>
             /\ batch' = batch
             /\ \/ active /\ w' = "enter"
                \/ w = "first" /\ w' = "rest"
        /\ w' \notin {"seen", "filter", "first"}
    BY <1>7 DEF Look, WriteFirst, WriteRest, GiveUp, Failed, Flush, flags, disk
  <2> QED BY <1>0, <2>1 DEF ResidueInv, InRound
<1>8. ASSUME NEW c \in Callers,
             \/ CheckStart(c) \/ Arm(c) \/ Activate(c)
      PROVE  ResidueInv'
  <2>1. UNCHANGED <<ring, batch, w>>
    BY <1>8 DEF CheckStart, Arm, Activate, writer
  <2>2. CASE CheckStart(c)
    <3>1. /\ UNCHANGED <<fresh, active>>
          /\ \/ epoch' = epoch
             \/ ~active /\ w \in {"top", "drain"}
      BY <1>0, <2>2 DEF CheckStart, flags
    <3> QED BY <1>0, <2>1, <3>1 DEF ResidueInv, InRound
  <2>3. CASE Arm(c)
    <3>1. fresh' /\ UNCHANGED epoch
      BY <2>3 DEF Arm, disk
    <3> QED BY <1>0, <2>1, <3>1 DEF ResidueInv
  <2>4. CASE Activate(c)
    <3>1. fresh /\ UNCHANGED <<fresh, epoch>>
      BY <1>0, <2>4 DEF Activate, WriterInv, WriterApart, disk
    <3> QED BY <1>0, <2>1, <3>1 DEF ResidueInv
  <2> QED BY <1>8, <2>2, <2>3, <2>4
<1>9. ASSUME \/ \E c \in Callers :
                  \/ record_start(c) \/ record_stop(c)
                  \/ /\ Caller(c)
                     /\ ~CheckStart(c) /\ ~Arm(c) /\ ~Activate(c)
             \/ StopServer \/ JoinClients \/ Destroy \/ UNCHANGED vars
      PROVE  ResidueInv'
  <2>1. UNCHANGED <<ring, batch, w, fresh, epoch>> /\ (active' => active)
    BY <1>9 DEF record_start, record_stop, Caller, CreateFile, CreateColumns,
       Announce, Halt, Clear, WaitDrained, Close, Off, closeFile, StopServer,
       JoinClients, Destroy, vars, flags, disk, writer
  <2> QED BY <1>0, <2>1 DEF ResidueInv
<1> QED
  BY <1>2, <1>3, <1>4, <1>5, <1>6, <1>7, <1>8, <1>9 DEF Next, threadMain

(* OrderInv holds in every state.                                          *)
LEMMA OrderAlways == Spec => []OrderInv
<1>1. Init => OrderInv
  <2> SUFFICES ASSUME Init PROVE OrderInv
    OBVIOUS
  <2>1. 0 \in Era
    BY RecorderAssumption DEF Era
  <2>2. QueueTypes
    BY <2>1 DEF Init, QueueTypes
  <2> QED BY <2>2 DEF Init, OrderInv, Rising
<1> QED BY <1>1, OrderInvHolds, PTL DEF Spec

(* For any number of recordings and samples: no sample that is older than  *)
(* the recording gets into its file.                                       *)
THEOREM NothingOlder == Spec => []NoResidue
<1>1. Init => ResidueInv
  BY DEF Init, ResidueInv, InRound
<1>2. Spec => []ResidueInv
  BY <1>1, InvsAlways, OrderAlways, ResidueInvHolds, PTL DEF Spec
<1>3. OrderInv /\ ResidueInv => NoResidue
  <2> SUFFICES ASSUME OrderInv, ResidueInv, w = "first", ~overlapped, ~stale,
                      NEW i \in 1 .. Len(batch)
               PROVE  batch[i] >= epoch
    BY DEF NoResidue
  <2>1. /\ batch \in Seq(Era) /\ epoch \in Nat /\ Len(batch) \in Nat
        /\ Len(batch) > 0 /\ batch[1] >= epoch
    BY EraIsNat DEF OrderInv, QueueTypes, ResidueInv
  <2>2. batch[1] <= batch[i]
    BY <2>1 DEF OrderInv, Rising
  <2>3. batch[1] \in Era /\ batch[i] \in Era
    BY <2>1
  <2>4. batch[1] \in Nat /\ batch[i] \in Nat
    BY <2>3, EraIsNat, Zenon
  <2> QED BY <2>1, <2>2, <2>4
<1> QED BY <1>2, <1>3, OrderAlways, PTL

-----------------------------------------------------------------------------
(* The types of the rest.                                                  *)

EnumTypes ==
  /\ file \in {"none", "building", "ready"}
  /\ rows \in {"none", "some", "lost"}
  /\ w \in {"top", "drain", "enter", "flush", "gone"} \cup InBatch
  /\ waits \in [Callers -> 0 .. MaxWaits]

FlagTypes ==
  /\ active \in BOOLEAN /\ fresh \in BOOLEAN /\ st \in BOOLEAN
  /\ ragged \in BOOLEAN /\ gaveUp \in BOOLEAN
  /\ quit \in BOOLEAN /\ overlapped \in BOOLEAN /\ stale \in BOOLEAN

(* The types of the program counters and flags are inductive.              *)
LEMMA EnumTypesHold == EnumTypes /\ [Next]_vars => EnumTypes'
<1> SUFFICES ASSUME EnumTypes, [Next]_vars PROVE EnumTypes'
  OBVIOUS
<1>1. ASSUME NEW c \in Callers, WaitDrained(c) PROVE EnumTypes'
  <2>1. \/ waits[c] < MaxWaits /\ waits' = [waits EXCEPT ![c] = waits[c] + 1]
        \/ waits' = [waits EXCEPT ![c] = 0]
    BY <1>1 DEF WaitDrained
  <2>2. waits[c] \in 0 .. MaxWaits
    BY DEF EnumTypes
  <2>3. waits' \in [Callers -> 0 .. MaxWaits]
    BY <2>1, <2>2, RecorderAssumption DEF EnumTypes
  <2> QED BY <1>1, <2>3 DEF EnumTypes, WaitDrained, disk, writer
<1>2. ASSUME NEW c \in Callers,
             record_start(c) \/ record_stop(c) \/ (Caller(c) /\ ~WaitDrained(c))
      PROVE  EnumTypes'
  BY <1>2 DEF record_start, record_stop, Caller, CheckStart, CreateFile,
     CreateColumns, Announce, Arm, Activate, Halt, Clear, Close, closeFile, Off,
     disk, writer, caller, EnumTypes
<1>3. ASSUME threadMain PROVE EnumTypes'
  BY <1>3 DEF threadMain, Look, Drain, popBatch, Filter, Seen, WriteFirst,
     WriteRest, GiveUp, Failed, Flush, disk, caller, EnumTypes, InBatch
<1>4. ASSUME push \/ StopServer \/ JoinClients \/ Destroy \/ UNCHANGED vars
      PROVE  EnumTypes'
  BY <1>4 DEF push, StopServer, JoinClients, Destroy, closeFile, vars, disk,
     writer, caller, EnumTypes
<1> QED BY <1>1, <1>2, <1>3, <1>4 DEF Next

(* A flag is left alone or set; a history becomes true.                    *)
LEMMA FlagTypesHold == FlagTypes /\ [Next]_vars => FlagTypes'
<1> SUFFICES ASSUME FlagTypes, [Next]_vars PROVE FlagTypes'
  OBVIOUS
<1> DEFINE Set(a, b) == b = a \/ b = TRUE \/ b = FALSE
           Flags == /\ Set(active, active') /\ Set(fresh, fresh')
                    /\ Set(st, st') /\ Set(ragged, ragged')
                    /\ Set(gaveUp, gaveUp') /\ Set(quit, quit')
           Histories == Set(overlapped, overlapped') /\ Set(stale, stale')
<1>1. ASSUME NEW c \in Callers, Caller(c) \/ record_start(c) \/ record_stop(c)
      PROVE  Flags
  BY <1>1 DEF record_start, record_stop, Caller, CheckStart, CreateFile,
     CreateColumns, Announce, Arm, Activate, Halt, Clear, WaitDrained, Close,
     closeFile, Off, flags, disk
<1>2. ASSUME \/ push \/ StopServer \/ JoinClients \/ Destroy \/ threadMain
             \/ UNCHANGED vars
      PROVE  Flags /\ Histories
  <2>1. CASE threadMain
    BY <2>1 DEF threadMain, Look, Drain, popBatch, Filter, Seen, WriteFirst,
     WriteRest, GiveUp, Failed, Flush, disk, flags, blots
  <2>2. CASE push \/ StopServer \/ JoinClients \/ Destroy \/ UNCHANGED vars
    BY <2>2 DEF push, StopServer, JoinClients, Destroy, closeFile, vars, disk,
       flags, blots
  <2> QED BY <1>2, <2>1, <2>2
<1>3. ASSUME NEW c \in Callers, Caller(c) /\ ~CheckStart(c) PROVE Histories
  BY <1>3 DEF Caller, CreateFile, CreateColumns, Announce, Arm, Activate, Halt,
     Clear, WaitDrained, Close, Off, blots
<1>4. ASSUME NEW c \in Callers, CheckStart(c) PROVE Histories
  <2>1. overlapped' = overlapped
    BY <1>4 DEF CheckStart
  <2>2. stale' = stale \/ stale' = (stale \/ w \notin {"top", "drain"})
    BY <1>4, Zenon DEF CheckStart
  <2>3. Set(stale, stale')
    BY <2>2, Zenon DEF FlagTypes
  <2> QED BY <2>1, <2>3
<1>5. ASSUME NEW c \in Callers, record_start(c) \/ record_stop(c) PROVE Histories
  <2>1. overlapped' = (overlapped \/ \E o \in Callers \ {c} :
                                       op[o] \in InStart \cup InStop)
    BY <1>5, Zenon DEF record_start, record_stop, Call
  <2>2. Set(overlapped, overlapped')
    BY <2>1, Zenon DEF FlagTypes
  <2> QED BY <1>5, <2>2 DEF record_start, record_stop
<1>6. Flags /\ Histories
  BY <1>1, <1>2, <1>3, <1>4, <1>5 DEF Next
<1>7. \A a \in BOOLEAN : \A b : Set(a, b) => b \in BOOLEAN
  BY Zenon
<1> HIDE DEF Set
<1>8. active' \in BOOLEAN /\ fresh' \in BOOLEAN /\ st' \in BOOLEAN
  BY <1>6, <1>7, Zenon DEF FlagTypes
<1>9. ragged' \in BOOLEAN /\ gaveUp' \in BOOLEAN /\ quit' \in BOOLEAN
  BY <1>6, <1>7, Zenon DEF FlagTypes
<1>10. overlapped' \in BOOLEAN /\ stale' \in BOOLEAN
  BY <1>6, <1>7, Zenon DEF FlagTypes
<1> QED BY <1>8, <1>9, <1>10 DEF FlagTypes

(* Type correctness, for any number of clients and of recordings.          *)
THEOREM TypeCorrect == Spec => []TypeOK
<1>1. Init => EnumTypes
  BY RecorderAssumption DEF Init, EnumTypes
<1>2. Init => FlagTypes
  BY Zenon DEF Init, FlagTypes
<1>3. Spec => [](FlagTypes /\ EnumTypes)
  BY <1>1, <1>2, FlagTypesHold, EnumTypesHold, PTL DEF Spec
<1>4. CallInv /\ OrderInv /\ FlagTypes /\ EnumTypes => TypeOK
  BY DEF CallInv, OpTypes, Places, OrderInv, QueueTypes, FlagTypes, EnumTypes,
     TypeOK
<1> QED BY <1>3, <1>4, InvsAlways, OrderAlways, PTL

-----------------------------------------------------------------------------
(* The end.                                                                *)

(* quit_ is set once the clients are joined, and then nobody calls; the    *)
(* writer goes only after that, and the file is closed behind it.          *)
EndInv ==
  /\ quit <=> op[Main] \in {"end", "ended"}
  /\ quit => \A c \in Clients : op[c] = "idle"
  /\ w = "gone" => quit
  /\ op[Main] = "ended" => w = "gone" /\ file = "none"

(* EndInv is inductive, relative to CallInv.                               *)
LEMMA EndInvHolds == CallInv /\ EndInv /\ [Next]_vars => EndInv'
<1> SUFFICES ASSUME CallInv, EndInv, [Next]_vars PROVE EndInv'
  OBVIOUS
<1>0. op \in [Callers -> Places] /\ Main \in Callers /\ Main \notin Clients
  BY RecorderAssumption DEF CallInv, OpTypes
<1>1. ASSUME NEW c \in Callers, op[c] = "idle", op[Main] \notin Ending,
             op' = [op EXCEPT ![c] = "check"] \/ op' = [op EXCEPT ![c] = "halt"],
             UNCHANGED <<quit, w, file>>
      PROVE  EndInv'
  BY <1>0, <1>1 DEF EndInv, Ending, Callers
<1>2. ASSUME NEW c \in Callers, record_start(c) \/ record_stop(c)
      PROVE  EndInv'
  BY <1>1, <1>2 DEF record_start, record_stop, Call, Goto, disk, writer
<1>3. ASSUME NEW c \in Callers, Caller(c) PROVE EndInv'
  <2>1. op[c] \in InStart \cup InStop /\ UNCHANGED <<quit, w>>
    BY <1>3 DEF Caller, CheckStart, CreateFile, CreateColumns, Announce, Arm,
       Activate, Halt, Clear, WaitDrained, Close, Off, InStart, InStop, writer
  <2>2. ~quit /\ w # "gone"
    BY <1>0, <2>1 DEF EndInv, InStart, InStop, Callers
  <2>3. \E pc \in InStart \cup InStop \cup {"idle", "ipc"} :
          op' = op \/ op' = [op EXCEPT ![c] = pc]
    BY <1>3 DEF Caller, CheckStart, CreateFile, CreateColumns, Announce, Arm,
       Activate, Halt, Clear, WaitDrained, Close, Off, Goto, AfterStop,
       InStart, InStop
  <2>4. op'[Main] \notin {"end", "ended"}
    BY <1>0, <2>1, <2>2, <2>3 DEF EndInv, InStart, InStop
  <2> QED BY <2>1, <2>2, <2>4 DEF EndInv
<1>4. ASSUME threadMain PROVE EndInv'
  <2>1. UNCHANGED <<op, quit, file>> /\ w # "gone"
    BY <1>4 DEF threadMain, Look, Drain, popBatch, Filter, Seen, WriteFirst,
       WriteRest, GiveUp, Failed, Flush, disk, caller
  <2>2. w' = "gone" => quit
    BY <1>4 DEF threadMain, Look, Drain, popBatch, Filter, Seen, WriteFirst,
       WriteRest, GiveUp, Failed, Flush
  <2> QED BY <2>1, <2>2 DEF EndInv
<1>5. ASSUME push \/ StopServer \/ UNCHANGED vars PROVE EndInv'
  BY <1>0, <1>5 DEF push, StopServer, Goto, EndInv, Callers, vars, disk, writer,
     caller
<1>6. CASE JoinClients
  <2>1. op'[Main] = "end" /\ op[Main] = "join"
        /\ \A c \in Clients : op'[c] = "idle"
    BY <1>0, <1>6 DEF JoinClients, Goto, Callers
  <2>2. quit' = TRUE /\ UNCHANGED w
    BY <1>6 DEF JoinClients, writer
  <2> QED BY <2>1, <2>2 DEF EndInv
<1>7. CASE Destroy
  <2>1. op[Main] = "end" /\ op'[Main] = "ended"
        /\ \A c \in Clients : op'[c] = op[c]
    BY <1>0, <1>7 DEF Destroy, Goto, Callers
  <2>2. w = "gone" /\ file' = "none" /\ UNCHANGED <<quit, w>>
    BY <1>7 DEF Destroy, closeFile, writer
  <2> QED BY <2>1, <2>2 DEF EndInv
<1> QED BY <1>2, <1>3, <1>4, <1>5, <1>6, <1>7 DEF Next

(* For any number of clients and recordings, the safe half of EndsClosed:  *)
(* when the main thread has ended, the writer is gone, the file closed,    *)
(* and no call is under way that could open another; and the writer goes   *)
(* only when it was told to.                                               *)
THEOREM EndIsFinal ==
  Spec => [](/\ w = "gone" => quit
             /\ op[Main] = "ended" => /\ w = "gone" /\ file = "none"
                                      /\ \A c \in Clients : op[c] = "idle")
<1>1. Init => EndInv
  BY DEF Init, EndInv, Callers
<1>2. EndInv =>
        /\ w = "gone" => quit
        /\ op[Main] = "ended" => /\ w = "gone" /\ file = "none"
                                 /\ \A c \in Clients : op[c] = "idle"
  BY DEF EndInv
<1>3. Spec => []CallInv
  BY InvsAlways, PTL
<1> QED BY <1>1, <1>2, <1>3, EndInvHolds, PTL DEF Spec
===============================================================================
