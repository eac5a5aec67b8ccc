------------------------------ MODULE HostProofs ------------------------------
(***************************************************************************)
(* Proofs about the host process, for any number of clients, of starts and *)
(* of moving time.  The inductive invariant HostInv says that the bus      *)
(* actions exclude each other as long as the program is defined, that the  *)
(* phase tells what the kernel does, and, for each place in a bus action,  *)
(* what the realtime thread can be doing there.                            *)
(***************************************************************************)
EXTENDS Host, TLAPS

(* The main thread is one of the threads.                                  *)
LEMMA MainIsThread == Main \in Threads
  BY DEF Threads

-----------------------------------------------------------------------------
(* Type correctness.                                                       *)

(* One step of a saver keeps the types of the store.                       *)
LEMMA StoreKeepsTypes ==
  ASSUME StoreTypeOK, NEW t \in Threads, SaveStep(t) PROVE StoreTypeOK'
<1>1. CASE OpenTmp(t)
  BY <1>1 DEF OpenTmp, StoreTypeOK, Contents
<1>2. CASE OpenFails(t)
  BY <1>2, StoreAssumption DEF OpenFails, EndSave, StoreTypeOK, files, Total
<1>3. CASE WriteTmp(t)
  BY <1>3 DEF WriteTmp, StoreTypeOK, files, Contents
<1>4. CASE RenameTmp(t)
  <2>1. \A o \in Threads : Moved(held[o]) \in {"none", "tmp", "path", "gone"}
    BY DEF Moved, StoreTypeOK
  <2> QED BY <1>4, <2>1, StoreAssumption
          DEF RenameTmp, EndSave, StoreTypeOK, Contents, Total
<1>5. CASE RenameFails(t)
  BY <1>5, StoreAssumption
     DEF RenameFails, EndSave, StoreTypeOK, Contents, Total
<1> QED BY <1>1, <1>2, <1>3, <1>4, <1>5 DEF SaveStep

(* ... and so does the beginning of a save.                                *)
LEMMA BeginKeepsTypes ==
  ASSUME StoreTypeOK, NEW t \in Threads, BeginSave(t) PROVE StoreTypeOK'
  BY DEF BeginSave, StoreTypeOK, files

(* A step that leaves the store alone keeps its types.                     *)
LEMMA SameStoreTypes ==
  ASSUME StoreTypeOK, UNCHANGED store PROVE StoreTypeOK'
  BY DEF StoreTypeOK, store, files, savers

(* Everything but the store has its type: the threads, and the rest.       *)
ThreadTypes ==
  pc \in [Threads -> Where] /\ again \in [Threads -> BOOLEAN]

StateTypes ==
  /\ phase \in {"Idle", "PreActivate", "Active", "PostDeactivate"}
  /\ master \in BOOLEAN /\ domain \in BOOLEAN
  /\ reserved \in BOOLEAN /\ live \in BOOLEAN
  /\ rt \in {"none", "starting", "looping", "cycle", "exiting", "pump",
             "ended"}
  /\ quit \in BOOLEAN /\ busActive \in BOOLEAN
  /\ signalled \in BOOLEAN /\ lastSaved \in Total /\ boots \in 0 .. MaxBoots
  /\ overlap \in BOOLEAN

(* The steps of connect and of disconnect keep these types ...             *)
LEMMA BusActionTypes ==
  ASSUME ThreadTypes, StateTypes, NEW t \in Threads,
         ConnectStep(t) \/ DisconnectStep(t)
  PROVE  ThreadTypes' /\ StateTypes' /\ UNCHANGED store
<1>1. CASE Check(t)
  <2>1. ThreadTypes'
    BY <1>1 DEF Check, Connected, ThreadTypes,
       Where, BusAction, InConnect, InDisconnect, InExit, Goto, At
  <2>2. StateTypes'
    BY <1>1, ZenonT(60) DEF Check, StateTypes,
       bus, task, proc
  <2> QED BY <1>1, <2>1, <2>2 DEF Check
<1>2. CASE RequestMaster(t)
  <2>1. ThreadTypes'
    BY <1>2 DEF RequestMaster, Connected, ThreadTypes,
       Where, BusAction, InConnect, InDisconnect, InExit, Goto, At
  <2>2. StateTypes'
    BY <1>2, Zenon DEF RequestMaster, StateTypes,
       bus, task, proc
  <2> QED BY <1>2, <2>1, <2>2 DEF RequestMaster
<1>3. CASE buildPdos(t)
  <2>1. ThreadTypes'
    BY <1>3 DEF buildPdos, Connected, ThreadTypes,
       Where, BusAction, InConnect, InDisconnect, InExit, Goto, At
  <2>3. domain' \in BOOLEAN
    BY <1>3, Zenon DEF buildPdos, StateTypes
  <2>2. StateTypes'
    BY <1>3, <2>3, ZenonT(60) DEF buildPdos, StateTypes, task, proc
  <2> QED BY <1>3, <2>1, <2>2 DEF buildPdos
<1>4. CASE WriteStartup(t)
  <2>1. ThreadTypes'
    BY <1>4 DEF WriteStartup, Connected, ThreadTypes,
       Where, BusAction, InConnect, InDisconnect, InExit, Goto, At
  <2>2. StateTypes'
    BY <1>4, ZenonT(60) DEF WriteStartup, StateTypes,
       bus, task, proc
  <2> QED BY <1>4, <2>1, <2>2 DEF WriteStartup
<1>5. CASE StartTask(t)
  <2>1. ThreadTypes'
    BY <1>5 DEF StartTask, Connected, ThreadTypes,
       Where, BusAction, InConnect, InDisconnect, InExit, Goto, At
  <2>2. StateTypes'
    <3>1. rt' = rt \/ rt' = "starting"
      BY <1>5, Zenon DEF StartTask
    <3>2. quit' = quit \/ quit' = FALSE
      BY <1>5, Zenon DEF StartTask
    <3>3. UNCHANGED <<bus, busActive, proc, overlap>>
      BY <1>5, Zenon DEF StartTask
    <3>4. rt' \in {"none", "starting", "looping", "cycle", "exiting", "pump",
                   "ended"}
      BY <3>1 DEF StateTypes
    <3>5. quit' \in BOOLEAN
      BY <3>2, Zenon DEF StateTypes
    <3> QED BY <3>3, <3>4, <3>5, Zenon DEF StateTypes, bus, proc
  <2> QED BY <1>5, <2>1, <2>2 DEF StartTask
<1>6. CASE TaskStarted(t)
  <2>1. ThreadTypes'
    BY <1>6 DEF TaskStarted, Connected, ThreadTypes,
       Where, BusAction, InConnect, InDisconnect, InExit, Goto, At
  <2>2. StateTypes'
    BY <1>6, ZenonT(60) DEF TaskStarted, StateTypes,
       bus, task, proc
  <2> QED BY <1>6, <2>1, <2>2 DEF TaskStarted
<1>7. CASE Diagnose(t)
  <2>1. ThreadTypes'
    BY <1>7 DEF Diagnose, Connected, ThreadTypes,
       Where, BusAction, InConnect, InDisconnect, InExit, Goto, At
  <2>2. StateTypes'
    BY <1>7, ZenonT(60) DEF Diagnose, StateTypes,
       bus, task, proc
  <2> QED BY <1>7, <2>1, <2>2 DEF Diagnose
<1>8. CASE Activate(t)
  <2>1. ThreadTypes'
    BY <1>8 DEF Activate, Connected, ThreadTypes,
       Where, BusAction, InConnect, InDisconnect, InExit, Goto, At
  <2>2. StateTypes'
    BY <1>8, ZenonT(60) DEF Activate, StateTypes,
       bus, task, proc
  <2> QED BY <1>8, <2>1, <2>2 DEF Activate
<1>9. CASE WaitOp(t)
  <2>1. ThreadTypes'
    BY <1>9 DEF WaitOp, Connected, ThreadTypes,
       Where, BusAction, InConnect, InDisconnect, InExit, Goto, At
  <2>2. StateTypes'
    BY <1>9, ZenonT(60) DEF WaitOp, StateTypes,
       bus, task, proc
  <2> QED BY <1>9, <2>1, <2>2 DEF WaitOp
<1>10. CASE Handover(t)
  <2>1. ThreadTypes'
    BY <1>10 DEF Handover, Connected, ThreadTypes,
       Where, BusAction, InConnect, InDisconnect, InExit, Goto, At
  <2>2. StateTypes'
    BY <1>10, ZenonT(60) DEF Handover, StateTypes,
       bus, task, proc
  <2> QED BY <1>10, <2>1, <2>2 DEF Handover
<1>11. CASE SlowDown(t)
  <2>1. ThreadTypes'
    BY <1>11 DEF SlowDown, ThreadTypes,
       Where, BusAction, InConnect, InDisconnect, InExit, Goto, At
  <2>2. StateTypes'
    BY <1>11, ZenonT(60) DEF SlowDown, StateTypes,
       bus, task, proc
  <2> QED BY <1>11, <2>1, <2>2 DEF SlowDown
<1>12. CASE requestStop(t, "quit", "join")
  <2>1. ThreadTypes'
    BY <1>12 DEF requestStop, ThreadTypes,
       Where, BusAction, InConnect, InDisconnect, InExit, Goto, At
  <2>2. StateTypes'
    BY <1>12, ZenonT(60) DEF requestStop, StateTypes,
       bus, task, proc
  <2> QED BY <1>12, <2>1, <2>2 DEF requestStop
<1>13. CASE Joinable(t, "join", "joining", "off")
  <2>1. ThreadTypes'
    BY <1>13 DEF Joinable, ThreadTypes,
       Where, BusAction, InConnect, InDisconnect, InExit, Goto, At
  <2>2. StateTypes'
    BY <1>13, ZenonT(60) DEF Joinable, StateTypes,
       bus, task, proc
  <2> QED BY <1>13, <2>1, <2>2 DEF Joinable
<1>14. CASE join(t, "joining", "off")
  <2>1. ThreadTypes'
    BY <1>14 DEF join, ThreadTypes,
       Where, BusAction, InConnect, InDisconnect, InExit, Goto, At
  <2>2. StateTypes'
    BY <1>14, Zenon DEF join, StateTypes,
       bus, task, proc
  <2> QED BY <1>14, <2>1, <2>2 DEF join
<1>15. CASE TakeBusBack(t)
  <2>1. ThreadTypes'
    BY <1>15 DEF TakeBusBack, ThreadTypes,
       Where, BusAction, InConnect, InDisconnect, InExit, Goto, At
  <2>2. StateTypes'
    BY <1>15, Zenon DEF TakeBusBack, StateTypes,
       bus, task, proc
  <2> QED BY <1>15, <2>1, <2>2 DEF TakeBusBack
<1>16. CASE deactivate(t)
  <2>1. ThreadTypes'
    BY <1>16 DEF deactivate, ThreadTypes,
       Where, BusAction, InConnect, InDisconnect, InExit, Goto, At
  <2>2. StateTypes'
    BY <1>16, ZenonT(60) DEF deactivate, StateTypes,
       bus, task, proc
  <2> QED BY <1>16, <2>1, <2>2 DEF deactivate
<1>17. CASE release(t)
  <2>1. ThreadTypes'
    BY <1>17 DEF release, Disconnected, ReleaseMaster, ThreadTypes,
       Where, BusAction, InConnect, InDisconnect, InExit, Goto, At
  <2>2. StateTypes'
    BY <1>17, ZenonT(60) DEF release, Disconnected, ReleaseMaster, StateTypes,
       bus, task, proc
  <2> QED BY <1>17, <2>1, <2>2 DEF release
<1> QED BY <1>1, <1>2, <1>3, <1>4, <1>5, <1>6, <1>7, <1>8, <1>9, <1>10, <1>11, <1>12, <1>13, <1>14, <1>15, <1>16, <1>17 DEF ConnectStep, DisconnectStep

(* ... and so do all the others.                                           *)
LEMMA TypesHold == TypeOK /\ [Next]_vars => TypeOK'
<1> SUFFICES ASSUME TypeOK, [Next]_vars PROVE TypeOK'
  OBVIOUS
<1>0. StoreTypeOK /\ ThreadTypes /\ StateTypes
  BY DEF TypeOK, ThreadTypes, StateTypes
<1>a. ASSUME StoreTypeOK', ThreadTypes', StateTypes' PROVE TypeOK'
  BY <1>a DEF TypeOK, ThreadTypes, StateTypes
<1>b. total \in Total /\ Total \subseteq Nat
  BY <1>0, StoreAssumption DEF StoreTypeOK, Total
<1>1. ASSUME EnterLoop PROVE TypeOK'
  <2>1. ThreadTypes'
    BY <1>0, <1>1, MainIsThread DEF EnterLoop, ThreadTypes,
       Where, BusAction, InConnect, InDisconnect, InExit, Goto, At
  <2>2. StateTypes'
    BY <1>0, <1>b, <1>1, Zenon DEF EnterLoop, StateTypes,
       bus, task, proc
  <2>3. StoreTypeOK'
    BY <1>0, <1>1, SameStoreTypes DEF EnterLoop
  <2> QED BY <1>a, <2>1, <2>2, <2>3
<1>2. ASSUME Look PROVE TypeOK'
  <2>1. ThreadTypes'
    BY <1>0, <1>2, MainIsThread DEF Look, ThreadTypes,
       Where, BusAction, InConnect, InDisconnect, InExit, Goto, At
  <2>2. StateTypes'
    BY <1>0, <1>b, <1>2, Zenon DEF Look, StateTypes,
       bus, task, proc
  <2>3. StoreTypeOK'
    BY <1>0, <1>2, SameStoreTypes DEF Look
  <2> QED BY <1>a, <2>1, <2>2, <2>3
<1>3. ASSUME Cycle PROVE TypeOK'
  <2>1. ThreadTypes'
    BY <1>0, <1>3, MainIsThread DEF Cycle, ThreadTypes,
       Where, BusAction, InConnect, InDisconnect, InExit, Goto, At
  <2>2. StateTypes'
    BY <1>0, <1>b, <1>3, Zenon DEF Cycle, StateTypes,
       bus, task, proc
  <2>3. StoreTypeOK'
    BY <1>0, <1>3, StoreAssumption DEF Cycle, StoreTypeOK, Total, files, savers
  <2> QED BY <1>a, <2>1, <2>2, <2>3
<1>4. ASSUME Exit PROVE TypeOK'
  <2>1. ThreadTypes'
    BY <1>0, <1>4, MainIsThread DEF Exit, ThreadTypes,
       Where, BusAction, InConnect, InDisconnect, InExit, Goto, At
  <2>2. StateTypes'
    BY <1>0, <1>b, <1>4, Zenon DEF Exit, StateTypes,
       bus, task, proc
  <2>3. StoreTypeOK'
    BY <1>0, <1>4, SameStoreTypes DEF Exit
  <2> QED BY <1>a, <2>1, <2>2, <2>3
<1>5. ASSUME NEW t \in Threads, connect_bus(t) PROVE TypeOK'
  <2>1. ThreadTypes'
    BY <1>0, <1>5, MainIsThread DEF connect_bus, BeginBusAction, ThreadTypes,
       Where, BusAction, InConnect, InDisconnect, InExit, Goto, At
  <2>2. StateTypes'
    BY <1>0, <1>b, <1>5, ZenonT(60) DEF connect_bus, BeginBusAction, StateTypes,
       bus, task, proc
  <2>3. StoreTypeOK'
    BY <1>0, <1>5, SameStoreTypes DEF connect_bus
  <2> QED BY <1>a, <2>1, <2>2, <2>3
<1>6. ASSUME NEW t \in Threads, disconnect_bus(t) PROVE TypeOK'
  <2>1. ThreadTypes'
    BY <1>0, <1>6, MainIsThread DEF disconnect_bus, BeginBusAction, ThreadTypes,
       Where, BusAction, InConnect, InDisconnect, InExit, Goto, At
  <2>2. StateTypes'
    BY <1>0, <1>b, <1>6, ZenonT(60) DEF disconnect_bus, BeginBusAction, StateTypes,
       bus, task, proc
  <2>3. StoreTypeOK'
    BY <1>0, <1>6, SameStoreTypes DEF disconnect_bus
  <2> QED BY <1>a, <2>1, <2>2, <2>3
<1>7. ASSUME NEW t \in Threads, reconnect(t) PROVE TypeOK'
  <2>1. ThreadTypes'
    BY <1>0, <1>7, MainIsThread DEF reconnect, BeginBusAction, ThreadTypes,
       Where, BusAction, InConnect, InDisconnect, InExit, Goto, At
  <2>2. StateTypes'
    BY <1>0, <1>b, <1>7, ZenonT(60) DEF reconnect, BeginBusAction, StateTypes,
       bus, task, proc
  <2>3. StoreTypeOK'
    BY <1>0, <1>7, SameStoreTypes DEF reconnect
  <2> QED BY <1>a, <2>1, <2>2, <2>3
<1>8. ASSUME NEW t \in Threads, reset_load_encoder(t) PROVE TypeOK'
  <2>1. ThreadTypes'
    BY <1>0, <1>8, MainIsThread DEF reset_load_encoder, BeginBusAction, ThreadTypes,
       Where, BusAction, InConnect, InDisconnect, InExit, Goto, At
  <2>2. StateTypes'
    BY <1>0, <1>b, <1>8, ZenonT(60) DEF reset_load_encoder, BeginBusAction, StateTypes,
       bus, task, proc
  <2>3. StoreTypeOK'
    BY <1>0, <1>8, SameStoreTypes DEF reset_load_encoder
  <2> QED BY <1>a, <2>1, <2>2, <2>3
<1>9. ASSUME NEW t \in Threads, reset_total_moving_time(t) PROVE TypeOK'
  <2>1. ThreadTypes'
    BY <1>0, <1>9, MainIsThread DEF reset_total_moving_time, ThreadTypes,
       Where, BusAction, InConnect, InDisconnect, InExit, Goto, At
  <2>2. StateTypes'
    BY <1>0, <1>b, <1>9, ZenonT(60) DEF reset_total_moving_time, StateTypes,
       bus, task, proc
  <2>3. StoreTypeOK'
    BY <1>0, <1>9, StoreAssumption DEF reset_total_moving_time, StoreTypeOK, Total, files, savers
  <2> QED BY <1>a, <2>1, <2>2, <2>3
<1>10. ASSUME NEW t \in Threads, EncoderReset(t) PROVE TypeOK'
  <2>1. ThreadTypes'
    BY <1>0, <1>10, MainIsThread DEF EncoderReset, ThreadTypes,
       Where, BusAction, InConnect, InDisconnect, InExit, Goto, At
  <2>2. StateTypes'
    BY <1>0, <1>b, <1>10, ZenonT(60) DEF EncoderReset, StateTypes,
       bus, task, proc
  <2>3. StoreTypeOK'
    BY <1>0, <1>10, SameStoreTypes DEF EncoderReset
  <2> QED BY <1>a, <2>1, <2>2, <2>3
<1>11. ASSUME NEW t \in Threads, NEW here, NEW to \in Where,
            Persist(t, here, to) PROVE TypeOK'
  <2>1. ThreadTypes'
    BY <1>0, <1>11, MainIsThread DEF Persist, ThreadTypes,
       Where, BusAction, InConnect, InDisconnect, InExit, Goto, At
  <2>2. StateTypes'
    BY <1>0, <1>b, <1>11, ZenonT(60) DEF Persist, StateTypes,
       bus, task, proc
  <2>3. StoreTypeOK'
    BY <1>0, <1>11, BeginKeepsTypes, MainIsThread DEF Persist
  <2> QED BY <1>a, <2>1, <2>2, <2>3
<1>12. ASSUME NEW t \in Threads, NEW here, NEW to \in Where,
            Persisted(t, here, to) PROVE TypeOK'
  <2>1. ThreadTypes'
    BY <1>0, <1>12, MainIsThread DEF Persisted, ThreadTypes,
       Where, BusAction, InConnect, InDisconnect, InExit, Goto, At
  <2>2. StateTypes'
    BY <1>0, <1>b, <1>12, ZenonT(60) DEF Persisted, StateTypes,
       bus, task, proc
  <2>3. StoreTypeOK'
    BY <1>0, <1>12, SameStoreTypes DEF Persisted
  <2> QED BY <1>a, <2>1, <2>2, <2>3
<1>13. ASSUME onSignal PROVE TypeOK'
  <2>1. ThreadTypes'
    BY <1>0, <1>13, MainIsThread DEF onSignal, ThreadTypes,
       Where, BusAction, InConnect, InDisconnect, InExit, Goto, At
  <2>2. StateTypes'
    BY <1>0, <1>b, <1>13, Zenon DEF onSignal, StateTypes,
       bus, task, proc
  <2>3. StoreTypeOK'
    BY <1>0, <1>13, SameStoreTypes DEF onSignal
  <2> QED BY <1>a, <2>1, <2>2, <2>3
<1>14. ASSUME EnterMainLoop PROVE TypeOK'
  <2>1. ThreadTypes'
    BY <1>0, <1>14, MainIsThread DEF EnterMainLoop, ThreadTypes,
       Where, BusAction, InConnect, InDisconnect, InExit, Goto, At
  <2>2. StateTypes'
    BY <1>0, <1>b, <1>14, ZenonT(60) DEF EnterMainLoop, StateTypes,
       bus, task, proc
  <2>3. StoreTypeOK'
    BY <1>0, <1>14, SameStoreTypes DEF EnterMainLoop
  <2> QED BY <1>a, <2>1, <2>2, <2>3
<1>15. ASSUME Tick PROVE TypeOK'
  <2>1. ThreadTypes'
    BY <1>0, <1>15, MainIsThread DEF Tick, ThreadTypes,
       Where, BusAction, InConnect, InDisconnect, InExit, Goto, At
  <2>2. StateTypes'
    BY <1>0, <1>b, <1>15, ZenonT(60) DEF Tick, StateTypes,
       bus, task, proc
  <2>3. StoreTypeOK'
    BY <1>0, <1>15, BeginKeepsTypes, MainIsThread DEF Tick
  <2> QED BY <1>a, <2>1, <2>2, <2>3
<1>16. ASSUME BeginExit PROVE TypeOK'
  <2>1. ThreadTypes'
    BY <1>0, <1>16, MainIsThread DEF BeginExit, BeginBusAction, ThreadTypes,
       Where, BusAction, InConnect, InDisconnect, InExit, Goto, At
  <2>2. StateTypes'
    BY <1>0, <1>b, <1>16, ZenonT(60) DEF BeginExit, BeginBusAction, StateTypes,
       bus, task, proc
  <2>3. StoreTypeOK'
    BY <1>0, <1>16, SameStoreTypes DEF BeginExit
  <2> QED BY <1>a, <2>1, <2>2, <2>3
<1>17. ASSUME StopIpc PROVE TypeOK'
  <2>1. ThreadTypes'
    BY <1>0, <1>17, MainIsThread DEF StopIpc, ThreadTypes,
       Where, BusAction, InConnect, InDisconnect, InExit, Goto, At
  <2>2. StateTypes'
    BY <1>0, <1>b, <1>17, ZenonT(60) DEF StopIpc, StateTypes,
       bus, task, proc
  <2>3. StoreTypeOK'
    BY <1>0, <1>17, SameStoreTypes DEF StopIpc
  <2> QED BY <1>a, <2>1, <2>2, <2>3
<1>18. ASSUME ReleaseAtExit PROVE TypeOK'
  <2>1. ThreadTypes'
    BY <1>0, <1>18, MainIsThread DEF ReleaseAtExit, ThreadTypes,
       Where, BusAction, InConnect, InDisconnect, InExit, Goto, At
  <2>2. StateTypes'
    BY <1>0, <1>b, <1>18, ZenonT(60) DEF ReleaseAtExit, ReleaseMaster, StateTypes,
       bus, task, proc
  <2>3. StoreTypeOK'
    BY <1>0, <1>18, SameStoreTypes DEF ReleaseAtExit
  <2> QED BY <1>a, <2>1, <2>2, <2>3
<1>19. ASSUME requestStop(Main, "exit_quit", "exit_join") PROVE TypeOK'
  <2>1. ThreadTypes'
    BY <1>0, <1>19, MainIsThread DEF requestStop, ThreadTypes,
       Where, BusAction, InConnect, InDisconnect, InExit, Goto, At
  <2>2. StateTypes'
    BY <1>0, <1>b, <1>19, ZenonT(60) DEF requestStop, StateTypes,
       bus, task, proc
  <2>3. StoreTypeOK'
    BY <1>0, <1>19, SameStoreTypes DEF requestStop
  <2> QED BY <1>a, <2>1, <2>2, <2>3
<1>20. ASSUME Joinable(Main, "exit_join", "exit_joining",
                     "exit_release") PROVE TypeOK'
  <2>1. ThreadTypes'
    BY <1>0, <1>20, MainIsThread DEF Joinable, ThreadTypes,
       Where, BusAction, InConnect, InDisconnect, InExit, Goto, At
  <2>2. StateTypes'
    BY <1>0, <1>b, <1>20, ZenonT(60) DEF Joinable, StateTypes,
       bus, task, proc
  <2>3. StoreTypeOK'
    BY <1>0, <1>20, SameStoreTypes DEF Joinable
  <2> QED BY <1>a, <2>1, <2>2, <2>3
<1>21. ASSUME join(Main, "exit_joining", "exit_release") PROVE TypeOK'
  <2>1. ThreadTypes'
    BY <1>0, <1>21, MainIsThread DEF join, ThreadTypes,
       Where, BusAction, InConnect, InDisconnect, InExit, Goto, At
  <2>2. StateTypes'
    BY <1>0, <1>b, <1>21, Zenon DEF join, StateTypes,
       bus, task, proc
  <2>3. StoreTypeOK'
    BY <1>0, <1>21, SameStoreTypes DEF join
  <2> QED BY <1>a, <2>1, <2>2, <2>3
<1>22. ASSUME NEW t \in Threads, Saving(t) PROVE TypeOK'
  <2>1. ThreadTypes'
    BY <1>0, <1>22, MainIsThread DEF Saving, ThreadTypes,
       Where, BusAction, InConnect, InDisconnect, InExit, Goto, At
  <2>2. StateTypes'
    BY <1>0, <1>b, <1>22, Zenon DEF Saving, StateTypes,
       bus, task, proc
  <2>3. StoreTypeOK'
    BY <1>0, <1>22, StoreKeepsTypes DEF Saving
  <2> QED BY <1>a, <2>1, <2>2, <2>3
<1>23. ASSUME NEW t \in Threads, ConnectStep(t) \/ DisconnectStep(t) PROVE TypeOK'
  BY <1>0, <1>a, <1>23, BusActionTypes, SameStoreTypes
<1>24. ASSUME Boot PROVE TypeOK'
  <2>1. ThreadTypes'
    BY <1>24, MainIsThread
       DEF Boot, Started, ThreadTypes, Where, BusAction, InConnect
  <2>2. lastSaved' \in Total /\ boots' \in 0 .. MaxBoots
    BY <1>0, <1>24, HostAssumption, StoreAssumption DEF Boot, StateTypes, Total
  <2>3. StateTypes'
    BY <1>24, <2>2, Zenon DEF Boot, StateTypes
  <2>4. StoreTypeOK'
    <3>1. load \in Total
      BY <1>0, StoreAssumption DEF load, StoreTypeOK, Total
    <3> QED BY <1>0, <1>24, <3>1, StoreAssumption
            DEF Boot, StoreBoot, StoreTypeOK, Total, files
  <2> QED BY <1>a, <2>1, <2>3, <2>4
<1>25. ASSUME UNCHANGED vars PROVE TypeOK'
  <2>1. StoreTypeOK'
    BY <1>0, <1>25, SameStoreTypes DEF vars
  <2>2. ThreadTypes'
    BY <1>0, <1>25 DEF vars, ThreadTypes
  <2>3. StateTypes'
    BY <1>0, <1>25, ZenonT(60) DEF vars, StateTypes, bus, task, proc
  <2> QED BY <1>a, <2>1, <2>2, <2>3
<1>26. {"saving", "idle", "loop", "final", "exit_quit"} \subseteq Where
  BY DEF Where, BusAction, InExit
<1> QED
  BY MainIsThread, <1>1, <1>2, <1>3, <1>4, <1>5, <1>6, <1>7, <1>8, <1>9, <1>10, <1>11,
     <1>12, <1>13, <1>14, <1>15, <1>16, <1>17, <1>18, <1>19, <1>20, <1>21,
     <1>22, <1>23, <1>24, <1>25, <1>26
  DEF Next, MainStep, RtStep, Command, ClientStep, Threads

(* Type correctness, for any number of clients and starts and any total.   *)
THEOREM TypeCorrect == Spec => []TypeOK
<1>1. Init => TypeOK
  <2> SUFFICES ASSUME Init PROVE TypeOK
    OBVIOUS
  <2>1. StoreTypeOK
    <3>1. total \in Total /\ kept \in Total /\ val \in [Threads -> Total]
      BY StoreAssumption DEF Init, StoreInit, NoSaver, Total
    <3>2. path \in Contents /\ tmp \in Contents
      BY DEF Init, StoreInit, Contents
    <3>3. spoiled \in BOOLEAN
      BY DEF Init, StoreInit
    <3> QED BY <3>1, <3>2, <3>3 DEF Init, StoreInit, NoSaver, StoreTypeOK
  <2>2. ThreadTypes
    BY MainIsThread DEF Init, Started, ThreadTypes, Where, BusAction, InConnect
  <2>3. lastSaved \in Total /\ boots \in 0 .. MaxBoots
    BY HostAssumption, StoreAssumption DEF Init, Total
  <2>4. StateTypes
    BY <2>3, Zenon DEF Init, StateTypes
  <2> QED BY <2>1, <2>2, <2>4 DEF TypeOK, ThreadTypes, StateTypes
<1> QED BY <1>1, TypesHold, PTL DEF Spec

-----------------------------------------------------------------------------
(* The inductive invariant.                                                *)

(* As long as the program is defined, at most one thread is in a bus       *)
(* action, and none but main when main is about to end.                    *)
Exclusive ==
  \A t, u \in Threads : pc[t] \in BusAction /\ pc[u] \in BusAction => t = u

ServersGone ==
  /\ pc[Main] \in {"persist", "final", "ended"} \cup InExit
       => \A c \in Threads \ {Main} : pc[c] = "gone"
  /\ pc[Main] = "ended" => rt = "none"

(* The phase tells what the kernel does, and the master is only given up   *)
(* when no realtime thread is left.                                        *)
PhaseTells ==
  /\ phase = "Active" <=> live
  /\ live => master /\ domain
  /\ master => reserved
  /\ rt # "none" => reserved
  /\ rt \in {"cycle", "pump"} => live

(* bus_active_ is up only on a live bus, and until a disconnect is begun   *)
(* the realtime thread then runs.                                          *)
HandedOver ==
  busActive =>
    /\ live \/ pc[Main] = "ended"
    /\ (\A t \in Threads : pc[t] \notin InDisconnect \cup InExit \cup {"ended"})
         => ~quit /\ rt \in {"looping", "cycle"}

(* What holds at each place of a bus action.                               *)
BeforeStart(p) ==
  /\ p \in {"configure", "slave", "startup", "start", "started", "activate",
            "diagnose", "encoder"} => ~live
  /\ p \in {"slave", "startup", "encoder"} => master
  /\ p \in {"slave", "startup", "start"} => reserved /\ rt = "none"
  /\ p \in {"startup", "diagnose"} => domain
  /\ p = "diagnose" => master

BeforeHandover(p) ==
  /\ p = "started" => rt \in {"starting", "looping"}
  /\ p \in {"activate", "diagnose", "op", "handover"} => rt = "looping"
  /\ p \in {"started", "activate", "diagnose", "op", "handover"}
      => ~quit /\ ~busActive
  /\ p \in {"op", "handover"} => live

BeforeEnd(p) ==
  /\ p \in {"join", "joining", "exit_join", "exit_joining"} => quit
  /\ p \in {"joining", "exit_joining"} => rt # "none"
  /\ p \in {"off", "deactivate", "release", "exit_release"} => rt = "none"
  /\ p \in {"deactivate", "release"} => ~busActive

Places ==
  \A t \in Threads :
    BeforeStart(pc[t]) /\ BeforeHandover(pc[t]) /\ BeforeEnd(pc[t])

HostInv ==
  /\ pc \in [Threads -> Where]
  /\ Exclusive /\ ServersGone /\ PhaseTells /\ HandedOver /\ Places

(* A thread in a bus action is alone in one, and main has not ended.       *)
LEMMA Alone ==
  ASSUME HostInv, NEW t \in Threads, pc[t] \in BusAction
  PROVE  /\ \A u \in Threads \ {t} : pc[u] \notin BusAction
         /\ pc[Main] \notin {"persist", "final", "ended"}
         /\ pc[Main] \in InExit => t = Main
<1>1. pc[t] # "gone" /\ pc[t] \notin {"persist", "final", "ended"}
  BY DEF BusAction, InConnect, InDisconnect, InExit
<1>2. t # Main => pc[Main] \notin {"persist", "final", "ended"} \cup InExit
  BY <1>1 DEF HostInv, ServersGone
<1> QED BY <1>1, <1>2 DEF HostInv, Exclusive

(* It moves on within the bus actions, or out of them, and is still alone. *)
LEMMA MovesAlone ==
  ASSUME HostInv, NEW t \in Threads, pc[t] \in BusAction,
         NEW q \in Where \ {"persist", "final", "ended"},
         pc' = [pc EXCEPT ![t] = q], q \in InExit => pc[t] \in InExit
  PROVE  /\ pc' \in [Threads -> Where] /\ Exclusive' /\ ServersGone'
         /\ \A u \in Threads \ {t} : pc'[u] = pc[u] /\ pc[u] \notin BusAction
         /\ pc'[t] = q /\ pc'[Main] # "ended" /\ pc[Main] # "ended"
<1>1. /\ \A u \in Threads \ {t} : pc[u] \notin BusAction
      /\ pc[Main] \notin {"persist", "final", "ended"}
      /\ pc[Main] \in InExit => t = Main
  BY Alone
<1>2. pc' \in [Threads -> Where] /\ pc'[t] = q
      /\ \A u \in Threads \ {t} : pc'[u] = pc[u]
  BY DEF HostInv
<1>3. Exclusive'
  BY <1>1, <1>2 DEF Exclusive
<1>4. pc'[Main] # "ended" /\ pc'[Main] \notin {"persist", "final"}
  BY <1>1, <1>2, MainIsThread
<1>5. pc'[Main] \in InExit => t = Main /\ pc[Main] \in InExit
  BY <1>1, <1>2, MainIsThread
<1>6. ServersGone'
  BY <1>1, <1>2, <1>4, <1>5 DEF HostInv, ServersGone
<1> QED BY <1>1, <1>2, <1>3, <1>4, <1>6

(* Nothing is claimed outside the bus actions.                             *)
LEMMA NotThere ==
  ASSUME NEW p, p \notin BusAction
  PROVE  (BeforeStart(p) /\ BeforeHandover(p) /\ BeforeEnd(p))'
  BY DEF BeforeStart, BeforeHandover, BeforeEnd, BusAction, InConnect,
         InDisconnect, InExit

(* A step of a bus action keeps the invariant when it keeps what is said   *)
(* of the bus and of the place it goes to.                                 *)
LEMMA StepKeeps ==
  ASSUME HostInv, NEW t \in Threads, pc[t] \in BusAction,
         NEW q \in Where \ {"persist", "final", "ended"},
         pc' = [pc EXCEPT ![t] = q], q \in InExit => pc[t] \in InExit,
         PhaseTells', HandedOver',
         (BeforeStart(q) /\ BeforeHandover(q) /\ BeforeEnd(q))'
  PROVE  HostInv'
<1>1. /\ pc' \in [Threads -> Where] /\ Exclusive' /\ ServersGone'
      /\ \A u \in Threads \ {t} : pc'[u] = pc[u] /\ pc[u] \notin BusAction
      /\ pc'[t] = q
  BY MovesAlone
<1>2. ASSUME NEW u \in Threads
      PROVE  (BeforeStart(pc[u]) /\ BeforeHandover(pc[u]) /\ BeforeEnd(pc[u]))'
  <2>1. CASE u = t
    BY <1>1, <2>1 DEF BeforeStart, BeforeHandover, BeforeEnd
  <2>2. CASE u # t
    BY <1>1, <2>2, NotThere DEF BeforeStart, BeforeHandover, BeforeEnd
  <2> QED BY <2>1, <2>2
<1> QED BY <1>1, <1>2 DEF HostInv, Places

(* The steps of connect and of disconnect.                                 *)
LEMMA BusActionKeeps ==
  ASSUME HostInv, StateTypes, NEW t \in Threads,
         ConnectStep(t) \/ DisconnectStep(t)
  PROVE  HostInv'
<1>0. PhaseTells /\ HandedOver /\ Places
  BY DEF HostInv
<1>p. /\ BeforeStart(pc[t]) /\ BeforeHandover(pc[t]) /\ BeforeEnd(pc[t])
  BY <1>0 DEF Places
<1>1. CASE Check(t)
  <2>1. pc[t] \in BusAction
    BY <1>1 DEF Check, At, BusAction, InConnect, InDisconnect
  <2>2. PICK q \in {"configure", "idle", "enter"} : pc' = [pc EXCEPT ![t] = q]
    BY <1>1 DEF Check, Connected, Goto
  <2>3. /\ q \in Where \ {"persist", "final", "ended"} /\ q \notin InExit
    BY <2>2 DEF Where, BusAction, InConnect, InDisconnect, InExit
  <2>4. /\ \A u \in Threads \ {t} : pc'[u] = pc[u] /\ pc[u] \notin BusAction
        /\ pc'[t] = q /\ pc'[Main] # "ended" /\ pc[Main] # "ended"
    BY <2>1, <2>2, <2>3, MovesAlone
  <2>5. PhaseTells'
    BY <1>1, <1>0, <1>p DEF Check, Connected, At, PhaseTells, StateTypes, bus, task, proc,
       BeforeStart, BeforeHandover, BeforeEnd
  <2>6. HandedOver'
    BY <1>1, <1>0, <1>p, <2>4 DEF Check, Connected, At, Goto, PhaseTells, HandedOver,
       StateTypes, InDisconnect, InExit, BeforeStart, BeforeHandover,
       BeforeEnd, bus, task
  <2>7. (BeforeStart(q) /\ BeforeHandover(q) /\ BeforeEnd(q))'
    BY <1>1, <1>0, <1>p, <2>2, <2>4 DEF Check, Connected, At, Goto, PhaseTells,
       HandedOver, StateTypes, BeforeStart, BeforeHandover, BeforeEnd, bus, task
  <2> QED BY <2>1, <2>2, <2>3, <2>5, <2>6, <2>7, StepKeeps
<1>2. CASE RequestMaster(t)
  <2>1. pc[t] \in BusAction
    BY <1>2 DEF RequestMaster, At, BusAction, InConnect, InDisconnect
  <2>2. PICK q \in {"slave", "idle", "enter"} : pc' = [pc EXCEPT ![t] = q]
    BY <1>2 DEF RequestMaster, Connected, Goto
  <2>3. /\ q \in Where \ {"persist", "final", "ended"} /\ q \notin InExit
    BY <2>2 DEF Where, BusAction, InConnect, InDisconnect, InExit
  <2>4. /\ \A u \in Threads \ {t} : pc'[u] = pc[u] /\ pc[u] \notin BusAction
        /\ pc'[t] = q /\ pc'[Main] # "ended" /\ pc[Main] # "ended"
    BY <2>1, <2>2, <2>3, MovesAlone
  <2>5. PhaseTells'
    BY <1>2, <1>0, <1>p DEF RequestMaster, Connected, At, PhaseTells, StateTypes, bus, task, proc,
       BeforeStart, BeforeHandover, BeforeEnd
  <2>6. HandedOver'
    BY <1>2, <1>0, <1>p, <2>4 DEF RequestMaster, Connected, At, Goto, PhaseTells, HandedOver,
       StateTypes, InDisconnect, InExit, BeforeStart, BeforeHandover,
       BeforeEnd, bus, task
  <2>7. (BeforeStart(q) /\ BeforeHandover(q) /\ BeforeEnd(q))'
    BY <1>2, <1>0, <1>p, <2>2, <2>4 DEF RequestMaster, Connected, At, Goto, PhaseTells,
       HandedOver, StateTypes, BeforeStart, BeforeHandover, BeforeEnd, bus, task
  <2> QED BY <2>1, <2>2, <2>3, <2>5, <2>6, <2>7, StepKeeps
<1>3. CASE buildPdos(t)
  <2>1. pc[t] \in BusAction
    BY <1>3 DEF buildPdos, At, BusAction, InConnect, InDisconnect
  <2>2. PICK q \in {"startup", "idle", "enter"} : pc' = [pc EXCEPT ![t] = q]
    BY <1>3 DEF buildPdos, Connected, Goto
  <2>3. /\ q \in Where \ {"persist", "final", "ended"} /\ q \notin InExit
    BY <2>2 DEF Where, BusAction, InConnect, InDisconnect, InExit
  <2>4. /\ \A u \in Threads \ {t} : pc'[u] = pc[u] /\ pc[u] \notin BusAction
        /\ pc'[t] = q /\ pc'[Main] # "ended" /\ pc[Main] # "ended"
    BY <2>1, <2>2, <2>3, MovesAlone
  <2>5. PhaseTells'
    BY <1>3, <1>0, <1>p DEF buildPdos, Connected, At, PhaseTells, StateTypes, bus, task, proc,
       BeforeStart, BeforeHandover, BeforeEnd
  <2>6. HandedOver'
    BY <1>3, <1>0, <1>p, <2>4 DEF buildPdos, Connected, At, Goto, PhaseTells, HandedOver,
       StateTypes, InDisconnect, InExit, BeforeStart, BeforeHandover,
       BeforeEnd, bus, task
  <2>7. (BeforeStart(q) /\ BeforeHandover(q) /\ BeforeEnd(q))'
    BY <1>3, <1>0, <1>p, <2>2, <2>4 DEF buildPdos, Connected, At, Goto, PhaseTells,
       HandedOver, StateTypes, BeforeStart, BeforeHandover, BeforeEnd, bus, task
  <2> QED BY <2>1, <2>2, <2>3, <2>5, <2>6, <2>7, StepKeeps
<1>4. CASE WriteStartup(t)
  <2>1. pc[t] \in BusAction
    BY <1>4 DEF WriteStartup, At, BusAction, InConnect, InDisconnect
  <2>2. PICK q \in {"start", "idle", "enter"} : pc' = [pc EXCEPT ![t] = q]
    BY <1>4 DEF WriteStartup, Connected, Goto
  <2>3. /\ q \in Where \ {"persist", "final", "ended"} /\ q \notin InExit
    BY <2>2 DEF Where, BusAction, InConnect, InDisconnect, InExit
  <2>4. /\ \A u \in Threads \ {t} : pc'[u] = pc[u] /\ pc[u] \notin BusAction
        /\ pc'[t] = q /\ pc'[Main] # "ended" /\ pc[Main] # "ended"
    BY <2>1, <2>2, <2>3, MovesAlone
  <2>5. PhaseTells'
    BY <1>4, <1>0, <1>p DEF WriteStartup, Connected, At, PhaseTells, StateTypes, bus, task, proc,
       BeforeStart, BeforeHandover, BeforeEnd
  <2>6. HandedOver'
    BY <1>4, <1>0, <1>p, <2>4 DEF WriteStartup, Connected, At, Goto, PhaseTells, HandedOver,
       StateTypes, InDisconnect, InExit, BeforeStart, BeforeHandover,
       BeforeEnd, bus, task
  <2>7. (BeforeStart(q) /\ BeforeHandover(q) /\ BeforeEnd(q))'
    BY <1>4, <1>0, <1>p, <2>2, <2>4 DEF WriteStartup, Connected, At, Goto, PhaseTells,
       HandedOver, StateTypes, BeforeStart, BeforeHandover, BeforeEnd, bus, task
  <2> QED BY <2>1, <2>2, <2>3, <2>5, <2>6, <2>7, StepKeeps
<1>5. CASE StartTask(t)
  <2>1. pc[t] \in BusAction
    BY <1>5 DEF StartTask, At, BusAction, InConnect, InDisconnect
  <2>2. PICK q \in {"started", "idle", "enter"} : pc' = [pc EXCEPT ![t] = q]
    BY <1>5 DEF StartTask, Connected, Goto
  <2>3. /\ q \in Where \ {"persist", "final", "ended"} /\ q \notin InExit
    BY <2>2 DEF Where, BusAction, InConnect, InDisconnect, InExit
  <2>4. /\ \A u \in Threads \ {t} : pc'[u] = pc[u] /\ pc[u] \notin BusAction
        /\ pc'[t] = q /\ pc'[Main] # "ended" /\ pc[Main] # "ended"
    BY <2>1, <2>2, <2>3, MovesAlone
  <2>5. PhaseTells'
    BY <1>5, <1>0, <1>p DEF StartTask, Connected, At, PhaseTells, StateTypes, bus, task, proc,
       BeforeStart, BeforeHandover, BeforeEnd
  <2>6. HandedOver'
    BY <1>5, <1>0, <1>p, <2>4 DEF StartTask, Connected, At, Goto, PhaseTells, HandedOver,
       StateTypes, InDisconnect, InExit, BeforeStart, BeforeHandover,
       BeforeEnd, bus, task
  <2>7. (BeforeStart(q) /\ BeforeHandover(q) /\ BeforeEnd(q))'
    BY <1>5, <1>0, <1>p, <2>2, <2>4 DEF StartTask, Connected, At, Goto, PhaseTells,
       HandedOver, StateTypes, BeforeStart, BeforeHandover, BeforeEnd, bus, task
  <2> QED BY <2>1, <2>2, <2>3, <2>5, <2>6, <2>7, StepKeeps
<1>6. CASE TaskStarted(t)
  <2>1. pc[t] \in BusAction
    BY <1>6 DEF TaskStarted, At, BusAction, InConnect, InDisconnect
  <2>2. PICK q \in {"activate", "idle", "enter"} : pc' = [pc EXCEPT ![t] = q]
    BY <1>6 DEF TaskStarted, Connected, Running, Goto
  <2>3. /\ q \in Where \ {"persist", "final", "ended"} /\ q \notin InExit
    BY <2>2 DEF Where, BusAction, InConnect, InDisconnect, InExit
  <2>4. /\ \A u \in Threads \ {t} : pc'[u] = pc[u] /\ pc[u] \notin BusAction
        /\ pc'[t] = q /\ pc'[Main] # "ended" /\ pc[Main] # "ended"
    BY <2>1, <2>2, <2>3, MovesAlone
  <2>5. PhaseTells'
    BY <1>6, <1>0, <1>p DEF TaskStarted, Connected, Running, At, PhaseTells, StateTypes, bus, task, proc,
       BeforeStart, BeforeHandover, BeforeEnd
  <2>6. HandedOver'
    BY <1>6, <1>0, <1>p, <2>4 DEF TaskStarted, Connected, Running, At, Goto, PhaseTells, HandedOver,
       StateTypes, InDisconnect, InExit, BeforeStart, BeforeHandover,
       BeforeEnd, bus, task
  <2>7. (BeforeStart(q) /\ BeforeHandover(q) /\ BeforeEnd(q))'
    BY <1>6, <1>0, <1>p, <2>2, <2>4 DEF TaskStarted, Connected, Running, At, Goto, PhaseTells,
       HandedOver, StateTypes, BeforeStart, BeforeHandover, BeforeEnd, bus, task
  <2> QED BY <2>1, <2>2, <2>3, <2>5, <2>6, <2>7, StepKeeps
<1>7. CASE Diagnose(t)
  <2>1. pc[t] \in BusAction
    BY <1>7 DEF Diagnose, At, BusAction, InConnect, InDisconnect
  <2>2. PICK q \in {"diagnose", "op", "idle", "enter"} : pc' = [pc EXCEPT ![t] = q]
    BY <1>7 DEF Diagnose, Connected, guardBlocking, Goto
  <2>3. /\ q \in Where \ {"persist", "final", "ended"} /\ q \notin InExit
    BY <2>2 DEF Where, BusAction, InConnect, InDisconnect, InExit
  <2>4. /\ \A u \in Threads \ {t} : pc'[u] = pc[u] /\ pc[u] \notin BusAction
        /\ pc'[t] = q /\ pc'[Main] # "ended" /\ pc[Main] # "ended"
    BY <2>1, <2>2, <2>3, MovesAlone
  <2>5. PhaseTells'
    BY <1>7, <1>0, <1>p DEF Diagnose, Connected, guardBlocking, At, PhaseTells, StateTypes, bus, task, proc,
       BeforeStart, BeforeHandover, BeforeEnd
  <2>6. HandedOver'
    BY <1>7, <1>0, <1>p, <2>4 DEF Diagnose, Connected, guardBlocking, At, Goto, PhaseTells, HandedOver,
       StateTypes, InDisconnect, InExit, BeforeStart, BeforeHandover,
       BeforeEnd, bus, task
  <2>7. (BeforeStart(q) /\ BeforeHandover(q) /\ BeforeEnd(q))'
    BY <1>7, <1>0, <1>p, <2>2, <2>4 DEF Diagnose, Connected, guardBlocking, At, Goto, PhaseTells,
       HandedOver, StateTypes, BeforeStart, BeforeHandover, BeforeEnd, bus, task
  <2> QED BY <2>1, <2>2, <2>3, <2>5, <2>6, <2>7, StepKeeps
<1>8. CASE Activate(t)
  <2>1. pc[t] \in BusAction
    BY <1>8 DEF Activate, At, BusAction, InConnect, InDisconnect
  <2>2. PICK q \in {"op", "idle", "enter"} : pc' = [pc EXCEPT ![t] = q]
    BY <1>8 DEF Activate, Connected, Goto
  <2>3. /\ q \in Where \ {"persist", "final", "ended"} /\ q \notin InExit
    BY <2>2 DEF Where, BusAction, InConnect, InDisconnect, InExit
  <2>4. /\ \A u \in Threads \ {t} : pc'[u] = pc[u] /\ pc[u] \notin BusAction
        /\ pc'[t] = q /\ pc'[Main] # "ended" /\ pc[Main] # "ended"
    BY <2>1, <2>2, <2>3, MovesAlone
  <2>5. PhaseTells'
    BY <1>8, <1>0, <1>p DEF Activate, Connected, At, PhaseTells, StateTypes, bus, task, proc,
       BeforeStart, BeforeHandover, BeforeEnd
  <2>6. HandedOver'
    BY <1>8, <1>0, <1>p, <2>4 DEF Activate, Connected, At, Goto, PhaseTells, HandedOver,
       StateTypes, InDisconnect, InExit, BeforeStart, BeforeHandover,
       BeforeEnd, bus, task
  <2>7. (BeforeStart(q) /\ BeforeHandover(q) /\ BeforeEnd(q))'
    BY <1>8, <1>0, <1>p, <2>2, <2>4 DEF Activate, Connected, At, Goto, PhaseTells,
       HandedOver, StateTypes, BeforeStart, BeforeHandover, BeforeEnd, bus, task
  <2> QED BY <2>1, <2>2, <2>3, <2>5, <2>6, <2>7, StepKeeps
<1>9. CASE WaitOp(t)
  <2>1. pc[t] \in BusAction
    BY <1>9 DEF WaitOp, At, BusAction, InConnect, InDisconnect
  <2>2. PICK q \in {"handover", "idle", "enter"} : pc' = [pc EXCEPT ![t] = q]
    BY <1>9 DEF WaitOp, Connected, Goto
  <2>3. /\ q \in Where \ {"persist", "final", "ended"} /\ q \notin InExit
    BY <2>2 DEF Where, BusAction, InConnect, InDisconnect, InExit
  <2>4. /\ \A u \in Threads \ {t} : pc'[u] = pc[u] /\ pc[u] \notin BusAction
        /\ pc'[t] = q /\ pc'[Main] # "ended" /\ pc[Main] # "ended"
    BY <2>1, <2>2, <2>3, MovesAlone
  <2>5. PhaseTells'
    BY <1>9, <1>0, <1>p DEF WaitOp, Connected, At, PhaseTells, StateTypes, bus, task, proc,
       BeforeStart, BeforeHandover, BeforeEnd
  <2>6. HandedOver'
    BY <1>9, <1>0, <1>p, <2>4 DEF WaitOp, Connected, At, Goto, PhaseTells, HandedOver,
       StateTypes, InDisconnect, InExit, BeforeStart, BeforeHandover,
       BeforeEnd, bus, task
  <2>7. (BeforeStart(q) /\ BeforeHandover(q) /\ BeforeEnd(q))'
    BY <1>9, <1>0, <1>p, <2>2, <2>4 DEF WaitOp, Connected, At, Goto, PhaseTells,
       HandedOver, StateTypes, BeforeStart, BeforeHandover, BeforeEnd, bus, task
  <2> QED BY <2>1, <2>2, <2>3, <2>5, <2>6, <2>7, StepKeeps
<1>10. CASE Handover(t)
  <2>1. pc[t] \in BusAction
    BY <1>10 DEF Handover, At, BusAction, InConnect, InDisconnect
  <2>2. PICK q \in {"idle", "enter"} : pc' = [pc EXCEPT ![t] = q]
    BY <1>10 DEF Handover, Connected, Goto
  <2>3. /\ q \in Where \ {"persist", "final", "ended"} /\ q \notin InExit
    BY <2>2 DEF Where, BusAction, InConnect, InDisconnect, InExit
  <2>4. /\ \A u \in Threads \ {t} : pc'[u] = pc[u] /\ pc[u] \notin BusAction
        /\ pc'[t] = q /\ pc'[Main] # "ended" /\ pc[Main] # "ended"
    BY <2>1, <2>2, <2>3, MovesAlone
  <2>5. PhaseTells'
    BY <1>10, <1>0, <1>p DEF Handover, Connected, At, PhaseTells, StateTypes, bus, task, proc,
       BeforeStart, BeforeHandover, BeforeEnd
  <2>6. HandedOver'
    BY <1>10, <1>0, <1>p, <2>4 DEF Handover, Connected, At, Goto, PhaseTells, HandedOver,
       StateTypes, InDisconnect, InExit, BeforeStart, BeforeHandover,
       BeforeEnd, bus, task
  <2>7. (BeforeStart(q) /\ BeforeHandover(q) /\ BeforeEnd(q))'
    BY <1>10, <1>0, <1>p, <2>2, <2>4 DEF Handover, Connected, At, Goto, PhaseTells,
       HandedOver, StateTypes, BeforeStart, BeforeHandover, BeforeEnd, bus, task
  <2> QED BY <2>1, <2>2, <2>3, <2>5, <2>6, <2>7, StepKeeps
<1>11. CASE SlowDown(t)
  <2>1. pc[t] \in BusAction
    BY <1>11 DEF SlowDown, At, BusAction, InConnect, InDisconnect
  <2>2. PICK q \in {"quit"} : pc' = [pc EXCEPT ![t] = q]
    BY <1>11 DEF SlowDown, Goto
  <2>3. /\ q \in Where \ {"persist", "final", "ended"} /\ q \notin InExit
    BY <2>2 DEF Where, BusAction, InConnect, InDisconnect, InExit
  <2>4. /\ \A u \in Threads \ {t} : pc'[u] = pc[u] /\ pc[u] \notin BusAction
        /\ pc'[t] = q /\ pc'[Main] # "ended" /\ pc[Main] # "ended"
    BY <2>1, <2>2, <2>3, MovesAlone
  <2>5. PhaseTells'
    BY <1>11, <1>0, <1>p DEF SlowDown, At, PhaseTells, StateTypes, bus, task, proc,
       BeforeStart, BeforeHandover, BeforeEnd
  <2>6. HandedOver'
    BY <1>11, <1>0, <1>p, <2>4 DEF SlowDown, At, Goto, PhaseTells, HandedOver,
       StateTypes, InDisconnect, InExit, BeforeStart, BeforeHandover,
       BeforeEnd, bus, task
  <2>7. (BeforeStart(q) /\ BeforeHandover(q) /\ BeforeEnd(q))'
    BY <1>11, <1>0, <1>p, <2>2, <2>4 DEF SlowDown, At, Goto, PhaseTells,
       HandedOver, StateTypes, BeforeStart, BeforeHandover, BeforeEnd, bus, task
  <2> QED BY <2>1, <2>2, <2>3, <2>5, <2>6, <2>7, StepKeeps
<1>12. CASE requestStop(t, "quit", "join")
  <2>1. pc[t] \in BusAction
    BY <1>12 DEF requestStop, At, BusAction, InConnect, InDisconnect
  <2>2. PICK q \in {"join"} : pc' = [pc EXCEPT ![t] = q]
    BY <1>12 DEF requestStop, Goto
  <2>3. /\ q \in Where \ {"persist", "final", "ended"} /\ q \notin InExit
    BY <2>2 DEF Where, BusAction, InConnect, InDisconnect, InExit
  <2>4. /\ \A u \in Threads \ {t} : pc'[u] = pc[u] /\ pc[u] \notin BusAction
        /\ pc'[t] = q /\ pc'[Main] # "ended" /\ pc[Main] # "ended"
    BY <2>1, <2>2, <2>3, MovesAlone
  <2>5. PhaseTells'
    BY <1>12, <1>0, <1>p DEF requestStop, At, PhaseTells, StateTypes, bus, task, proc,
       BeforeStart, BeforeHandover, BeforeEnd
  <2>6. HandedOver'
    BY <1>12, <1>0, <1>p, <2>4 DEF requestStop, At, Goto, PhaseTells, HandedOver,
       StateTypes, InDisconnect, InExit, BeforeStart, BeforeHandover,
       BeforeEnd, bus, task
  <2>7. (BeforeStart(q) /\ BeforeHandover(q) /\ BeforeEnd(q))'
    BY <1>12, <1>0, <1>p, <2>2, <2>4 DEF requestStop, At, Goto, PhaseTells,
       HandedOver, StateTypes, BeforeStart, BeforeHandover, BeforeEnd, bus, task
  <2> QED BY <2>1, <2>2, <2>3, <2>5, <2>6, <2>7, StepKeeps
<1>13. CASE Joinable(t, "join", "joining", "off")
  <2>1. pc[t] \in BusAction
    BY <1>13 DEF Joinable, At, BusAction, InConnect, InDisconnect
  <2>2. PICK q \in {"joining", "off"} : pc' = [pc EXCEPT ![t] = q]
    BY <1>13 DEF Joinable, Goto
  <2>3. /\ q \in Where \ {"persist", "final", "ended"} /\ q \notin InExit
    BY <2>2 DEF Where, BusAction, InConnect, InDisconnect, InExit
  <2>4. /\ \A u \in Threads \ {t} : pc'[u] = pc[u] /\ pc[u] \notin BusAction
        /\ pc'[t] = q /\ pc'[Main] # "ended" /\ pc[Main] # "ended"
    BY <2>1, <2>2, <2>3, MovesAlone
  <2>5. PhaseTells'
    BY <1>13, <1>0, <1>p DEF Joinable, At, PhaseTells, StateTypes, bus, task, proc,
       BeforeStart, BeforeHandover, BeforeEnd
  <2>6. HandedOver'
    BY <1>13, <1>0, <1>p, <2>4 DEF Joinable, At, Goto, PhaseTells, HandedOver,
       StateTypes, InDisconnect, InExit, BeforeStart, BeforeHandover,
       BeforeEnd, bus, task
  <2>7. (BeforeStart(q) /\ BeforeHandover(q) /\ BeforeEnd(q))'
    BY <1>13, <1>0, <1>p, <2>2, <2>4 DEF Joinable, At, Goto, PhaseTells,
       HandedOver, StateTypes, BeforeStart, BeforeHandover, BeforeEnd, bus, task
  <2> QED BY <2>1, <2>2, <2>3, <2>5, <2>6, <2>7, StepKeeps
<1>14. CASE join(t, "joining", "off")
  <2>1. pc[t] \in BusAction
    BY <1>14 DEF join, At, BusAction, InConnect, InDisconnect
  <2>2. PICK q \in {"off"} : pc' = [pc EXCEPT ![t] = q]
    BY <1>14 DEF join, Goto
  <2>3. /\ q \in Where \ {"persist", "final", "ended"} /\ q \notin InExit
    BY <2>2 DEF Where, BusAction, InConnect, InDisconnect, InExit
  <2>4. /\ \A u \in Threads \ {t} : pc'[u] = pc[u] /\ pc[u] \notin BusAction
        /\ pc'[t] = q /\ pc'[Main] # "ended" /\ pc[Main] # "ended"
    BY <2>1, <2>2, <2>3, MovesAlone
  <2>5. PhaseTells'
    BY <1>14, <1>0, <1>p DEF join, At, PhaseTells, StateTypes, bus, task, proc,
       BeforeStart, BeforeHandover, BeforeEnd
  <2>6. HandedOver'
    BY <1>14, <1>0, <1>p, <2>4 DEF join, At, Goto, PhaseTells, HandedOver,
       StateTypes, InDisconnect, InExit, BeforeStart, BeforeHandover,
       BeforeEnd, bus, task
  <2>7. (BeforeStart(q) /\ BeforeHandover(q) /\ BeforeEnd(q))'
    BY <1>14, <1>0, <1>p, <2>2, <2>4 DEF join, At, Goto, PhaseTells,
       HandedOver, StateTypes, BeforeStart, BeforeHandover, BeforeEnd, bus, task
  <2> QED BY <2>1, <2>2, <2>3, <2>5, <2>6, <2>7, StepKeeps
<1>15. CASE TakeBusBack(t)
  <2>1. pc[t] \in BusAction
    BY <1>15 DEF TakeBusBack, At, BusAction, InConnect, InDisconnect
  <2>2. PICK q \in {"deactivate"} : pc' = [pc EXCEPT ![t] = q]
    BY <1>15 DEF TakeBusBack, Goto
  <2>3. /\ q \in Where \ {"persist", "final", "ended"} /\ q \notin InExit
    BY <2>2 DEF Where, BusAction, InConnect, InDisconnect, InExit
  <2>4. /\ \A u \in Threads \ {t} : pc'[u] = pc[u] /\ pc[u] \notin BusAction
        /\ pc'[t] = q /\ pc'[Main] # "ended" /\ pc[Main] # "ended"
    BY <2>1, <2>2, <2>3, MovesAlone
  <2>5. PhaseTells'
    BY <1>15, <1>0, <1>p DEF TakeBusBack, At, PhaseTells, StateTypes, bus, task, proc,
       BeforeStart, BeforeHandover, BeforeEnd
  <2>6. HandedOver'
    BY <1>15, <1>0, <1>p, <2>4 DEF TakeBusBack, At, Goto, PhaseTells, HandedOver,
       StateTypes, InDisconnect, InExit, BeforeStart, BeforeHandover,
       BeforeEnd, bus, task
  <2>7. (BeforeStart(q) /\ BeforeHandover(q) /\ BeforeEnd(q))'
    BY <1>15, <1>0, <1>p, <2>2, <2>4 DEF TakeBusBack, At, Goto, PhaseTells,
       HandedOver, StateTypes, BeforeStart, BeforeHandover, BeforeEnd, bus, task
  <2> QED BY <2>1, <2>2, <2>3, <2>5, <2>6, <2>7, StepKeeps
<1>16. CASE deactivate(t)
  <2>1. pc[t] \in BusAction
    BY <1>16 DEF deactivate, At, BusAction, InConnect, InDisconnect
  <2>2. PICK q \in {"release"} : pc' = [pc EXCEPT ![t] = q]
    BY <1>16 DEF deactivate, Goto
  <2>3. /\ q \in Where \ {"persist", "final", "ended"} /\ q \notin InExit
    BY <2>2 DEF Where, BusAction, InConnect, InDisconnect, InExit
  <2>4. /\ \A u \in Threads \ {t} : pc'[u] = pc[u] /\ pc[u] \notin BusAction
        /\ pc'[t] = q /\ pc'[Main] # "ended" /\ pc[Main] # "ended"
    BY <2>1, <2>2, <2>3, MovesAlone
  <2>5. PhaseTells'
    BY <1>16, <1>0, <1>p DEF deactivate, At, PhaseTells, StateTypes, bus, task, proc,
       BeforeStart, BeforeHandover, BeforeEnd
  <2>6. HandedOver'
    BY <1>16, <1>0, <1>p, <2>4 DEF deactivate, At, Goto, PhaseTells, HandedOver,
       StateTypes, InDisconnect, InExit, BeforeStart, BeforeHandover,
       BeforeEnd, bus, task
  <2>7. (BeforeStart(q) /\ BeforeHandover(q) /\ BeforeEnd(q))'
    BY <1>16, <1>0, <1>p, <2>2, <2>4 DEF deactivate, At, Goto, PhaseTells,
       HandedOver, StateTypes, BeforeStart, BeforeHandover, BeforeEnd, bus, task
  <2> QED BY <2>1, <2>2, <2>3, <2>5, <2>6, <2>7, StepKeeps
<1>17. CASE release(t)
  <2>1. pc[t] \in BusAction
    BY <1>17 DEF release, At, BusAction, InConnect, InDisconnect
  <2>2. PICK q \in {"check", "stop_ipc", "idle"} : pc' = [pc EXCEPT ![t] = q]
    BY <1>17 DEF release, ReleaseMaster, Disconnected, Goto
  <2>3. /\ q \in Where \ {"persist", "final", "ended"} /\ q \notin InExit
    BY <2>2 DEF Where, BusAction, InConnect, InDisconnect, InExit
  <2>4. /\ \A u \in Threads \ {t} : pc'[u] = pc[u] /\ pc[u] \notin BusAction
        /\ pc'[t] = q /\ pc'[Main] # "ended" /\ pc[Main] # "ended"
    BY <2>1, <2>2, <2>3, MovesAlone
  <2>5. PhaseTells'
    BY <1>17, <1>0, <1>p DEF release, ReleaseMaster, Disconnected, At, PhaseTells, StateTypes, bus, task, proc,
       BeforeStart, BeforeHandover, BeforeEnd
  <2>6. HandedOver'
    BY <1>17, <1>0, <1>p, <2>4 DEF release, ReleaseMaster, Disconnected, At, Goto, PhaseTells, HandedOver,
       StateTypes, InDisconnect, InExit, BeforeStart, BeforeHandover,
       BeforeEnd, bus, task
  <2>7. (BeforeStart(q) /\ BeforeHandover(q) /\ BeforeEnd(q))'
    BY <1>17, <1>0, <1>p, <2>2, <2>4 DEF release, ReleaseMaster, Disconnected, At, Goto, PhaseTells,
       HandedOver, StateTypes, BeforeStart, BeforeHandover, BeforeEnd, bus, task
  <2> QED BY <2>1, <2>2, <2>3, <2>5, <2>6, <2>7, StepKeeps
<1> QED
  BY <1>1, <1>2, <1>3, <1>4, <1>5, <1>6, <1>7, <1>8, <1>9, <1>10, <1>11,
      <1>12, <1>13, <1>14, <1>15, <1>16, <1>17
  DEF ConnectStep, DisconnectStep

(* A thread that moves outside the bus actions changes nothing they need.  *)
LEMMA QuietMove ==
  ASSUME HostInv, UNCHANGED <<bus, task>>, NEW t \in Threads,
         pc[t] \notin BusAction \cup {"gone", "persist", "final", "ended"},
         NEW q \in Where \ (BusAction \cup {"persist", "final", "ended"}),
         pc' = [pc EXCEPT ![t] = q]
  PROVE  HostInv'
<1>1. /\ pc' \in [Threads -> Where] /\ pc'[t] = q
      /\ \A u \in Threads \ {t} : pc'[u] = pc[u]
  BY DEF HostInv
<1>2. t # Main => pc[Main] \notin {"persist", "final", "ended"} \cup InExit
  BY DEF HostInv, ServersGone
<1>3. Exclusive'
  BY <1>1 DEF HostInv, Exclusive
<1>4. ServersGone'
  BY <1>1, <1>2, MainIsThread DEF HostInv, ServersGone, task, BusAction
<1>5. PhaseTells'
  BY DEF HostInv, PhaseTells, bus, task
<1>6. HandedOver'
  BY <1>1, <1>2, MainIsThread
     DEF HostInv, HandedOver, bus, task, BusAction
<1>7. ASSUME NEW u \in Threads
      PROVE  (BeforeStart(pc[u]) /\ BeforeHandover(pc[u]) /\ BeforeEnd(pc[u]))'
  <2>1. CASE u = t
    BY <1>1, <2>1, NotThere DEF BeforeStart, BeforeHandover, BeforeEnd
  <2>2. CASE u # t
    <3>1. pc'[u] = pc[u]
      BY <1>1, <2>2
    <3> QED BY <3>1 DEF HostInv, Places, BeforeStart, BeforeHandover,
                        BeforeEnd, bus, task
  <2> QED BY <2>1, <2>2
<1> QED BY <1>1, <1>3, <1>4, <1>5, <1>6, <1>7 DEF HostInv, Places

(* Nobody moves, and nothing they rely on changes.                         *)
LEMMA NobodyMoves ==
  ASSUME HostInv, UNCHANGED <<bus, task, pc>> PROVE HostInv'
  BY DEF HostInv, Exclusive, ServersGone, PhaseTells, HandedOver, Places,
         BeforeStart, BeforeHandover, BeforeEnd, bus, task

(* A bus action is begun, or the program is undefined from now on.         *)
LEMMA BeginKeeps ==
  ASSUME HostInv, UNCHANGED <<bus, task>>, NEW t \in Threads,
         pc[t] \notin BusAction \cup {"ended"},
         pc[Main] \notin {"persist", "final", "ended"} \cup InExit,
         NEW q \in {"check", "slow", "encoder"}, BeginBusAction(t, q),
         q = "encoder" => guardBlocking
  PROVE  HostInv'
<1>1. CASE pc' = pc
  BY <1>1, NobodyMoves
<1>2. CASE pc' # pc
  <2>1. /\ pc' = [pc EXCEPT ![t] = q]
        /\ \A o \in Threads \ {t} : pc[o] \notin BusAction
    BY <1>2 DEF BeginBusAction, Goto
  <2>2. q \in Where /\ q \notin InExit /\ q \notin {"persist", "final", "ended"}
    BY DEF Where, BusAction, InConnect, InDisconnect, InExit
  <2>3. /\ pc' \in [Threads -> Where] /\ pc'[t] = q
        /\ \A u \in Threads \ {t} : pc'[u] = pc[u]
    BY <2>1, <2>2 DEF HostInv
  <2>4. Exclusive'
    BY <2>1, <2>3 DEF Exclusive
  <2>5. ServersGone'
    BY <2>2, <2>3, MainIsThread DEF ServersGone
  <2>6. PhaseTells'
    BY DEF HostInv, PhaseTells, bus, task
  <2>7. HandedOver'
    <3>1. ASSUME NEW u \in Threads,
                 pc'[u] \notin InDisconnect \cup InExit \cup {"ended"}
          PROVE  pc[u] \notin InDisconnect \cup InExit \cup {"ended"}
      BY <2>3, <3>1 DEF BusAction
    <3>2. pc[Main] = "ended" => pc'[Main] = "ended"
      BY <2>3, MainIsThread
    <3> QED BY <3>1, <3>2 DEF HostInv, HandedOver, bus, task
  <2>8. ASSUME NEW u \in Threads
        PROVE  (BeforeStart(pc[u]) /\ BeforeHandover(pc[u]) /\ BeforeEnd(pc[u]))'
    <3>1. CASE u = t
      BY <2>3, <3>1 DEF BeforeStart, BeforeHandover, BeforeEnd, guardBlocking,
         HostInv, PhaseTells, bus
    <3>2. CASE u # t
      BY <2>1, <2>3, <3>2, NotThere DEF BeforeStart, BeforeHandover, BeforeEnd
    <3> QED BY <3>1, <3>2
  <2> QED BY <2>3, <2>4, <2>5, <2>6, <2>7, <2>8 DEF HostInv, Places
<1> QED BY <1>1, <1>2

(* The steps of the realtime thread.                                       *)
LEMMA RtKeeps ==
  ASSUME HostInv, StateTypes, RtStep PROVE HostInv'
<1>0. PhaseTells /\ HandedOver /\ Places /\ ServersGone /\ Exclusive
      /\ pc \in [Threads -> Where]
  BY DEF HostInv
<1>1. /\ pc' = pc /\ rt # "none" /\ rt' # "none"
      /\ UNCHANGED <<bus, quit, busActive>>
  BY DEF RtStep, EnterLoop, Look, Cycle, Exit
<1>2. \/ rt = "starting" /\ rt' = "looping"
      \/ rt = "looping" /\ quit /\ rt' = "exiting"
      \/ rt = "looping" /\ ~quit /\ busActive /\ rt' = "cycle"
      \/ rt = "cycle" /\ rt' = "looping"
      \/ rt = "exiting" /\ rt' = IF phase = "Active" THEN "pump" ELSE "ended"
      \/ rt = "pump" /\ rt' = "ended"
  BY DEF RtStep, EnterLoop, Look, Cycle, Exit
<1>3. Exclusive' /\ ServersGone' /\ pc' \in [Threads -> Where]
  BY <1>0, <1>1 DEF Exclusive, ServersGone
<1>4. rt' \in {"cycle", "pump"} => live
  BY <1>0, <1>1, <1>2 DEF PhaseTells, HandedOver, ServersGone
<1>5. PhaseTells'
  BY <1>0, <1>1, <1>4 DEF PhaseTells, bus
<1>6. HandedOver'
  BY <1>0, <1>1, <1>2 DEF HandedOver, bus
<1>7. Places'
  <2> SUFFICES ASSUME NEW t \in Threads
               PROVE  (BeforeStart(pc[t]) /\ BeforeHandover(pc[t]) /\ BeforeEnd(pc[t]))'
    BY DEF Places
  <2>1. BeforeStart(pc[t]) /\ BeforeHandover(pc[t]) /\ BeforeEnd(pc[t])
    BY <1>0 DEF Places
  <2> QED BY <1>1, <1>2, <2>1 DEF BeforeStart, BeforeHandover, BeforeEnd, bus
<1> QED BY <1>3, <1>5, <1>6, <1>7 DEF HostInv

(* The last steps of main: the destructors.                                *)
LEMMA ExitKeeps ==
  ASSUME HostInv, StateTypes,
         \/ requestStop(Main, "exit_quit", "exit_join")
         \/ Joinable(Main, "exit_join", "exit_joining", "exit_release")
         \/ join(Main, "exit_joining", "exit_release")
         \/ ReleaseAtExit
  PROVE  HostInv'
<1>0. PhaseTells /\ HandedOver /\ Places /\ ServersGone /\ Exclusive
      /\ pc \in [Threads -> Where]
  BY DEF HostInv
<1>1. pc[Main] \in InExit /\ pc[Main] # "ended"
  BY DEF requestStop, Joinable, join, ReleaseAtExit, At, InExit
<1>2. PICK q \in {"exit_join", "exit_joining", "exit_release", "ended"} :
             pc' = [pc EXCEPT ![Main] = q]
  BY DEF requestStop, Joinable, join, ReleaseAtExit, Goto
<1>3. /\ pc' \in [Threads -> Where] /\ pc'[Main] = q
      /\ \A c \in Threads \ {Main} : pc'[c] = "gone" /\ pc[c] = "gone"
  BY <1>0, <1>1, <1>2, MainIsThread
     DEF ServersGone, Where, BusAction, InExit
<1>4. Exclusive'
  BY <1>3 DEF Exclusive, BusAction, InConnect, InDisconnect, InExit
<1>5. /\ BeforeStart(pc[Main]) /\ BeforeHandover(pc[Main])
      /\ BeforeEnd(pc[Main])
  BY <1>0, MainIsThread DEF Places
<1>6. /\ pc[Main] = "exit_release" => rt = "none"
      /\ q = "ended" => pc[Main] = "exit_release" /\ rt' = rt
  BY <1>2, <1>3, <1>5, MainIsThread
     DEF BeforeEnd, requestStop, Joinable, join, ReleaseAtExit, At, Goto, task
<1>7. ServersGone'
  BY <1>3, <1>6 DEF ServersGone
<1>8. PhaseTells'
  BY <1>0, <1>5, <1>6
     DEF requestStop, Joinable, join, ReleaseAtExit, ReleaseMaster, At,
         BeforeEnd, PhaseTells, bus, task, StateTypes
<1>9. HandedOver'
  <2>1. pc'[Main] \in InExit \cup {"ended"}
    BY <1>3 DEF InExit
  <2>2. ((live <=> live') /\ (busActive <=> busActive')) \/ q = "ended"
    BY <1>1, <1>2, <1>3, MainIsThread
       DEF requestStop, Joinable, join, ReleaseAtExit, At, Goto, bus, task
  <2> QED BY <1>0, <1>1, <1>3, <2>1, <2>2, MainIsThread DEF HandedOver
<1>10. (BeforeStart(q) /\ BeforeHandover(q) /\ BeforeEnd(q))'
  BY <1>2, <1>3, <1>5, MainIsThread
     DEF requestStop, Joinable, join, ReleaseAtExit, At, Goto, bus, task,
         BeforeStart, BeforeHandover, BeforeEnd
<1>11. Places'
  <2> SUFFICES ASSUME NEW t \in Threads
               PROVE  (BeforeStart(pc[t]) /\ BeforeHandover(pc[t]) /\ BeforeEnd(pc[t]))'
    BY DEF Places
  <2>1. CASE t = Main
    BY <1>3, <1>10, <2>1 DEF BeforeStart, BeforeHandover, BeforeEnd
  <2>2. CASE t # Main
    <3>1. pc'[t] = "gone"
      BY <1>3, <2>2
    <3> QED BY <3>1 DEF BeforeStart, BeforeHandover, BeforeEnd
  <2> QED BY <2>1, <2>2
<1> QED BY <1>3, <1>4, <1>7, <1>8, <1>9, <1>11 DEF HostInv

(* ipc.stop(), and what main does behind it until its destructors.         *)
LEMMA BehindServers ==
  ASSUME HostInv, UNCHANGED <<bus, task>>,
         \/ StopIpc
         \/ Persist(Main, "persist", "final")
         \/ Persisted(Main, "final", "exit_quit")
  PROVE  HostInv'
<1>1. PICK q \in {"persist", "final", "exit_quit"} :
        /\ pc' \in [Threads -> Where] /\ pc'[Main] = q
        /\ \A c \in Threads \ {Main} : pc'[c] = "gone"
  <2>1. CASE StopIpc
    BY <2>1, MainIsThread DEF StopIpc, Where
  <2>2. CASE ~StopIpc
    <3>1. pc[Main] \in {"persist", "final"}
      BY <2>2 DEF Persist, Persisted, At
    <3>2. PICK q \in {"final", "exit_quit"} : pc' = [pc EXCEPT ![Main] = q]
      BY <2>2 DEF Persist, Persisted, Goto
    <3> QED BY <3>1, <3>2, MainIsThread
            DEF HostInv, ServersGone, Where, BusAction, InExit
  <2> QED BY <2>1, <2>2
<1>2. pc[Main] \in {"stop_ipc", "persist", "final"}
  BY DEF StopIpc, Persist, Persisted, At
<1>3. \A c \in Threads \ {Main} : pc[c] \in {"idle", "gone"}
  BY <1>2 DEF StopIpc, At, Threads, HostInv, ServersGone, Persist, Persisted
<1>4. Exclusive' /\ ServersGone'
  BY <1>1 DEF Exclusive, ServersGone, BusAction, InConnect, InDisconnect, InExit
<1>5. PhaseTells'
  BY DEF HostInv, PhaseTells, bus, task
<1>6. HandedOver'
  <2>1. \A t \in Threads : pc[t] \notin InDisconnect \cup InExit \cup {"ended"}
    BY <1>2, <1>3 DEF InDisconnect, InExit
  <2> QED BY <2>1, <1>2, MainIsThread DEF HostInv, HandedOver, bus, task
<1>7. ASSUME NEW t \in Threads
      PROVE  (BeforeStart(pc[t]) /\ BeforeHandover(pc[t]) /\ BeforeEnd(pc[t]))'
  <2>1. pc'[t] \in {"persist", "final", "exit_quit", "gone"}
    BY <1>1
  <2> QED BY <2>1 DEF BeforeStart, BeforeHandover, BeforeEnd
<1> QED BY <1>1, <1>4, <1>5, <1>6, <1>7 DEF HostInv, Places

(* A process that has just begun: no thread but main can be in a bus       *)
(* action, and main only at the beginning of a connect.                    *)
Fresh ==
  /\ \E first \in {"check", "enter"} : pc = Started(first)
  /\ phase = "Idle" /\ master = FALSE /\ domain = FALSE /\ live = FALSE
  /\ rt = "none" /\ busActive = FALSE

(* A process that has just begun satisfies HostInv.                        *)
LEMMA FreshInv == Fresh => HostInv
<1> SUFFICES ASSUME Fresh PROVE HostInv
  OBVIOUS
<1>0. PICK first \in {"check", "enter"} : pc = Started(first)
  BY DEF Fresh
<1>1. /\ pc \in [Threads -> Where] /\ pc[Main] = first
      /\ \A t \in Threads \ {Main} : pc[t] = "idle"
  BY <1>0, MainIsThread DEF Started, Where, BusAction, InConnect
<1>2. Exclusive /\ ServersGone
  BY <1>1 DEF Exclusive, ServersGone, BusAction, InConnect, InDisconnect, InExit
<1>3. PhaseTells /\ HandedOver
  BY DEF Fresh, PhaseTells, HandedOver
<1>4. ASSUME NEW t \in Threads
      PROVE  BeforeStart(pc[t]) /\ BeforeHandover(pc[t]) /\ BeforeEnd(pc[t])
  <2>1. pc[t] \in {"check", "enter", "idle"}
    BY <1>1
  <2> QED BY <2>1 DEF BeforeStart, BeforeHandover, BeforeEnd
<1> QED BY <1>1, <1>2, <1>3, <1>4 DEF HostInv, Places

(* HostInv is inductive.                                                   *)
LEMMA HostInvHolds == TypeOK /\ HostInv /\ [Next]_vars => HostInv'
<1> SUFFICES ASSUME TypeOK, HostInv, [Next]_vars PROVE HostInv'
  OBVIOUS
<1>0. StateTypes /\ ThreadTypes
  BY DEF TypeOK, StateTypes, ThreadTypes
<1>1. ASSUME NEW t \in Threads, ConnectStep(t) \/ DisconnectStep(t) PROVE HostInv'
  BY <1>0, <1>1, BusActionKeeps
<1>2. ASSUME RtStep PROVE HostInv'
  BY <1>0, <1>2, RtKeeps
<1>3. ASSUME NEW t \in Clients, Serving(t)
      PROVE  /\ t \in Threads
             /\ pc[t] \notin BusAction \cup {"gone", "persist", "final", "ended"}
             /\ pc[Main] \notin {"persist", "final", "ended"} \cup InExit
  BY <1>3 DEF Serving, At, Threads, BusAction, InConnect, InDisconnect, InExit
<1>4. ASSUME NEW t \in Clients, Command(t) PROVE HostInv'
  <2>1. CASE connect_bus(t)
    BY <1>3, <2>1, BeginKeeps DEF connect_bus
  <2>2. CASE disconnect_bus(t)
    BY <1>3, <2>2, BeginKeeps DEF disconnect_bus
  <2>3. CASE reconnect(t)
    BY <1>3, <2>3, BeginKeeps DEF reconnect
  <2>4. CASE reset_load_encoder(t)
    BY <1>3, <2>4, BeginKeeps DEF reset_load_encoder
  <2>5. CASE reset_total_moving_time(t)
    <3>1. "reset" \in Where \ (BusAction \cup {"persist", "final", "ended"})
      BY DEF Where, BusAction, InConnect, InDisconnect, InExit
    <3> QED BY <1>3, <2>5, <3>1, QuietMove DEF reset_total_moving_time, Goto
  <2> QED BY <1>4, <2>1, <2>2, <2>3, <2>4, <2>5 DEF Command
<1>5. ASSUME NEW t \in Threads, EncoderReset(t) PROVE HostInv'
  <2>1. pc[t] \in BusAction /\ pc' = [pc EXCEPT ![t] = "idle"]
    BY <1>5 DEF EncoderReset, At, Goto, BusAction
  <2>2. "idle" \in Where \ {"persist", "final", "ended"} /\ "idle" \notin InExit
    BY DEF Where, BusAction, InConnect, InDisconnect, InExit
  <2>3. /\ \A u \in Threads \ {t} : pc'[u] = pc[u]
        /\ pc'[t] = "idle" /\ pc'[Main] # "ended" /\ pc[Main] # "ended"
    BY <2>1, <2>2, MovesAlone
  <2>4. PhaseTells'
    BY <1>5 DEF EncoderReset, HostInv, PhaseTells, bus, task
  <2>5. HandedOver'
    BY <1>5, <2>3 DEF EncoderReset, At, HostInv, HandedOver, InDisconnect,
       InExit, bus, task
  <2>6. (BeforeStart("idle") /\ BeforeHandover("idle") /\ BeforeEnd("idle"))'
    BY DEF BeforeStart, BeforeHandover, BeforeEnd
  <2> QED BY <2>1, <2>2, <2>4, <2>5, <2>6, StepKeeps
<1>6. ASSUME NEW t \in Threads,
             NEW here \in {"reset", "saving", "enter", "loop"},
             NEW to \in {"saving", "idle", "loop", "stop_ipc"},
             At(t, here), Goto(t, to), UNCHANGED <<bus, task>>
      PROVE  HostInv'
  <2>1. to \in Where \ (BusAction \cup {"persist", "final", "ended"})
    BY <1>6 DEF Where, BusAction, InConnect, InDisconnect, InExit
  <2>2. pc[t] \notin BusAction \cup {"gone", "persist", "final", "ended"}
    BY <1>6 DEF At, BusAction, InConnect, InDisconnect, InExit
  <2> QED BY <1>6, <2>1, <2>2, QuietMove DEF Goto
<1>7. ASSUME NEW t \in Clients, ClientStep(t) PROVE HostInv'
  BY <1>1, <1>5, <1>6, <1>7 DEF ClientStep, Persist, Persisted, Threads
<1>8. ASSUME BeginExit PROVE HostInv'
  <2>1. CASE phase = "Active"
    <3>1. pc[Main] \notin BusAction \cup InExit \cup {"persist", "final", "ended"}
      BY <1>8 DEF BeginExit, At, BusAction, InConnect, InDisconnect, InExit
    <3> QED BY <1>8, <2>1, <3>1, MainIsThread, BeginKeeps DEF BeginExit
  <2>2. CASE phase # "Active"
    BY <1>6, <1>8, <2>2, MainIsThread DEF BeginExit
  <2> QED BY <2>1, <2>2
<1>9. ASSUME MainStep PROVE HostInv'
  <2>1. CASE EnterMainLoop \/ Tick \/ Persisted(Main, "saving", "loop")
    BY <1>6, <2>1, MainIsThread DEF EnterMainLoop, Tick, Persisted
  <2>2. CASE StopIpc \/ Persist(Main, "persist", "final")
               \/ Persisted(Main, "final", "exit_quit")
    <3>1. UNCHANGED <<bus, task>>
      BY <2>2 DEF StopIpc, Persist, Persisted
    <3> QED BY <2>2, <3>1, BehindServers
  <2> QED BY <1>0, <1>1, <1>8, <1>9, <2>1, <2>2, MainIsThread, ExitKeeps
          DEF MainStep
<1>10. ASSUME onSignal \/ (\E t \in Threads : Saving(t)) \/ UNCHANGED vars
       PROVE  HostInv'
  BY <1>10, NobodyMoves DEF onSignal, Saving, vars, bus, task
<1>11. ASSUME Boot PROVE HostInv'
  <2>1. Fresh'
    BY <1>11, Zenon DEF Boot, Fresh, Started
  <2> QED BY <2>1, FreshInv, PTL
<1> QED
  BY <1>2, <1>4, <1>7, <1>9, <1>10, <1>11 DEF Next

(* HostInv holds in every state, over any number of restarts.              *)
LEMMA HostInvAlways == Spec => []HostInv
<1>1. Init => Fresh
  BY DEF Init, Fresh
<1>2. Init => HostInv
  BY <1>1, FreshInv
<1> QED BY <1>2, HostInvHolds, TypeCorrect, PTL DEF Spec

(* For any number of clients, and however often the process is started:    *)
(* the realtime thread touches the bus only while it is up.                *)
THEOREM RtHasMaster == Spec => []RtOnLiveMaster
<1>1. HostInv => RtOnLiveMaster
  BY DEF HostInv, PhaseTells, RtOnLiveMaster
<1> QED BY <1>1, HostInvAlways, PTL

(* One thread at a time pumps the bus.                                     *)
THEOREM OneOwner == Spec => []OneBusOwner
<1>1. HostInv => OneBusOwner
  BY DEF HostInv, Places, BeforeHandover, OneBusOwner, At
<1> QED BY <1>1, HostInvAlways, PTL

(* From OP until a disconnect is begun somebody pumps.                     *)
THEOREM NoGap == Spec => []PumpedOnceUp
<1>1. HostInv => PumpedOnceUp
  <2> SUFFICES ASSUME HostInv,
                      busActive \/ (\E t \in Threads : At(t, "handover")),
                      \A t \in Threads :
                        pc[t] \notin InDisconnect \cup InExit \cup {"ended"}
               PROVE  live /\ ~quit /\ rt \in {"looping", "cycle"}
    BY DEF PumpedOnceUp
  <2>1. CASE busActive
    BY <2>1, MainIsThread DEF HostInv, HandedOver
  <2>2. CASE \E t \in Threads : At(t, "handover")
    BY <2>2 DEF HostInv, Places, BeforeHandover, At
  <2> QED BY <2>1, <2>2
<1> QED BY <1>1, HostInvAlways, PTL

(* No blocking SDO on an active master.                                    *)
THEOREM NeverBlocked == Spec => []NeverBlockedOnline
<1>1. HostInv => NeverBlockedOnline
  BY DEF HostInv, Places, BeforeStart, NeverBlockedOnline, Blocking
<1> QED BY <1>1, HostInvAlways, PTL

(* The realtime thread is joined once, and exists when it is waited for.   *)
THEOREM JoinedOnce == Spec => []ThreadJoinedOnce
<1>1. HostInv => ThreadJoinedOnce
  BY DEF HostInv, Places, BeforeStart, BeforeEnd, ThreadJoinedOnce, At
<1> QED BY <1>1, HostInvAlways, PTL

-----------------------------------------------------------------------------
(* The moving time.                                                        *)

(* As long as no two saves have overlapped and the disk was never full,    *)
(* the file holds what the last complete save promised, and the one saver  *)
(* has its own .tmp.                                                       *)
OneSaver ==
  \A t, u \in Threads : save[t] # "none" /\ save[u] # "none" => t = u

TmpIsMine ==
  \A t \in Threads :
    /\ held[t] = IF save[t] = "write" THEN "tmp" ELSE "none"
    /\ save[t] = "rename" => tmp = val[t]

StoreInv == ~spoiled => OneSaver /\ TmpIsMine /\ load = kept

(* The steps of a save keep that.                                          *)
LEMMA SaveStepKeeps ==
  ASSUME StoreTypeOK, StoreInv, NEW t \in Threads, SaveStep(t)
  PROVE  StoreInv'
<1> SUFFICES ASSUME ~spoiled' PROVE OneSaver' /\ TmpIsMine' /\ (load = kept)'
  BY DEF StoreInv
<1>0. OneSaver /\ TmpIsMine /\ load = kept /\ ~spoiled
  BY DEF StoreInv, SaveStep, OpenTmp, OpenFails, WriteTmp, RenameTmp,
         RenameFails
<1>1. save[t] # "none" /\ \A u \in Threads \ {t} : save[u] = "none"
  BY <1>0 DEF OneSaver, SaveStep, OpenTmp, OpenFails, WriteTmp, RenameTmp,
              RenameFails
<1>2. \A u \in Threads \ {t} : held[u] = "none"
  BY <1>0, <1>1 DEF TmpIsMine
<1>3. /\ save \in [Threads -> {"none", "open", "write", "rename"}]
      /\ val \in [Threads -> Total]
      /\ held \in [Threads -> {"none", "tmp", "path", "gone"}]
  BY DEF StoreTypeOK
<1>4. CASE OpenTmp(t)
  BY <1>0, <1>1, <1>2, <1>3, <1>4 DEF OpenTmp, OneSaver, TmpIsMine, load
<1>5. CASE OpenFails(t)
  BY <1>0, <1>1, <1>2, <1>3, <1>5
     DEF OpenFails, EndSave, files, OneSaver, TmpIsMine, load
<1>6. CASE WriteTmp(t)
  <2>1. held[t] = "tmp" /\ path' = path /\ tmp' = val[t] /\ kept' = kept
    BY <1>0, <1>6 DEF WriteTmp, TmpIsMine
  <2> QED BY <1>0, <1>1, <1>2, <1>3, <1>6, <2>1
          DEF WriteTmp, OneSaver, TmpIsMine, load
<1>7. CASE RenameTmp(t)
  <2>1. tmp = val[t] /\ held[t] = "none" /\ val[t] \in Total
    BY <1>0, <1>3, <1>7 DEF RenameTmp, TmpIsMine
  <2>2. \A u \in Threads : held'[u] = "none"
    BY <1>2, <1>7, <2>1 DEF RenameTmp, Moved
  <2> QED BY <1>0, <1>1, <1>3, <1>7, <2>1, <2>2
          DEF RenameTmp, EndSave, OneSaver, TmpIsMine, load
<1>8. CASE RenameFails(t)
  <2>1. \A u \in Threads : held'[u] = "none"
    BY <1>0, <1>2, <1>8 DEF RenameFails, TmpIsMine
  <2> QED BY <1>0, <1>1, <1>3, <1>8, <2>1
          DEF RenameFails, EndSave, OneSaver, TmpIsMine, load
<1> QED BY <1>4, <1>5, <1>6, <1>7, <1>8 DEF SaveStep

(* A save is begun, or has spoiled another one.                            *)
LEMMA BeginSaveKeeps ==
  ASSUME StoreTypeOK, StoreInv, NEW t \in Threads, BeginSave(t)
  PROVE  StoreInv'
BY DEF StoreTypeOK, StoreInv, BeginSave, OneSaver, TmpIsMine, load, files

(* What does not touch the files or the savers keeps it too.               *)
LEMMA OtherStepKeeps ==
  ASSUME StoreInv, UNCHANGED <<files, savers, kept, spoiled>> PROVE StoreInv'
BY DEF StoreInv, OneSaver, TmpIsMine, load, files, savers

(* Every step of the process is one of the three, or a new start.          *)
LEMMA StoreSteps ==
  ASSUME TypeOK, [Next]_vars
  PROVE  \/ \E t \in Threads : SaveStep(t) \/ BeginSave(t)
         \/ UNCHANGED <<files, savers, kept, spoiled>>
         \/ Boot
<1>0. ThreadTypes /\ StateTypes
  BY DEF TypeOK, ThreadTypes, StateTypes
<1>1. ASSUME NEW t \in Threads, ConnectStep(t) \/ DisconnectStep(t)
      PROVE  UNCHANGED store
  BY <1>0, <1>1, BusActionTypes
<1>2. ASSUME NEW t \in Clients, Command(t)
      PROVE  UNCHANGED <<files, savers, kept, spoiled>>
  BY <1>2 DEF Command, connect_bus, disconnect_bus, reconnect,
     reset_load_encoder, reset_total_moving_time, store
<1>3. ASSUME NEW t \in Clients, ClientStep(t)
      PROVE  BeginSave(t) \/ UNCHANGED store
  BY <1>1, <1>3 DEF ClientStep, EncoderReset, Persist, Persisted, Threads
<1>4. ASSUME MainStep PROVE BeginSave(Main) \/ UNCHANGED store
  BY <1>1, <1>4, MainIsThread
     DEF MainStep, EnterMainLoop, Tick, Persist, Persisted, BeginExit, StopIpc,
         requestStop, Joinable, join, ReleaseAtExit
<1>5. ASSUME RtStep PROVE UNCHANGED <<files, savers, kept, spoiled>>
  BY <1>5 DEF RtStep, EnterLoop, Look, Cycle, Exit, store
<1>6. ASSUME onSignal \/ UNCHANGED vars PROVE UNCHANGED store
  BY <1>6 DEF onSignal, vars
<1> QED
  BY <1>2, <1>3, <1>4, <1>5, <1>6, MainIsThread
     DEF Next, Saving, store, Threads

(* StoreInv is inductive, relative to the types.                           *)
LEMMA StoreInvHolds == TypeOK /\ StoreInv /\ [Next]_vars => StoreInv'
<1> SUFFICES ASSUME TypeOK, StoreInv, [Next]_vars PROVE StoreInv'
  OBVIOUS
<1>1. StoreTypeOK
  BY DEF TypeOK
<1>2. CASE Boot
  BY <1>1, <1>2
     DEF Boot, StoreBoot, StoreInv, OneSaver, TmpIsMine, load, files
<1> QED BY <1>1, <1>2, StoreSteps, SaveStepKeeps, BeginSaveKeeps, OtherStepKeeps

(* StoreInv holds in every state.                                          *)
LEMMA StoreInvAlways == Spec => []StoreInv
<1>1. Init => StoreInv
  BY DEF Init, StoreInit, NoSaver, StoreInv, OneSaver, TmpIsMine, load, Total,
         Absent
<1> QED BY <1>1, StoreInvHolds, TypeCorrect, PTL DEF Spec

(* The next process begins with the moving time of the last complete save. *)
THEOREM NothingForgotten == Spec => BootKeepsTotal
<1>1. StoreInv => (Boot /\ ~spoiled => total' = kept)
  BY DEF StoreInv, Boot, StoreBoot
<1> QED BY <1>1, StoreInvAlways, PTL DEF BootKeepsTotal

(* The file is not empty, as long as nothing has spoiled it.               *)
Whole == ~spoiled => path # Empty

(* For any number of clients and starts: a full disk, or two saves at once *)
(* that share the .tmp, are the only ways to an empty file.  (NeverHalf,   *)
(* without the exception, fails: the run store_half.)                      *)
THEOREM HalfOnlyWhenSpoiled == Spec => []Whole
<1>1. Init => Whole
  BY DEF Init, StoreInit, Whole, Absent, Empty
<1>2. ASSUME TypeOK, StoreInv, Whole, [Next]_vars PROVE Whole'
  <2>1. spoiled => spoiled'
    BY <1>2, StoreSteps
       DEF SaveStep, OpenTmp, OpenFails, WriteTmp, RenameTmp, RenameFails,
           BeginSave, Boot, StoreBoot
  <2>2. UNCHANGED path => Whole'
    BY <1>2, <2>1 DEF Whole
  <2>3. ASSUME NEW t \in Threads, WriteTmp(t), ~spoiled' PROVE UNCHANGED path
    BY <1>2, <2>1, <2>3 DEF WriteTmp, StoreInv, TmpIsMine
  <2>4. ASSUME NEW t \in Threads, RenameTmp(t), ~spoiled' PROVE path' \in Total
    BY <1>2, <2>1, <2>4
       DEF RenameTmp, StoreInv, TmpIsMine, TypeOK, StoreTypeOK
  <2>5. \/ UNCHANGED path
        \/ \E t \in Threads : WriteTmp(t) \/ RenameTmp(t)
    BY <1>2, StoreSteps
       DEF SaveStep, OpenTmp, OpenFails, RenameFails, BeginSave, Boot, StoreBoot,
           files
  <2> QED BY <2>2, <2>3, <2>4, <2>5, StoreAssumption DEF Whole, Total, Empty
<1>3. TypeOK /\ StoreInv /\ Whole /\ [Next]_vars => Whole'
  BY <1>2
<1> QED BY <1>1, <1>3, TypeCorrect, StoreInvAlways, PTL DEF Spec

(* While main is in its last save nobody counts any more: the clients have *)
(* ended, and the realtime thread counts only while bus_active_ is up.     *)
LastInv ==
  /\ rt = "cycle" => busActive
  /\ ~busActive /\ pc[Main] = "final" /\ save[Main] # "none"
       => val[Main] = total

(* No step of a bus action leads main to its last save, or happens then.   *)
LEMMA NotFinal ==
  ASSUME HostInv, NEW t \in Threads, ConnectStep(t) \/ DisconnectStep(t)
  PROVE  pc'[Main] # "final"
<1>1. pc[t] \in BusAction
  BY DEF ConnectStep, Check, RequestMaster, buildPdos, WriteStartup, StartTask,
     TaskStarted, Diagnose, Activate, WaitOp, Handover, DisconnectStep,
     SlowDown, requestStop, Joinable, join, TakeBusBack, deactivate, release,
     At, BusAction, InConnect, InDisconnect
<1>2. PICK q \in Where \ {"final"} : pc' = [pc EXCEPT ![t] = q]
  BY DEF ConnectStep, Check, RequestMaster, buildPdos, WriteStartup, StartTask,
     TaskStarted, Diagnose, Activate, WaitOp, Handover, DisconnectStep,
     SlowDown, requestStop, Joinable, join, TakeBusBack, deactivate, release,
     Connected, Disconnected, Goto, Where, BusAction, InConnect, InDisconnect
<1>3. pc[Main] # "final"
  BY <1>1, Alone
<1> QED BY <1>2, <1>3, MainIsThread DEF HostInv

(* The realtime thread is not in a cycle when bus_active_ is taken down.   *)
LEMMA NotInCycle ==
  ASSUME HostInv, LastInv, NEW t \in Threads,
         ConnectStep(t) \/ DisconnectStep(t)
  PROVE  (rt = "cycle" => busActive)'
<1>1. CASE ConnectStep(t)
  BY <1>1 DEF LastInv, ConnectStep, Check, RequestMaster, buildPdos,
     WriteStartup, StartTask, TaskStarted, Diagnose, Activate, WaitOp, Handover,
     task
<1>2. CASE TakeBusBack(t)
  BY <1>2 DEF TakeBusBack, At, HostInv, Places, BeforeEnd
<1>3. CASE DisconnectStep(t) /\ ~TakeBusBack(t)
  BY <1>3 DEF LastInv, DisconnectStep, SlowDown, requestStop, Joinable, join,
     deactivate, release, task
<1> QED BY <1>1, <1>2, <1>3

(* LastInv is inductive, relative to the other invariants.                 *)
LEMMA LastInvHolds ==
  TypeOK /\ HostInv /\ LastInv /\ [Next]_vars => LastInv'
<1> SUFFICES ASSUME TypeOK, HostInv, LastInv, [Next]_vars PROVE LastInv'
  OBVIOUS
<1>0. /\ StoreTypeOK /\ StateTypes /\ ThreadTypes
      /\ pc \in [Threads -> Where] /\ val \in [Threads -> Total]
      /\ save \in [Threads -> {"none", "open", "write", "rename"}]
  BY DEF TypeOK, StateTypes, ThreadTypes, HostInv, StoreTypeOK
<1>1. ASSUME NEW t \in Threads, ConnectStep(t) \/ DisconnectStep(t) PROVE LastInv'
  BY <1>1, NotFinal, NotInCycle DEF LastInv
<1>2. ASSUME RtStep PROVE LastInv'
  <2>1. /\ UNCHANGED <<busActive, pc, save, val>> /\ (rt' = "cycle" => busActive)
        /\ (busActive \/ total' = total)
    BY <1>2 DEF RtStep, EnterLoop, Look, Cycle, Exit, store, savers, LastInv
  <2> QED BY <2>1 DEF LastInv
<1>3. ASSUME NEW t \in Clients, Serving(t) PROVE t \in Threads /\ t # Main
                                               /\ pc[Main] # "final"
  BY <1>3, StoreAssumption DEF Serving, Threads, InConnect, InDisconnect
<1>4. ASSUME NEW t \in Clients, Command(t) PROVE LastInv'
  <2>1. Serving(t) /\ UNCHANGED task
    BY <1>4 DEF Command, connect_bus, disconnect_bus, reconnect,
       reset_load_encoder, reset_total_moving_time
  <2>2. PICK q \in Where \ {"final"} : pc' = [pc EXCEPT ![t] = q] \/ pc' = pc
    BY <1>4 DEF Command, connect_bus, disconnect_bus, reconnect, BeginBusAction,
       reset_load_encoder, reset_total_moving_time, Goto, Where, BusAction,
       InConnect, InDisconnect
  <2>3. pc'[Main] # "final"
    BY <1>0, <1>3, <2>1, <2>2, MainIsThread
  <2> QED BY <2>1, <2>3 DEF LastInv, task
<1>5. ASSUME NEW t \in Threads, EncoderReset(t) PROVE LastInv'
  <2>1. UNCHANGED <<task, store>> /\ pc' = [pc EXCEPT ![t] = "idle"]
    BY <1>5 DEF EncoderReset, Goto
  <2>2. pc'[Main] = "final" => pc[Main] = "final"
    BY <1>0, <2>1, MainIsThread
  <2> QED BY <2>1, <2>2 DEF LastInv, task, store, savers
<1>6. ASSUME NEW t \in Clients, Persist(t, "reset", "saving") PROVE LastInv'
  <2>1. /\ UNCHANGED <<task, total>> /\ pc' = [pc EXCEPT ![t] = "saving"]
        /\ save' = [save EXCEPT ![t] = "open"]
        /\ val' = [val EXCEPT ![t] = total] /\ t \in Threads /\ t # Main
    BY <1>6, StoreAssumption DEF Persist, BeginSave, Goto, Threads
  <2>2. pc'[Main] = pc[Main] /\ save'[Main] = save[Main] /\ val'[Main] = val[Main]
    BY <1>0, <2>1, MainIsThread
  <2> QED BY <2>1, <2>2 DEF LastInv, task
<1>7. ASSUME NEW t \in Threads, NEW here,
             NEW to \in {"idle", "loop", "exit_quit"}, Persisted(t, here, to)
      PROVE  LastInv'
  <2>1. UNCHANGED <<task, store>> /\ pc' = [pc EXCEPT ![t] = to]
    BY <1>7 DEF Persisted, Goto
  <2>2. pc'[Main] = "final" => pc[Main] = "final"
    BY <1>0, <2>1, MainIsThread
  <2> QED BY <2>1, <2>2 DEF LastInv, task, store, savers
<1>8. ASSUME Persist(Main, "persist", "final") PROVE LastInv'
  <2>1. UNCHANGED <<task, total>> /\ val' = [val EXCEPT ![Main] = total]
    BY <1>8 DEF Persist, BeginSave
  <2> QED BY <1>0, <2>1, MainIsThread DEF LastInv, task
<1>9. ASSUME EnterMainLoop \/ Tick \/ BeginExit \/ StopIpc PROVE LastInv'
  <2>1. UNCHANGED task /\ pc[Main] # "final"
    BY <1>9 DEF EnterMainLoop, Tick, BeginExit, StopIpc, At
  <2>2. pc'[Main] # "final"
    BY <1>0, <1>9, MainIsThread
       DEF EnterMainLoop, Tick, BeginExit, StopIpc, At, BeginBusAction, Goto
  <2> QED BY <2>1, <2>2 DEF LastInv, task
<1>10. ASSUME \/ requestStop(Main, "exit_quit", "exit_join")
              \/ Joinable(Main, "exit_join", "exit_joining", "exit_release")
              \/ join(Main, "exit_joining", "exit_release")
              \/ ReleaseAtExit
       PROVE  LastInv'
  <2>1. PICK q \in {"exit_join", "exit_joining", "exit_release", "ended"} :
               pc' = [pc EXCEPT ![Main] = q]
    BY <1>10 DEF requestStop, Joinable, join, ReleaseAtExit, Goto
  <2>2. pc'[Main] # "final"
    BY <1>0, <2>1, MainIsThread
  <2>3. (rt = "cycle" => busActive)'
    BY <1>10 DEF LastInv, requestStop, Joinable, join, ReleaseAtExit, task
  <2> QED BY <2>2, <2>3 DEF LastInv
<1>11. ASSUME NEW t \in Threads, Saving(t) PROVE LastInv'
  <2>1. UNCHANGED <<task, pc, total>>
    BY <1>11 DEF Saving, SaveStep, OpenTmp, OpenFails, WriteTmp, RenameTmp,
       RenameFails, files
  <2>2. save'[Main] # "none" => save[Main] # "none" /\ val'[Main] = val[Main]
    BY <1>0, <1>11, MainIsThread
       DEF Saving, SaveStep, OpenTmp, OpenFails, WriteTmp, RenameTmp,
           RenameFails, EndSave, files
  <2> QED BY <2>1, <2>2 DEF LastInv, task
<1>12. ASSUME onSignal \/ UNCHANGED vars PROVE LastInv'
  BY <1>12 DEF onSignal, vars, LastInv, task, store, savers
<1>13. ASSUME Boot PROVE LastInv'
  <2>1. pc'[Main] # "final" /\ rt' = "none"
    BY <1>13, MainIsThread DEF Boot, Started
  <2> QED BY <2>1 DEF LastInv
<1>14. ASSUME NEW t \in Clients, ClientStep(t) PROVE LastInv'
  BY <1>1, <1>5, <1>6, <1>7, <1>14 DEF ClientStep, Threads
<1>15. ASSUME MainStep PROVE LastInv'
  BY <1>1, <1>7, <1>8, <1>9, <1>10, <1>15, MainIsThread DEF MainStep
<1> QED
  BY <1>2, <1>4, <1>11, <1>12, <1>13, <1>14, <1>15 DEF Next

(* What the last save puts in place is all of the moving time.             *)
THEOREM LastIsWhole == Spec => []LastSaveIsWhole
<1>1. Init => LastInv
  BY MainIsThread DEF Init, Started, LastInv
<1>2. Spec => []LastInv
  BY <1>1, LastInvHolds, TypeCorrect, HostInvAlways, PTL DEF Spec
<1>3. StoreInv /\ LastInv => LastSaveIsWhole
  BY MainIsThread DEF StoreInv, TmpIsMine, LastInv, LastSaveIsWhole, At
<1> QED BY <1>2, <1>3, StoreInvAlways, PTL
==============================================================================
