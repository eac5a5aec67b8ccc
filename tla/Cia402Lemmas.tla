---------------------------- MODULE Cia402Lemmas ----------------------------
(***************************************************************************)
(* Lemmas about the operators of Cia402 and MockDrive: the words the host  *)
(* sends, the states the drive answers with, and when one of them means    *)
(* power.  They hold for every length FrHold of the reset pulse.           *)
(***************************************************************************)
EXTENDS MockDrive, TLAPS

(* The states the status words of the drive stand for.                     *)
LEMMA Decoded ==
  /\ decodeState(SwFault) = "Fault"
  /\ decodeState(SwSwitchOnDisabled) = "SwitchOnDisabled"
  /\ decodeState(SwSwitchOnDisabled \cup {10}) = "SwitchOnDisabled"
  /\ decodeState(SwQuickStopActive) = "QuickStopActive"
  /\ decodeState(SwReadyToSwitchOn) = "ReadyToSwitchOn"
  /\ decodeState(SwSwitchedOn) = "SwitchedOn"
  /\ decodeState(SwOperationEnabled) = "OperationEnabled"
  /\ decodeState(SwFaultReaction) = "FaultReactionActive"
<1>1. decodeState(SwFault) = "Fault"
  BY DEF decodeState, SwFault
<1>2. decodeState(SwSwitchOnDisabled) = "SwitchOnDisabled"
  BY DEF decodeState, SwSwitchOnDisabled
<1>3. decodeState(SwSwitchOnDisabled \cup {10}) = "SwitchOnDisabled"
  BY DEF decodeState, SwSwitchOnDisabled
<1>4. decodeState(SwQuickStopActive) = "QuickStopActive"
  BY DEF decodeState, SwQuickStopActive
<1>5. decodeState(SwReadyToSwitchOn) = "ReadyToSwitchOn"
  BY DEF decodeState, SwReadyToSwitchOn
<1>6. decodeState(SwSwitchedOn) = "SwitchedOn"
  BY DEF decodeState, SwSwitchedOn
<1>7. decodeState(SwOperationEnabled) = "OperationEnabled"
  BY DEF decodeState, SwOperationEnabled
<1>8. decodeState(SwFaultReaction) = "FaultReactionActive"
  BY DEF decodeState, SwFaultReaction
<1> QED BY <1>1, <1>2, <1>3, <1>4, <1>5, <1>6, <1>7, <1>8

(* What the drive makes of each word.                                      *)
LEMMA PoweredWords ==
  /\ poweredWord(kCmdDisableVoltage) = SwSwitchOnDisabled \cup {10}
  /\ poweredWord(kFaultReset) = SwSwitchOnDisabled \cup {10}
  /\ poweredWord(kCmdQuickStop) = SwQuickStopActive
  /\ poweredWord(kCmdShutdown) = SwReadyToSwitchOn
  /\ poweredWord(kCmdSwitchOn) = SwSwitchedOn
  /\ poweredWord(kCmdEnableOperation) = SwOperationEnabled
BY DEF poweredWord, kCmdDisableVoltage, kFaultReset, kCmdQuickStop, kCmdShutdown,
       kCmdSwitchOn, kCmdEnableOperation

(* Only one word enables.                                                  *)
LEMMA WordsDiffer ==
  /\ kCmdDisableVoltage # kCmdEnableOperation
  /\ kCmdQuickStop # kCmdEnableOperation
  /\ kCmdShutdown # kCmdEnableOperation
  /\ kCmdSwitchOn # kCmdEnableOperation
  /\ kFaultReset # kCmdEnableOperation
BY DEF kCmdDisableVoltage, kFaultReset, kCmdQuickStop, kCmdShutdown,
       kCmdSwitchOn, kCmdEnableOperation

(* The words that reach the drive.                                         *)
LEMMA DriveWordTable ==
  DriveWord = {kCmdDisableVoltage, kFaultReset, kCmdQuickStop, kCmdShutdown,
               kCmdSwitchOn, kCmdEnableOperation}
BY DEF DriveWord, Controlword

(* The machine sends words the drive knows and keeps one without bit 7.    *)
LEMMA ControlwordType ==
  ASSUME NEW m \in Cia402Machine, NEW sw \in Statusword
  PROVE  controlword(m, sw) \in DriveWord /\ KeptWord(m, sw) \in Controlword
<1>1. TargetWord(m.target, decodeState(sw), m.lastCw) \in Controlword
  BY DEF TargetWord, EnableWord, Controlword, Cia402Machine, Cia402Target
<1>2. kCmdDisableVoltage \cup kFaultReset = kFaultReset
  BY DEF kCmdDisableVoltage
<1> QED BY <1>1, <1>2 DEF controlword, KeptWord, DriveWord, Controlword, Cia402Machine

(* update and the drive's step keep the types.                             *)
LEMMA UpdateType ==
  ASSUME NEW m \in Cia402Machine, NEW sw \in Statusword
  PROVE  update(m, sw) \in Cia402Machine
<1>1. decodeState(sw) \in Cia402State
  BY Decoded DEF Statusword, Cia402State
<1>2. KeptWord(m, sw) \in Controlword
  BY ControlwordType
<1>3. NextPhase(m) \in {"None", "Low", "High"}
  BY DEF NextPhase, Cia402Machine
<1>4. NextCounter(m) \in Nat
  <2>1. m.frPhase \in {"None", "Low", "High"} /\ m.frCounter \in Nat
    BY DEF Cia402Machine
  <2>2. (IF HoldOver(m) THEN 0 ELSE m.frCounter + 1) \in Nat
    BY <2>1
  <2> QED BY <2>1, <2>2 DEF NextCounter
<1> QED BY <1>1, <1>2, <1>3, <1>4 DEF update, Cia402Machine

(* The drive's record after a cycle.                                       *)
LEMMA DriveType ==
  ASSUME NEW d \in Drive, NEW w \in DriveWord
  PROVE  updateCia402(d, w) \in Drive
<1>1. poweredWord(w) \in Statusword
  BY PoweredWords, DriveWordTable DEF Statusword
<1> QED BY <1>1 DEF updateCia402, Drive, faultResetEdge, Statusword

(* Bit 7 is in one word only.                                              *)
LEMMA Bit7 ==
  ASSUME NEW w \in DriveWord
  PROVE  7 \in w <=> w = kFaultReset
BY DriveWordTable
   DEF kCmdDisableVoltage, kFaultReset, kCmdQuickStop, kCmdShutdown,
       kCmdSwitchOn, kCmdEnableOperation

(* The word of each phase.                                                 *)
LEMMA PhaseWord ==
  ASSUME NEW m \in Cia402Machine, NEW sw \in Statusword
  PROVE  /\ m.frPhase = "Low" => controlword(m, sw) = kCmdDisableVoltage
         /\ m.frPhase = "High" => controlword(m, sw) = kFaultReset
         /\ m.frPhase = "None" =>
              /\ controlword(m, sw) = TargetWord(m.target, decodeState(sw), m.lastCw)
              /\ controlword(m, sw) \in Controlword
<1>1. kCmdDisableVoltage \cup kFaultReset = kFaultReset
  BY DEF kCmdDisableVoltage
<1>2. m.frPhase = "None" => KeptWord(m, sw) = controlword(m, sw)
  BY DEF KeptWord
<1> QED BY <1>1, <1>2, ControlwordType DEF controlword

(* The word 0F is the outcome of Idle repeating it or of Enable Operation  *)
(* on the two uppermost rungs.                                             *)
LEMMA EnablingWord ==
  ASSUME NEW m \in Cia402Machine, NEW sw \in Statusword,
         controlword(m, sw) = kCmdEnableOperation
  PROVE  /\ m.frPhase = "None"
         /\ \/ m.lastCw = kCmdEnableOperation
            \/ decodeState(sw) \in {"SwitchedOn", "OperationEnabled"}
<1>1. m.frPhase = "None"
  BY PhaseWord, WordsDiffer DEF Cia402Machine
<1>2. TargetWord(m.target, decodeState(sw), m.lastCw) = kCmdEnableOperation
  BY <1>1, PhaseWord
<1>3. m.target \in Cia402Target
  BY DEF Cia402Machine
<1>4. CASE m.target = "Idle"
  BY <1>1, <1>2, <1>4 DEF TargetWord
<1>5. CASE m.target = "EnableOperation"
  BY <1>1, <1>2, <1>5, WordsDiffer DEF TargetWord, EnableWord
<1>6. CASE m.target \notin {"Idle", "EnableOperation"}
  BY <1>2, <1>3, <1>6, WordsDiffer DEF TargetWord, Cia402Target
<1> QED BY <1>4, <1>5, <1>6

(* A cycle leaves the drive enabled exactly when the word was 0F and there *)
(* was no fault.                                                           *)
LEMMA EnabledBy ==
  ASSUME NEW d \in Drive, NEW w \in DriveWord
  PROVE  /\ DriveState(updateCia402(d, w)) = "OperationEnabled"
              <=> ~d.fault /\ w = kCmdEnableOperation
         /\ updateCia402(d, w).fault
              => d.fault /\ DriveState(updateCia402(d, w)) = "Fault"
<1>1. CASE d.fault
  <2>1. \/ updateCia402(d, w).sw = SwSwitchOnDisabled /\ ~updateCia402(d, w).fault
        \/ updateCia402(d, w).sw = SwFault
    BY <1>1 DEF updateCia402
  <2> QED BY <1>1, <2>1, Decoded DEF DriveState
<1>2. CASE ~d.fault
  <2>1. updateCia402(d, w).sw = poweredWord(w) /\ ~updateCia402(d, w).fault
    BY <1>2 DEF updateCia402, Drive
  <2>2. decodeState(poweredWord(w)) = "OperationEnabled" <=> w = kCmdEnableOperation
    BY DriveWordTable, PoweredWords, Decoded, WordsDiffer
  <2> QED BY <1>2, <2>1, <2>2 DEF DriveState
<1> QED BY <1>1, <1>2

(* The rungs of the ladder; everything else is below the first.            *)
Rung(state) ==
  CASE state = "SwitchOnDisabled" -> 1
    [] state = "ReadyToSwitchOn"  -> 2
    [] state = "SwitchedOn"       -> 3
    [] state = "OperationEnabled" -> 4
    [] OTHER                      -> 0

(* The answer of a drive without fault to the word of a rung is the next.  *)
LEMMA NextRung ==
  ASSUME NEW d \in Drive, ~d.fault
  PROVE  LET after == DriveState(updateCia402(d, EnableWord(DriveState(d))))
         IN  \/ Rung(DriveState(d)) = 4 /\ Rung(after) = 4
             \/ Rung(after) = Rung(DriveState(d)) + 1
<1> DEFINE state == DriveState(d)
           word  == EnableWord(state)
<1>1. DriveState(updateCia402(d, word)) = decodeState(poweredWord(word))
  BY DEF updateCia402, Drive, DriveState
<1>2. CASE state = "SwitchOnDisabled"
  BY <1>1, <1>2, PoweredWords, Decoded DEF EnableWord, Rung
<1>3. CASE state = "ReadyToSwitchOn"
  BY <1>1, <1>3, PoweredWords, Decoded DEF EnableWord, Rung
<1>4. CASE state \in {"SwitchedOn", "OperationEnabled"}
  BY <1>1, <1>4, PoweredWords, Decoded DEF EnableWord, Rung
<1>5. CASE state \notin {"SwitchOnDisabled", "ReadyToSwitchOn", "SwitchedOn",
                         "OperationEnabled"}
  BY <1>1, <1>5, PoweredWords, Decoded DEF EnableWord, Rung
<1> QED BY <1>2, <1>3, <1>4, <1>5
=============================================================================
