------------------------- MODULE Pn54xSystemProofs -------------------------
(***************************************************************************)
(* The composition of Pn54xSystem.tla, for every value of its constants:   *)
(* what was proved about each of its two parts holds in it, because its    *)
(* steps are theirs, and from the invariants of both follow those that     *)
(* relate them.                                                            *)
(***************************************************************************)
EXTENDS Pn54xSystem, Pn54xNfcAdapterProofs

(* The theorems about the I/O object, for the one of the system *)
IOP == INSTANCE Pn54xIoDataProofs WITH alive <- ioAlive, owed <- writeOwed

-----------------------------------------------------------------------------
(***************************************************************************)
(* IO and IOP are two instances of the same definitions.                   *)
(***************************************************************************)
LEMMA SameInit ==
  ASSUME IO!Init
  PROVE  IOP!Init
BY DEF IO!Init, IOP!Init, IO!Children, IOP!Children, IO!HandleInit,
       IOP!HandleInit

LEMMA SameClientCalls ==
  ASSUME IO!ClientCalls
  PROVE  IOP!ClientCalls
BY DEF IO!ClientCalls, IOP!ClientCalls, IO!New, IOP!New, IO!writeVars,
       IOP!writeVars, IO!driverVars, IOP!driverVars, IO!historyVars,
       IOP!historyVars, IO!handleVars, IOP!handleVars, IO!Free, IOP!Free,
       IO!MayCall, IOP!MayCall, IO!StopIo, IOP!StopIo, IO!ClearReadBuf,
       IOP!ClearReadBuf, IO!Close, IOP!Close, IO!CloseFields,
       IOP!CloseFields, IO!Reaped, IOP!Reaped, IO!Children, IOP!Children,
       IO!Closed, IOP!Closed, IO!Count, IOP!Count, IO!Start, IOP!Start,
       IO!StartReader, IOP!StartReader, IO!SetReader, IOP!SetReader,
       IO!MayStart, IOP!MayStart, IO!FreeChildren, IOP!FreeChildren,
       IO!PipeFails, IOP!PipeFails, IO!ForkFails, IOP!ForkFails,
       IO!StartWithoutPipe, IOP!StartWithoutPipe, IO!StartWithoutFork,
       IOP!StartWithoutFork, IO!Stop, IOP!Stop, IO!Write, IOP!Write, IO!Open,
       IOP!Open, IO!CancelWrite, IOP!CancelWrite, IO!structVars,
       IOP!structVars, IO!SetPower, IOP!SetPower, IO!SwitchedOff,
       IOP!SwitchedOff, IO!LeftOpen, IOP!LeftOpen

LEMMA SamePipeFails ==
  ASSUME IO!PipeFails
  PROVE  IOP!PipeFails
BY DEF IO!PipeFails, IOP!PipeFails, IO!Close, IOP!Close, IO!CloseFields,
       IOP!CloseFields, IO!Reaped, IOP!Reaped, IO!Children, IOP!Children,
       IO!Closed, IOP!Closed, IO!Count, IOP!Count, IO!writeVars,
       IOP!writeVars, IO!driverVars, IOP!driverVars, IO!handleVars,
       IOP!handleVars

LEMMA SameRest ==
  ASSUME IO!Child \/ IO!MainLoop
  PROVE  IOP!Child \/ IOP!MainLoop
BY DEF IO!Child, IOP!Child, IO!ChildForwardAll, IOP!ChildForwardAll,
       IO!ChildForward, IOP!ChildForward, IO!structVars, IOP!structVars,
       IO!writeVars, IOP!writeVars, IO!historyVars, IOP!historyVars,
       IO!handleVars, IOP!handleVars, IO!ChildForwardPart,
       IOP!ChildForwardPart, IO!ChildExit, IOP!ChildExit, IO!driverVars,
       IOP!driverVars, IO!MainLoop, IOP!MainLoop, IO!WriteComplete,
       IOP!WriteComplete, IO!ReadCallback, IOP!ReadCallback, IO!HandleEnter,
       IOP!HandleEnter, IO!SkipPadding, IOP!SkipPadding, IO!Drop, IOP!Drop,
       IO!PadRun, IOP!PadRun, IO!IsPadRun, IOP!IsPadRun, IO!Pad, IOP!Pad,
       IO!ReadError, IOP!ReadError, IO!Children, IOP!Children, IO!WatchEnds,
       IOP!WatchEnds, IO!Deliver, IOP!Deliver, IO!HandleDeliver,
       IOP!HandleDeliver, IO!ReadPacketSize, IOP!ReadPacketSize, IO!otherVars,
       IOP!otherVars, IO!Return, IOP!Return, IO!HandleReturn,
       IOP!HandleReturn, IO!Residue, IOP!Residue

LEMMA SameStutter ==
  ASSUME UNCHANGED IO!vars
  PROVE  UNCHANGED IOP!vars
BY DEF IO!vars, IOP!vars, IO!structVars, IOP!structVars, IO!writeVars,
       IOP!writeVars, IO!driverVars, IOP!driverVars, IO!historyVars,
       IOP!historyVars, IO!handleVars, IOP!handleVars

LEMMA SameInvariant ==
  ASSUME IOP!LifecycleInv
  PROVE  IO!LifecycleInv
BY DEF IO!LifecycleInv, IOP!LifecycleInv, IO!ControlTypeOK, IOP!ControlTypeOK,
       IO!Children, IOP!Children, IO!Sessions, IOP!Sessions, IO!OneReader,
       IOP!OneReader, IO!StopQuiesces, IOP!StopQuiesces, IO!NeverSilentlyDeaf,
       IOP!NeverSilentlyDeaf, IO!DescriptorsAccounted,
       IOP!DescriptorsAccounted, IO!Count, IOP!Count, IO!CompletionOwed,
       IOP!CompletionOwed, IO!SessionHasClient, IOP!SessionHasClient

LEMMA SameAssumptions == IOP!FramingAssumption /\ IOP!IoAssumption
<1>1. IO!FramingAssumption /\ IO!IoAssumption
  BY SystemAssumption
<1>2. QED
  BY <1>1 DEF IO!FramingAssumption, IOP!FramingAssumption,
              IO!IoAssumption, IOP!IoAssumption, IO!Byte, IOP!Byte

-----------------------------------------------------------------------------
(* A step of the adapter, or none *)
LEMMA AdapterStepIsNext ==
  ASSUME AdapterStep
  PROVE  Next
BY DEF AdapterStep, Next, Step, Create, Destroy, BaseClassCalls,
       CoreCallsBack, CoreReturns

THEOREM SystemKeepsAdapter == SysSpec => Safety
<1>1. SysInit => Init
  BY DEF SysInit
<1>2. [SysNext]_sysVars => [Next]_vars
  <2>1. ASSUME AdapterStep
        PROVE  Next
    BY <2>1, AdapterStepIsNext
  <2>2. CASE CoreStarts \/ CoreStops \/ CoreWrites \/ ChildRuns
             \/ DataArrives \/ ErrorArrives
    BY <2>2 DEF CoreStarts, CoreStops, CoreWrites, ChildRuns, DataArrives,
                ErrorArrives
  <2>3. CASE UNCHANGED sysVars
    BY <2>3 DEF sysVars
  <2>4. QED
    BY <2>1, <2>2, <2>3 DEF SysNext
<1>3. QED
  BY <1>1, <1>2, PTL DEF SysSpec, Safety

(***************************************************************************)
(* The base class may rely on the same with the I/O object below the       *)
(* adapter and NciCore calling both.                                       *)
(***************************************************************************)
THEOREM SystemKeepsContract ==
  ASSUME ~Reentrant
  PROVE  SysSpec => PC!Safety
<1>1. Safety => PC!Safety
  BY KeepsPowerContract
<1>2. QED
  BY <1>1, SystemKeepsAdapter, PTL

LEMMA WorksOrNot ==
  ASSUME NEW switch \in Switches
  PROVE  switch.works \in BOOLEAN
<1>1. CASE switch = NoSwitch
  <2>1. switch.works = TRUE
    BY <1>1 DEF NoSwitch
  <2>2. QED
    BY <2>1
<1>2. CASE switch \in [call : { "on", "off" }, works : BOOLEAN]
  BY <1>2, Zenon
<1>3. QED
  BY <1>1, <1>2 DEF Switches

(* What a call of pn54x_io_set_power() by the adapter does to the object *)
LEMMA SwitchIsIoStep ==
  ASSUME NEW switch \in Switches, SwitchIo(switch)
  PROVE  IO!ClientCalls \/ UNCHANGED ioVars
<1>1. /\ (switch.call = "on") \in BOOLEAN
      /\ switch.works \in BOOLEAN
  BY WorksOrNot
<1>2. QED
  BY <1>1 DEF SwitchIo, IO!ClientCalls

LEMMA IoVarsAreVars ==
  ASSUME UNCHANGED ioVars
  PROVE  UNCHANGED IO!vars
BY DEF ioVars, IO!vars, IO!structVars, IO!writeVars, IO!driverVars,
       IO!historyVars, IO!handleVars

(* A frame pushed, taken off the stack or replaced *)
LEMMA StackFacts ==
  ASSUME NEW s \in Seq(Frames)
  PROVE  /\ s # Append(s, "restart")
         /\ \A f \in Frames : Append(s, f) = Append(s, "restart") => f = "restart"
         /\ s # << >> =>
              LET t == SubSeq(s, 1, Len(s) - 1)
              IN  /\ t # Append(s, "restart")
                  /\ \A f \in Frames : Append(t, f) # Append(s, "restart")
<1>1. "restart" \in Frames
  BY DEF Frames, CoreCalls, RequestCalls
<1>2. ASSUME NEW t \in Seq(Frames), NEW f \in Frames
      PROVE  /\ Append(t, f) \in Seq(Frames) /\ Len(Append(t, f)) = Len(t) + 1
             /\ Append(t, f)[Len(t) + 1] = f /\ Len(t) \in Nat
  BY AppendProperties, LenProperties
<1>3. Len(Append(s, "restart")) = Len(s) + 1 /\ Len(s) \in Nat
  BY <1>1, <1>2
<1>4. ASSUME NEW f \in Frames, Append(s, f) = Append(s, "restart")
      PROVE  f = "restart"
  BY <1>1, <1>2, <1>4
<1>5. ASSUME s # << >>, NEW t, t = SubSeq(s, 1, Len(s) - 1)
      PROVE  /\ t # Append(s, "restart")
             /\ \A f \in Frames : Append(t, f) # Append(s, "restart")
  <2>1. Len(s) # 0
    BY <1>5, EmptySeq
  <2>2. t \in Seq(Frames) /\ Len(t) = Len(s) - 1
    <3>1. \A i \in 1 .. Len(s) - 1 : s[i] \in Frames
      BY <1>3, ElementOfSeq
    <3>2. /\ SubSeq(s, 1, Len(s) - 1) \in Seq(Frames)
          /\ Len(SubSeq(s, 1, Len(s) - 1)) =
               IF 1 <= Len(s) - 1 THEN Len(s) - 1 - 1 + 1 ELSE 0
      BY <1>3, <2>1, <3>1, SubSeqProperties
    <3>3. \A m \in Nat : (IF 1 <= m THEN m - 1 + 1 ELSE 0) = m
      OBVIOUS
    <3>4. Len(s) - 1 \in Nat
      BY <1>3, <2>1
    <3>5. QED
      BY <1>5, <3>2, <3>3, <3>4
  <2>3. \A f \in Frames : Len(Append(t, f)) = Len(s)
    BY <1>2, <1>3, <2>2
  <2>4. QED
    BY <1>3, <2>2, <2>3
<1>6. QED
  BY <1>3, <1>4, <1>5

(* Of all calls only that which switches on restarts. *)
LEMMA OnlySubmitOnRestarts ==
  ASSUME NEW switch, Step(switch), calls \in Seq(Frames),
         calls' = Append(calls, "restart")
  PROVE  SubmitOn(switch)
<1>1. /\ calls' # calls
      /\ \A f \in Frames : calls' = Append(calls, f) => f = "restart"
      /\ calls # << >> =>
           calls' # Popped /\ \A f \in Frames : calls' # Append(Popped, f)
  BY StackFacts DEF Popped
<1>2. /\ "check" \in Frames /\ "reset" \in Frames /\ "recheck" \in Frames
      /\ "on" \in Frames /\ "off" \in Frames /\ "wait" \in Frames
      /\ "check" # "restart" /\ "reset" # "restart" /\ "on" # "restart"
      /\ "off" # "restart" /\ "wait" # "restart"
  BY DEF Frames, CoreCalls, RequestCalls
<1>3. \A frames : InCall(frames) => calls # << >>
  BY DEF InCall
<1>4. ASSUME StateCheck(switch, calls) PROVE FALSE
  BY <1>1, <1>2, <1>4 DEF StateCheck
<1>5. ASSUME calls # << >>, StateCheck(switch, Popped) PROVE FALSE
  BY <1>1, <1>2, <1>5 DEF StateCheck
<1>6. CASE New(switch) \/ Finalize(switch) \/ CancelPowerRequest(switch)
  BY <1>1, <1>6 DEF New, Finalize, CancelPowerRequest, callVars
<1>7. CASE CurrentStateChanged(switch)
  BY <1>4, <1>7 DEF CurrentStateChanged
<1>8. CASE SetsOut(switch)
  BY <1>1, <1>2, <1>4, <1>8 DEF SetsOut, NextStateChanged
<1>9. CASE Returns(switch)
  BY <1>1, <1>2, <1>3, <1>5, <1>9 DEF Returns, ResetOn, Recheck, ReturnCheck,
       ReturnOff, ReturnWait, ReturnOn, Pop, GoOnTo
<1>10. CASE Submit(switch)
  BY <1>1, <1>2, <1>10 DEF Submit, SubmitOnAlready, SubmitOnFails,
       SubmitOffNow, SubmitOffIdle, SubmitOffWait, SubmitOffAlready,
       RequestCalling
<1>11. QED
  BY <1>6, <1>7, <1>8, <1>9, <1>10 DEF Step

-----------------------------------------------------------------------------
(***************************************************************************)
(* The two objects live and die together; every child is read_pid's or has *)
(* been lost; a reader needs a chip that is on, and nci_core_restart()     *)
(* comes right after switching it on.                                      *)
(***************************************************************************)
ProcTable == [1 .. MaxChildren -> { "free", "running", "exited" }]

EveryChildKnown ==
  /\ proc \in ProcTable
  /\ \A c \in 1 .. MaxChildren : proc[c] # "free" => c = readPid \/ c \in lost

LinkInv ==
  /\ EveryChildKnown
  /\ alive <=> ioAlive
  /\ ~ioAlive => readPid = 0 /\ ~writeId
  /\ readPid # 0 => chipOn
  /\ startDue => chipOn

(***************************************************************************)
(* Starting aside, the reader goes on as it is, it or a lost child dies, or*)
(* it is closed.                                                           *)
(***************************************************************************)
ReaderGoesOn == readPid' = readPid /\ proc' = proc

ReaderDies ==
  /\ readPid' = readPid
  /\ \E c : /\ c = readPid \/ c \in lost
            /\ proc' = [proc EXCEPT ![c] = "exited"]

ReaderClosed ==
  /\ readPid' = 0
  /\ proc' = [c \in 1 .. MaxChildren |->
                IF c = readPid THEN "free" ELSE proc[c]]

LEMMA ChildrenStayKnown ==
  ASSUME EveryChildKnown, lost' = lost,
         ReaderGoesOn \/ ReaderDies \/ ReaderClosed
  PROVE  EveryChildKnown'
<1>1. CASE ReaderGoesOn
  BY <1>1 DEF ReaderGoesOn, EveryChildKnown
<1>2. CASE ReaderDies
  <2>1. PICK d : /\ d = readPid \/ d \in lost
                 /\ proc' = [proc EXCEPT ![d] = "exited"]
    BY <1>2 DEF ReaderDies
  <2>2. proc' \in ProcTable
    BY <2>1 DEF EveryChildKnown, ProcTable
  <2>3. ASSUME NEW c \in 1 .. MaxChildren, proc'[c] # "free"
        PROVE  c = readPid \/ c \in lost
    BY <2>1, <2>3 DEF EveryChildKnown, ProcTable
  <2>4. QED
    BY <1>2, <2>2, <2>3 DEF EveryChildKnown, ReaderDies
<1>3. CASE ReaderClosed
  <2>1. proc' \in ProcTable
    BY <1>3 DEF ReaderClosed, EveryChildKnown, ProcTable
  <2>2. ASSUME NEW c \in 1 .. MaxChildren, proc'[c] # "free"
        PROVE  c \in lost
    BY <1>3, <2>2 DEF ReaderClosed, EveryChildKnown
  <2>3. QED
    BY <2>1, <2>2 DEF EveryChildKnown
<1>4. QED
  BY <1>1, <1>2, <1>3

(* pn54x_io_close(), whoever calls it *)
LEMMA CloseClosesReader ==
  ASSUME IO!Close(0)
  PROVE  ReaderClosed
BY DEF IO!Close, IO!CloseFields, IO!Reaped, IO!Children, ReaderClosed

(* The chip and the reader when pn54x_io_set_power() is called *)
LEMMA SwitchFollows ==
  ASSUME NEW switch \in Switches, ChipAfter(switch), SwitchIo(switch),
         readPid # 0 => chipOn
  PROVE  /\ ReaderGoesOn \/ ReaderClosed
         /\ readPid' # 0 => chipOn'
         /\ UNCHANGED << ioAlive, writeId >>
<1>1. CASE UNCHANGED ioVars /\ (switch = NoSwitch \/ ~switch.works)
  <2>1. chipOn' = chipOn
    BY <1>1 DEF ChipAfter, NoSwitch
  <2>2. QED
    BY <1>1, <2>1 DEF ioVars, ReaderGoesOn
<1>2. CASE switch # NoSwitch /\ IO!SetPower(switch.call = "on", switch.works)
  <2>1. switch.call \in { "on", "off" } /\ switch.works \in BOOLEAN
    BY <1>2 DEF Switches
  <2>2. UNCHANGED << ioAlive, writeId >>
    BY <1>2 DEF IO!SetPower, IO!SwitchedOff, IO!LeftOpen, IO!writeVars
  <2>3. CASE switch.works /\ switch.call = "off"
    <3>1. IO!Close(0)
      BY <1>2, <2>3 DEF IO!SetPower, IO!SwitchedOff
    <3>2. ReaderClosed /\ readPid' = 0
      BY <3>1, CloseClosesReader DEF ReaderClosed
    <3>3. QED
      BY <2>2, <3>2
  <2>4. CASE ~(switch.works /\ switch.call = "off")
    <3>1. ReaderGoesOn
      BY <1>2, <2>1, <2>4 DEF IO!SetPower, IO!LeftOpen, ReaderGoesOn
    <3>2. chipOn => chipOn'
      BY <2>1, <2>4 DEF ChipAfter
    <3>3. QED
      BY <2>2, <3>1, <3>2 DEF ReaderGoesOn
  <2>5. QED
    BY <2>3, <2>4
<1>3. QED
  BY <1>1, <1>2 DEF SwitchIo

(* The calls of the adapter *)
LEMMA AdapterKeepsLink ==
  ASSUME LinkInv, TypeOK, AdapterStep
  PROVE  LinkInv'
<1>1. PICK switch \in Switches :
        /\ ChipAfter(switch)
        /\ \/ Create(switch) \/ Destroy(switch) \/ BaseClassCalls(switch)
           \/ CoreCallsBack(switch) \/ CoreReturns(switch)
  BY DEF AdapterStep
<1>2. Step(switch) /\ lost' = lost
  BY <1>1 DEF AdapterStep, Step, Create, Destroy, BaseClassCalls,
              CoreCallsBack, CoreReturns
<1>3. startDue' => chipOn'
  <2> SUFFICES ASSUME startDue'
               PROVE  chipOn'
    OBVIOUS
  <2>1. calls' = Append(calls, "restart") /\ calls \in Seq(Frames)
    BY DEF AdapterStep, TypeOK
  <2>2. SubmitOn(switch)
    BY <1>2, <2>1, OnlySubmitOnRestarts
  <2>3. QED
    BY <1>1, <2>2 DEF SubmitOn, ChipAfter
<1>4. CASE Create(switch)
  <2>1. ~ioAlive /\ ioAlive' = switch.works /\ readPid' = readPid
        /\ proc' = proc /\ writeId' = writeId
    BY <1>4 DEF Create, IO!New, IO!writeVars
  <2>2. readPid' = 0 /\ ~writeId' /\ EveryChildKnown'
    BY <1>2, <2>1, ChildrenStayKnown DEF LinkInv, ReaderGoesOn
  <2>3. switch.works /\ alive' = TRUE
    BY <1>4 DEF Create, New
  <2>4. QED
    BY <1>3, <2>1, <2>2, <2>3 DEF LinkInv
<1>5. CASE Destroy(switch)
  <2>1. ioAlive' = FALSE /\ writeId' = FALSE /\ IO!Close(0)
    BY <1>5 DEF Destroy, IO!Free, IO!StopIo
  <2>2. ReaderClosed /\ readPid' = 0
    BY <2>1, CloseClosesReader DEF ReaderClosed
  <2>3. EveryChildKnown'
    BY <1>2, <2>2, ChildrenStayKnown DEF LinkInv
  <2>4. alive' = FALSE
    BY <1>5 DEF Destroy, Finalize
  <2>5. QED
    BY <1>3, <2>1, <2>2, <2>3, <2>4 DEF LinkInv
<1>6. CASE BaseClassCalls(switch) \/ CoreCallsBack(switch)
           \/ CoreReturns(switch)
  <2>1. SwitchIo(switch)
    BY <1>6 DEF BaseClassCalls, CoreCallsBack, CoreReturns
  <2>2. /\ ReaderGoesOn \/ ReaderClosed
        /\ readPid' # 0 => chipOn'
        /\ ioAlive' = ioAlive /\ writeId' = writeId
    BY <1>1, <2>1, SwitchFollows DEF LinkInv
  <2>3. EveryChildKnown'
    BY <1>2, <2>2, ChildrenStayKnown DEF LinkInv
  <2>4. alive' = alive
    <3>1. CASE Submit(switch) \/ CancelPowerRequest(switch)
      BY <3>1 DEF Submit, CancelPowerRequest, SubmitOnAlready, SubmitOn,
           SubmitOnFails, SubmitOffNow, SubmitOffIdle, SubmitOffWait,
           SubmitOffAlready, RequestCalling, Request
    <3>2. CASE CurrentStateChanged(switch) \/ SetsOut(switch)
      BY <3>2 DEF CurrentStateChanged, SetsOut, NextStateChanged
    <3>3. CASE Returns(switch)
      BY <3>3 DEF Returns, ResetOn, Recheck, ReturnCheck, ReturnOff,
           ReturnWait, ReturnOn
    <3>4. QED
      BY <1>6, <3>1, <3>2, <3>3 DEF BaseClassCalls, CoreCallsBack, CoreReturns
  <2>5. ~ioAlive' => readPid' = 0 /\ ~writeId'
    BY <2>2 DEF LinkInv, ReaderGoesOn, ReaderClosed
  <2>6. QED
    BY <1>3, <2>2, <2>3, <2>4, <2>5 DEF LinkInv
<1>7. QED
  BY <1>1, <1>4, <1>5, <1>6

(* Starting aside, the core and the main loop only lose the reader. *)
LEMMA OthersKeepReader ==
  ASSUME CoreStops \/ CoreWrites \/ ChildRuns \/ DataArrives \/ ErrorArrives
         \/ UNCHANGED sysVars
  PROVE  /\ ReaderGoesOn \/ ReaderDies \/ ReaderClosed
         /\ ~ioAlive => writeId' = writeId \/ writeId' = FALSE
         /\ UNCHANGED << ioAlive, startDue, lost, vars >>
<1>1. CASE CoreStops
  BY <1>1, CloseClosesReader DEF CoreStops, IO!Stop, IO!StopIo
<1>2. CASE CoreWrites
  <2>1. UNCHANGED << ioAlive, readPid, proc >>
        /\ (ioAlive \/ writeId' = FALSE)
    BY <1>2 DEF CoreWrites, IO!Write, IO!CancelWrite, IO!structVars, IO!MayCall
  <2>2. QED
    BY <1>2, <2>1 DEF CoreWrites, knownVars, ReaderGoesOn
<1>3. CASE ChildRuns
  <2>1. UNCHANGED << ioAlive, startDue, lost, vars >>
    BY <1>3 DEF ChildRuns, knownVars, IO!Child, IO!ChildForwardAll,
                IO!ChildForwardPart, IO!ChildForward, IO!ChildExit,
                IO!structVars, LostChild
  <2>2. UNCHANGED << readPid, writeId >>
    BY <1>3 DEF ChildRuns, IO!Child, IO!ChildForwardAll, IO!ChildForwardPart,
                IO!ChildForward, IO!ChildExit, IO!structVars, IO!writeVars,
                LostChild
  <2>3. \/ proc' = proc
        \/ \E c : /\ c = readPid \/ c \in lost
                  /\ proc' = [proc EXCEPT ![c] = "exited"]
    <3>1. CASE IO!Child
      BY <3>1 DEF IO!Child, IO!ChildForwardAll, IO!ChildForwardPart,
                  IO!ChildForward, IO!ChildExit
    <3>2. CASE \E c \in lost : LostChild(c)
      BY <3>2 DEF LostChild
    <3>3. QED
      BY <1>3, <3>1, <3>2 DEF ChildRuns
  <2>4. QED
    BY <2>1, <2>2, <2>3 DEF ReaderGoesOn, ReaderDies
<1>4. CASE DataArrives
  <2>1. /\ UNCHANGED << ioAlive, readPid, proc >>
        /\ writeId' = writeId \/ writeId' = FALSE
    BY <1>4 DEF DataArrives, IO!WriteComplete, IO!ReadCallback, IO!Deliver,
                IO!Return, IO!otherVars, IO!structVars, IO!writeVars
  <2>2. QED
    BY <1>4, <2>1 DEF DataArrives, knownVars, ReaderGoesOn
<1>5. CASE ErrorArrives
  BY <1>5 DEF ErrorArrives, IO!ReadError, IO!writeVars, ReaderGoesOn
<1>6. CASE UNCHANGED sysVars
  BY <1>6 DEF sysVars, ioVars, knownVars, ReaderGoesOn
<1>7. QED
  BY <1>1, <1>2, <1>3, <1>4, <1>5, <1>6

(***************************************************************************)
(* nci_core_restart() starts the reader of a chip that is on, whether or   *)
(* not there is one already: if there is, it becomes one of the lost.      *)
(***************************************************************************)
LEMMA CoreStartsOn ==
  ASSUME LinkInv, CoreStarts
  PROVE  LinkInv'
<1>1. startDue /\ startDue' = FALSE /\ UNCHANGED vars /\ ioAlive
  BY DEF CoreStarts, IO!MayCall
<1>2. chipOn' /\ alive' = alive
  BY <1>1 DEF LinkInv, vars, chipVars
<1>3. ioAlive' = ioAlive
  BY DEF CoreStarts, IO!StartReader, IO!SetReader, IO!PipeFails, IO!ForkFails
<1>4. EveryChildKnown'
  <2>1. CASE IO!StartReader /\ lost' = lost \cup CurrentReader
    <3>1. PICK child : /\ readPid' = child
                       /\ proc' = [proc EXCEPT ![child] = "running"]
      BY <2>1 DEF IO!StartReader, IO!SetReader
    <3>2. proc' \in ProcTable
      BY <3>1 DEF LinkInv, EveryChildKnown, ProcTable
    <3>3. ASSUME NEW c \in 1 .. MaxChildren, proc'[c] # "free"
          PROVE  c = readPid' \/ c \in lost'
      <4>1. c = child \/ proc[c] # "free"
        BY <3>1, <3>3 DEF LinkInv, EveryChildKnown, ProcTable
      <4>2. c # 0
        OBVIOUS
      <4>3. QED
        BY <2>1, <3>1, <4>1, <4>2 DEF LinkInv, EveryChildKnown, CurrentReader
    <3>4. QED
      BY <3>2, <3>3 DEF EveryChildKnown
  <2>2. CASE IO!ForkFails /\ lost' = lost \cup CurrentReader
    <3>1. proc' = proc
      BY <2>2 DEF IO!ForkFails
    <3>2. ASSUME NEW c \in 1 .. MaxChildren, proc'[c] # "free"
          PROVE  c \in lost'
      <4>1. c # 0
        OBVIOUS
      <4>2. QED
        BY <2>2, <3>1, <3>2, <4>1 DEF LinkInv, EveryChildKnown, CurrentReader
    <3>3. QED
      BY <3>1, <3>2 DEF LinkInv, EveryChildKnown
  <2>3. CASE IO!PipeFails /\ lost' = lost
    BY <2>3, CloseClosesReader, ChildrenStayKnown DEF IO!PipeFails, LinkInv
  <2>4. QED
    BY <2>1, <2>2, <2>3 DEF CoreStarts
<1>5. QED
  BY <1>1, <1>2, <1>3, <1>4 DEF LinkInv

LEMMA LinkStep ==
  ASSUME LinkInv, TypeOK, [SysNext]_sysVars
  PROVE  LinkInv'
<1>1. CASE CoreStops \/ CoreWrites \/ ChildRuns \/ DataArrives \/ ErrorArrives
           \/ UNCHANGED sysVars
  <2>1. /\ ReaderGoesOn \/ ReaderDies \/ ReaderClosed
        /\ ~ioAlive => writeId' = writeId \/ writeId' = FALSE
        /\ UNCHANGED << ioAlive, startDue, lost, vars >>
    BY <1>1, OthersKeepReader
  <2>2. chipOn' = chipOn /\ alive' = alive
    BY <2>1 DEF vars, chipVars
  <2>3. readPid' = readPid \/ readPid' = 0
    BY <2>1 DEF ReaderGoesOn, ReaderDies, ReaderClosed
  <2>4. EveryChildKnown'
    BY <2>1, ChildrenStayKnown DEF LinkInv
  <2>5. QED
    BY <2>1, <2>2, <2>3, <2>4 DEF LinkInv
<1>2. QED
  BY <1>1, AdapterKeepsLink, CoreStartsOn DEF SysNext

THEOREM LinkInvariant == SysSpec => []LinkInv
<1>1. SysInit => LinkInv
  BY DEF SysInit, Init, IO!Init, IO!Children, LinkInv, EveryChildKnown,
         ProcTable
<1>2. LinkInv /\ TypeOK /\ [SysNext]_sysVars => LinkInv'
  BY LinkStep
<1>3. Safety => []TypeOK
  BY AdapterTyped
<1>4. QED
  BY <1>1, <1>2, <1>3, SystemKeepsAdapter, PTL DEF SysSpec

(***************************************************************************)
(* Nobody reads from a chip without power but the readers that start() has *)
(* lost, for any number of failures of pn54x_io_set_power(), pipe() and    *)
(* fork().                                                                 *)
(***************************************************************************)
THEOREM NoReaderWithoutPowerAlways == SysSpec => []NoReaderWithoutPower
<1>1. LinkInv => NoReaderWithoutPower
  <2> SUFFICES ASSUME LinkInv, ~chipOn, NEW c \in 1 .. MaxChildren,
                      proc[c] # "free"
               PROVE  c \in lost
    BY DEF NoReaderWithoutPower
  <2>1. readPid = 0 /\ c # 0
    BY DEF LinkInv
  <2>2. QED
    BY <2>1 DEF LinkInv, EveryChildKnown
<1>2. QED
  BY <1>1, LinkInvariant, PTL

-----------------------------------------------------------------------------
(* Switching on, when the chip was off: there was no reader. *)
LEMMA RestartStep ==
  ASSUME RestartFindsNoReader, LinkInv, ChipFollows, AdapterInv,
         [SysNext]_sysVars
  PROVE  RestartFindsNoReader'
<1> SUFFICES ASSUME startDue', faults' = 0
             PROVE  readPid' = 0
  BY DEF RestartFindsNoReader
<1>1. CASE AdapterStep
  <2>1. PICK switch \in Switches :
          /\ ChipAfter(switch)
          /\ \/ Create(switch) \/ Destroy(switch) \/ BaseClassCalls(switch)
             \/ CoreCallsBack(switch) \/ CoreReturns(switch)
    BY <1>1 DEF AdapterStep
  <2>2. Step(switch)
    BY <2>1 DEF Step, Create, Destroy, BaseClassCalls, CoreCallsBack,
                CoreReturns
  <2>3. calls' = Append(calls, "restart") /\ calls \in Seq(Frames)
    BY <1>1 DEF AdapterStep, AdapterInv, TypeOK
  <2>4. SubmitOn(switch)
    BY <2>2, <2>3, OnlySubmitOnRestarts
  <2>5. faults = 0
    <3>1. faults \in Nat
      BY AdapterAssumption DEF AdapterInv, TypeOK
    <3>2. QED
      BY <2>1, <3>1 DEF ChipAfter
  <2>6. ~powerOn /\ alive /\ (calls = << >> \/ told)
    BY <2>4 DEF SubmitOn, RequestCalling, Request, MayRequest
  <2>7. ~InCall({ "reset" })
    BY <2>6 DEF InCall, AdapterInv, ToldIsOver, InReset
  <2>8. readPid = 0
    BY <2>5, <2>6, <2>7 DEF ChipFollows, LinkInv
  <2>9. SwitchIo(switch)
    <3>1. CASE Create(switch) \/ Destroy(switch)
      BY <2>3, <3>1, StackFacts DEF Create, New, Destroy, Finalize, callVars
    <3>2. QED
      BY <2>1, <3>1 DEF BaseClassCalls, CoreCallsBack, CoreReturns
  <2>10. ReaderGoesOn \/ ReaderClosed
    BY <2>1, <2>9, SwitchFollows DEF LinkInv
  <2>11. QED
    BY <2>8, <2>10 DEF ReaderGoesOn, ReaderClosed
<1>2. CASE CoreStarts
  BY <1>2 DEF CoreStarts
<1>3. CASE CoreStops \/ CoreWrites \/ ChildRuns \/ DataArrives
           \/ ErrorArrives \/ UNCHANGED sysVars
  <2>1. /\ readPid' = readPid \/ readPid' = 0
        /\ UNCHANGED << startDue, vars >>
    BY <1>3, OthersKeepReader DEF ReaderGoesOn, ReaderDies, ReaderClosed
  <2>2. faults' = faults /\ startDue' = startDue
    BY <2>1 DEF vars, chipVars
  <2>3. QED
    BY <2>1, <2>2 DEF RestartFindsNoReader
<1>4. QED
  BY <1>1, <1>2, <1>3 DEF SysNext

(***************************************************************************)
(* GASSERT(!self->read_pid) in start() holds for every restart, unless     *)
(* pn54x_io_set_power() has failed before: by the adapter's ChipFollows    *)
(* the chip was off, and a chip that is off has no reader.  A base class   *)
(* that asks for power from inside a notification does so when no reset is *)
(* under way (ToldIsOver), so it makes no difference.                      *)
(***************************************************************************)
THEOREM RestartFindsNoReaderAlways == SysSpec => []RestartFindsNoReader
<1>1. SysInit => RestartFindsNoReader
  BY DEF SysInit, RestartFindsNoReader
<1>2. RestartFindsNoReader /\ LinkInv /\ ChipFollows /\ AdapterInv
        /\ [SysNext]_sysVars => RestartFindsNoReader'
  BY RestartStep
<1>3. Safety => []ChipFollows /\ []AdapterInv
  BY ChipFollowsAlways, AdapterInvariant, PTL
<1>4. QED
  BY <1>1, <1>2, <1>3, SystemKeepsAdapter, LinkInvariant, PTL DEF SysSpec

(* So no reader is lost before that. *)
NothingLost == faults = 0 => lost = {}

LEMMA NothingLostStep ==
  ASSUME NothingLost, RestartFindsNoReader, AdapterInv, [SysNext]_sysVars
  PROVE  NothingLost'
<1> SUFFICES ASSUME faults' = 0
             PROVE  lost' = {}
  BY DEF NothingLost
<1>1. CASE AdapterStep
  <2>1. PICK switch \in Switches : ChipAfter(switch)
    BY <1>1 DEF AdapterStep
  <2>2. faults \in Nat
    BY AdapterAssumption DEF AdapterInv, TypeOK
  <2>3. faults = 0
    BY <2>1, <2>2 DEF ChipAfter
  <2>4. QED
    BY <1>1, <2>3 DEF AdapterStep, NothingLost
<1>2. CASE CoreStarts
  <2>1. faults = 0 /\ startDue
    BY <1>2 DEF CoreStarts, vars, chipVars
  <2>2. CurrentReader = {}
    BY <2>1 DEF RestartFindsNoReader, CurrentReader
  <2>3. QED
    BY <1>2, <2>1, <2>2 DEF CoreStarts, NothingLost
<1>3. CASE CoreStops \/ CoreWrites \/ ChildRuns \/ DataArrives
           \/ ErrorArrives \/ UNCHANGED sysVars
  <2>1. faults' = faults /\ lost' = lost
    BY <1>3, OthersKeepReader DEF vars, chipVars
  <2>2. QED
    BY <2>1 DEF NothingLost
<1>4. QED
  BY <1>1, <1>2, <1>3 DEF SysNext

(***************************************************************************)
(* As long as pn54x_io_set_power() works, start() never overwrites the     *)
(* number, the watch and the descriptor of a reader there is.              *)
(***************************************************************************)
THEOREM NothingLostAlways == SysSpec => []NothingLost
<1>1. SysInit => NothingLost
  BY DEF SysInit, NothingLost
<1>2. NothingLost /\ RestartFindsNoReader /\ AdapterInv /\ [SysNext]_sysVars
        => NothingLost'
  BY NothingLostStep
<1>3. Safety => []AdapterInv
  BY AdapterInvariant
<1>4. QED
  BY <1>1, <1>2, <1>3, SystemKeepsAdapter, RestartFindsNoReaderAlways, PTL
     DEF SysSpec

-----------------------------------------------------------------------------
(***************************************************************************)
(* What was proved of the I/O object for a client that does not start over *)
(* a reader.  In the system nothing keeps NciCore from that; as long as    *)
(* it has not happened, the steps are those of Pn54xIo.tla, except that    *)
(* pipe() may fail while there is a reader.                                *)
(***************************************************************************)
SoundIo == IOP!LifecycleInv /\ IOP!DataInv /\ IOP!SessionBytes

LEMMA SoundIoStep ==
  ASSUME SoundIo, [IOP!Next]_IOP!vars
  PROVE  SoundIo'
BY SameAssumptions, IOP!LifecycleStep, IOP!DataKept, IOP!SessionStep
   DEF SoundIo

LEMMA SoundIoWithoutPipe ==
  ASSUME SoundIo, ioAlive, IOP!PipeFails
  PROVE  SoundIo'
BY SameAssumptions, IOP!PipeFailsStep, IOP!FailedStartKeepsData,
   IOP!PipeFailsEndsSession DEF SoundIo

(* As long as no reader is lost a step is one of the I/O object. *)
LEMMA SysStepIsIoStep ==
  ASSUME [SysNext]_sysVars, lost' = {}
  PROVE  [IO!Next]_IO!vars \/ (IO!PipeFails /\ ioAlive)
<1>1. CASE AdapterStep
  <2>1. PICK switch \in Switches :
          \/ Create(switch) \/ Destroy(switch) \/ BaseClassCalls(switch)
          \/ CoreCallsBack(switch) \/ CoreReturns(switch)
    BY <1>1 DEF AdapterStep
  <2>2. CASE Create(switch)
    <3>1. switch.works \in BOOLEAN /\ IO!New(switch.works)
      BY <2>2, WorksOrNot DEF Create
    <3>2. QED
      BY <3>1 DEF IO!Next, IO!ClientCalls
  <2>3. CASE Destroy(switch)
    BY <2>3 DEF Destroy, IO!Next, IO!ClientCalls
  <2>4. CASE SwitchIo(switch)
    BY <2>4, SwitchIsIoStep, IoVarsAreVars DEF IO!Next
  <2>5. QED
    BY <2>1, <2>2, <2>3, <2>4 DEF BaseClassCalls, CoreCallsBack, CoreReturns
<1>2. CASE CoreStarts
  <2>1. IO!MayCall("start")
    BY <1>2 DEF CoreStarts
  <2>2. CASE lost' = lost \cup CurrentReader /\ (IO!StartReader \/ IO!ForkFails)
    <3>1. readPid = 0
      BY <2>2 DEF CurrentReader
    <3>2. IO!MayStart
      BY <2>1, <3>1 DEF IO!MayStart
    <3>3. QED
      BY <2>2, <3>2 DEF IO!Start, IO!StartWithoutFork, IO!Next, IO!ClientCalls
  <2>3. CASE IO!PipeFails
    BY <2>1, <2>3 DEF IO!MayCall
  <2>4. QED
    BY <1>2, <2>2, <2>3 DEF CoreStarts
<1>3. CASE CoreStops \/ CoreWrites
  BY <1>3 DEF CoreStops, CoreWrites, IO!Next, IO!ClientCalls
<1>4. CASE ChildRuns
  BY <1>4 DEF ChildRuns, knownVars, IO!Next
<1>5. CASE DataArrives \/ ErrorArrives
  BY <1>5 DEF DataArrives, ErrorArrives, IO!Next, IO!MainLoop
<1>6. CASE UNCHANGED sysVars
  BY <1>6, IoVarsAreVars DEF sysVars
<1>7. QED
  BY <1>1, <1>2, <1>3, <1>4, <1>5, <1>6 DEF SysNext

(* The lost stay lost. *)
LEMMA LostForEver ==
  ASSUME [SysNext]_sysVars
  PROVE  lost \subseteq lost'
BY OthersKeepReader DEF SysNext, AdapterStep, CoreStarts

SoundUntilLost == lost = {} => SoundIo

LEMMA SoundStep ==
  ASSUME SoundUntilLost, [SysNext]_sysVars
  PROVE  SoundUntilLost'
<1> SUFFICES ASSUME lost' = {}
             PROVE  SoundIo'
  BY DEF SoundUntilLost
<1>1. SoundIo
  BY LostForEver DEF SoundUntilLost
<1>2. CASE [IO!Next]_IO!vars
  <2>1. IO!ClientCalls \/ IO!Child \/ IO!MainLoop \/ UNCHANGED IO!vars
    BY <1>2 DEF IO!Next
  <2>2. IOP!ClientCalls \/ IOP!Child \/ IOP!MainLoop \/ UNCHANGED IOP!vars
    BY <2>1, SameClientCalls, SameRest, SameStutter
  <2>3. [IOP!Next]_IOP!vars
    BY <2>2 DEF IOP!Next
  <2>4. QED
    BY <1>1, <2>3, SoundIoStep
<1>3. CASE IO!PipeFails /\ ioAlive
  BY <1>1, <1>3, SamePipeFails, SoundIoWithoutPipe
<1>4. QED
  BY <1>2, <1>3, SysStepIsIoStep

THEOREM SoundUntilLostAlways == SysSpec => []SoundUntilLost
<1>1. SysInit => SoundUntilLost
  <2> SUFFICES ASSUME SysInit
               PROVE  SoundIo
    BY DEF SoundUntilLost
  <2>1. IOP!Init
    BY SameInit DEF SysInit
  <2>2. IOP!SessionBytes
    BY <2>1 DEF IOP!Init, IOP!SessionBytes
  <2>3. QED
    BY <2>1, <2>2, SameAssumptions, IOP!LifecycleInit, IOP!DataInit DEF SoundIo
<1>2. SoundUntilLost /\ [SysNext]_sysVars => SoundUntilLost'
  BY SoundStep
<1>3. QED
  BY <1>1, <1>2, PTL DEF SysSpec

(***************************************************************************)
(* Under the adapter and a core that restarts without stopping, the I/O    *)
(* object has the life cycle of Pn54xIo.tla, its assertions included, as   *)
(* long as pn54x_io_set_power() works.                                     *)
(***************************************************************************)
THEOREM SystemKeepsLifecycle == SysSpec => [](faults = 0 => IO!LifecycleInv)
<1>1. SoundUntilLost /\ NothingLost => (faults = 0 => IO!LifecycleInv)
  BY SameInvariant DEF SoundUntilLost, SoundIo, NothingLost
<1>2. QED
  BY <1>1, SoundUntilLostAlways, NothingLostAlways, PTL

(***************************************************************************)
(* So has it the properties of its packets: however the adapter switches   *)
(* power under a session, and whatever the core calls from inside its read *)
(* callback, the core is given the first packets of what the driver        *)
(* returned in this session.  After a failure of pn54x_io_set_power() a    *)
(* lost reader may take some of them away.                                 *)
(***************************************************************************)
LEMMA SamePackets ==
  /\ IOP!DeliveredGenuine => IO!DeliveredGenuine
  /\ IOP!ResidueIncomplete => IO!ResidueIncomplete
<1>1. IOP!Packets(stream) = IO!Packets(stream)
  BY DEF IO!Packets, IOP!Packets, IO!PacketsFrom, IOP!PacketsFrom,
         IO!PacketsAt, IOP!PacketsAt, IO!Pad, IOP!Pad
<1>2. IOP!DeliveredGenuine => IO!DeliveredGenuine
  BY <1>1 DEF IO!DeliveredGenuine, IOP!DeliveredGenuine
<1>3. IOP!ResidueIncomplete => IO!ResidueIncomplete
  BY DEF IO!ResidueIncomplete, IOP!ResidueIncomplete, IO!ReadPacketSize,
         IOP!ReadPacketSize, IO!Pad, IOP!Pad
<1>4. QED
  BY <1>2, <1>3

LEMMA SoundIsGenuine ==
  ASSUME SoundIo
  PROVE  IO!DeliveredGenuine /\ IO!ResidueIncomplete
<1>1. IOP!DeliveredGenuine /\ IOP!ResidueIncomplete
  BY SameAssumptions, IOP!SessionIsGenuine, IOP!DataLeavesLittle DEF SoundIo
<1>2. QED
  BY <1>1, SamePackets

THEOREM SystemDeliversGenuine ==
  SysSpec => [](faults = 0 => IO!DeliveredGenuine /\ IO!ResidueIncomplete)
<1>1. SoundUntilLost /\ NothingLost =>
        (faults = 0 => IO!DeliveredGenuine /\ IO!ResidueIncomplete)
  BY SoundIsGenuine DEF SoundUntilLost, NothingLost
<1>2. QED
  BY <1>1, SoundUntilLostAlways, NothingLostAlways, PTL

(* Without an object there is nothing of it. *)
LEMMA NothingWithoutIo ==
  ASSUME IO!LifecycleInv, ~ioAlive
  PROVE  ~readWatch /\ openFds = 2 * forkFailures
<1>1. session = "stopped"
  BY DEF IO!LifecycleInv, IO!SessionHasClient
<1>2. ~readWatch
  BY <1>1 DEF IO!LifecycleInv, IO!StopQuiesces
<1>3. openFds = 2 * forkFailures
  BY DEF IO!LifecycleInv, IO!DescriptorsAccounted
<1>4. QED
  BY <1>2, <1>3

(***************************************************************************)
(* The end of the adapter is the end of every child that has not been lost *)
(* and of the pending completion, and, if none has been lost, of the watch *)
(* and the descriptors.                                                    *)
(***************************************************************************)
THEOREM NothingOutlivesAdapterAlways == SysSpec => []NothingOutlivesAdapter
<1>1. LinkInv /\ SoundUntilLost => NothingOutlivesAdapter
  <2> SUFFICES ASSUME LinkInv, SoundUntilLost, ~alive
               PROVE  /\ ~ioAlive /\ ~writeId
                      /\ \A c \in 1 .. MaxChildren :
                           proc[c] # "free" => c \in lost
                      /\ lost = {} => ~readWatch /\ openFds = 2 * forkFailures
    BY DEF NothingOutlivesAdapter
  <2>1. ~ioAlive /\ ~writeId /\ readPid = 0
    BY DEF LinkInv
  <2>2. ASSUME NEW c \in 1 .. MaxChildren, proc[c] # "free"
        PROVE  c \in lost
    <3>1. c # 0
      OBVIOUS
    <3>2. QED
      BY <2>1, <2>2, <3>1 DEF LinkInv, EveryChildKnown
  <2>3. lost = {} => ~readWatch /\ openFds = 2 * forkFailures
    BY <2>1, SameInvariant, NothingWithoutIo DEF SoundUntilLost, SoundIo
  <2>4. QED
    BY <2>1, <2>2, <2>3
<1>2. QED
  BY <1>1, LinkInvariant, SoundUntilLostAlways, PTL

-----------------------------------------------------------------------------
(***************************************************************************)
(* Between the calls of the core, one that expects packets and has power   *)
(* is listening, unless the chip has been reset under it or its restart is *)
(* about to start the reader; and then the base class is waiting for that  *)
(* restart.                                                                *)
(***************************************************************************)
HearsInv ==
  /\ startDue => calls # << >> /\ ~told
  /\ alive /\ powerOn /\ ~informed /\ ~chipReset /\ ~startDue => readWatch

(* power_on becomes TRUE in a request for power, and nowhere else. *)
LEMMA OnlySubmitOnPowers ==
  ASSUME NEW switch, Step(switch), ~powerOn, powerOn'
  PROVE  SubmitOn(switch)
<1>1. StateCheck(switch, Popped) \/ StateCheck(switch, calls) =>
       powerOn' = powerOn
  BY DEF StateCheck, CanPowerOff, selfVars
<1>2. CASE New(switch) \/ Finalize(switch) \/ CancelPowerRequest(switch)
  BY <1>2 DEF New, Finalize, CancelPowerRequest, selfVars
<1>3. CASE CurrentStateChanged(switch)
  BY <1>1, <1>3 DEF CurrentStateChanged
<1>4. CASE SetsOut(switch)
  BY <1>1, <1>4 DEF SetsOut, NextStateChanged, selfVars
<1>5. CASE Returns(switch)
  BY <1>1, <1>5 DEF Returns, ResetOn, Recheck, ReturnCheck, ReturnOff,
                    ReturnWait, ReturnOn, PowerOff, selfVars
<1>6. CASE Submit(switch)
  BY <1>6 DEF Submit, SubmitOnAlready, SubmitOnFails, SubmitOffNow,
              SubmitOffIdle, SubmitOffWait, SubmitOffAlready
<1>7. QED
  BY <1>2, <1>3, <1>4, <1>5, <1>6 DEF Step

(* Whoever switches off clears power_on, or begins a reset of the chip. *)
LEMMA OffIsKnown ==
  ASSUME NEW switch, Step(switch), switch.call = "off"
  PROVE  powerOn' = FALSE \/ calls' = Append(calls, "reset")
<1>1. switch # NoSwitch /\ switch.call # "on"
  BY DEF NoSwitch
<1>2. StateCheck(switch, Popped) \/ StateCheck(switch, calls) =>
       powerOn' = FALSE
  BY <1>1 DEF StateCheck, PowerOff
<1>3. CASE New(switch) \/ Finalize(switch) \/ CancelPowerRequest(switch)
  BY <1>1, <1>3 DEF New, Finalize, CancelPowerRequest
<1>4. CASE CurrentStateChanged(switch)
  BY <1>2, <1>4 DEF CurrentStateChanged
<1>5. CASE SetsOut(switch)
  BY <1>2, <1>5 DEF SetsOut, NextStateChanged
<1>6. CASE Returns(switch)
  BY <1>1, <1>2, <1>6 DEF Returns, ResetOn, Recheck, ReturnCheck, ReturnOff,
                          ReturnWait, ReturnOn, PowerOff
<1>7. CASE Submit(switch)
  BY <1>1, <1>7 DEF Submit, SubmitOnAlready, SubmitOn, SubmitOnFails,
       SubmitOffNow, SubmitOffIdle, SubmitOffWait, SubmitOffAlready
<1>8. QED
  BY <1>3, <1>4, <1>5, <1>6, <1>7 DEF Step

(* Nothing but switching off takes the watch away. *)
LEMMA SwitchKeepsWatch ==
  ASSUME NEW switch \in Switches, SwitchIo(switch), switch.call # "off"
  PROVE  readWatch' = readWatch
<1>1. CASE UNCHANGED ioVars
  BY <1>1 DEF ioVars
<1>2. CASE switch # NoSwitch /\ IO!SetPower(switch.call = "on", switch.works)
  <2>1. switch.call = "on"
    BY <1>2 DEF Switches
  <2>2. QED
    BY <1>2, <2>1 DEF IO!SetPower, IO!LeftOpen
<1>3. QED
  BY <1>1, <1>2 DEF SwitchIo

(* The calls of the adapter: none is made before a start that is due. *)
LEMMA AdapterKeepsHearing ==
  ASSUME HearsInv, AdapterInv, AdapterStep
  PROVE  HearsInv'
<1>1. PICK switch \in Switches :
        /\ ChipAfter(switch)
        /\ \/ Create(switch) \/ Destroy(switch) \/ BaseClassCalls(switch)
           \/ CoreCallsBack(switch) \/ CoreReturns(switch)
  BY DEF AdapterStep
<1>2. Step(switch)
  BY <1>1 DEF Step, Create, Destroy, BaseClassCalls, CoreCallsBack, CoreReturns
<1>3. /\ startDue' = (calls' = Append(calls, "restart"))
      /\ informed' = informed
      /\ chipReset' = (chipReset \/ calls' = Append(calls, "reset"))
  BY DEF AdapterStep
<1>4. calls \in Seq(Frames) /\ (calls # << >> => alive)
  BY DEF AdapterInv, TypeOK
<1>5. Submit(switch) \/ CancelPowerRequest(switch) =>
       alive /\ (calls = << >> \/ told)
  BY <1>4 DEF Submit, CancelPowerRequest, SubmitOnAlready, SubmitOn,
       SubmitOnFails, SubmitOffNow, SubmitOffIdle, SubmitOffWait,
       SubmitOffAlready, RequestCalling, Request, MayRequest
<1>6. ASSUME startDue'
      PROVE  calls' # << >> /\ told' = FALSE
  <2>1. calls' = Append(calls, "restart")
    BY <1>3, <1>6
  <2>2. calls' # << >>
    <3>1. "restart" \in Frames
      BY DEF Frames, CoreCalls, RequestCalls
    <3>2. Len(calls') = Len(calls) + 1 /\ Len(calls) \in Nat
      BY <1>4, <2>1, <3>1, AppendProperties, LenProperties
    <3>3. QED
      BY <3>2
  <2>3. SubmitOn(switch)
    BY <1>2, <1>4, <2>1, OnlySubmitOnRestarts
  <2>4. QED
    BY <2>2, <2>3 DEF SubmitOn, RequestCalling
<1>7. ASSUME alive', powerOn', ~informed', ~chipReset', ~startDue'
      PROVE  readWatch'
  <2>1. ~Create(switch) /\ ~Destroy(switch)
    BY <1>7 DEF Create, New, Destroy, Finalize
  <2>2. SwitchIo(switch)
    BY <1>1, <2>1 DEF BaseClassCalls, CoreCallsBack, CoreReturns
  <2>3. alive
    <3>1. CASE BaseClassCalls(switch)
      BY <1>5, <3>1 DEF BaseClassCalls
    <3>2. CASE CoreCallsBack(switch)
      BY <3>2 DEF CoreCallsBack, CurrentStateChanged, MayArrive, SetsOut,
                  NextStateChanged, MaySetOut
    <3>3. CASE CoreReturns(switch)
      BY <1>4, <3>3 DEF CoreReturns, Returns, ResetOn, Recheck, ReturnCheck,
                        ReturnOff, ReturnWait, ReturnOn, InCall
    <3>4. QED
      BY <1>1, <2>1, <3>1, <3>2, <3>3
  <2>4. ~startDue
    <3>1. CASE BaseClassCalls(switch)
      BY <1>5, <3>1 DEF BaseClassCalls, HearsInv
    <3>2. QED
      BY <1>1, <2>1, <3>1 DEF CoreCallsBack, CoreReturns
  <2>5. ~SubmitOn(switch)
    <3> SUFFICES ASSUME SubmitOn(switch)
                 PROVE  FALSE
      OBVIOUS
    <3>1. calls' = Append(calls, "restart")
      BY DEF SubmitOn, RequestCalling
    <3>2. QED
      BY <1>3, <1>7, <3>1
  <2>6. powerOn
    BY <1>2, <1>7, <2>5, OnlySubmitOnPowers
  <2>7. ~informed /\ ~chipReset /\ calls' # Append(calls, "reset")
    BY <1>3, <1>7
  <2>8. switch.call # "off"
    BY <1>2, <1>7, <2>7, OffIsKnown
  <2>9. QED
    BY <2>2, <2>3, <2>4, <2>6, <2>7, <2>8, SwitchKeepsWatch DEF HearsInv
<1>8. QED
  BY <1>6, <1>7 DEF HearsInv

(* The core, the child and the main loop: who loses the watch is told. *)
LEMMA OthersKeepHearing ==
  ASSUME HearsInv, [SysNext]_sysVars, ~AdapterStep
  PROVE  HearsInv'
<1>1. CASE CoreStarts
  <2>1. startDue' = FALSE /\ (readWatch' \/ informed')
    BY <1>1 DEF CoreStarts, IO!StartReader, IO!SetReader
  <2>2. QED
    BY <2>1 DEF HearsInv
<1>2. CASE CoreStops \/ ErrorArrives
  <2>1. informed' = TRUE /\ UNCHANGED << startDue, vars >>
    BY <1>2 DEF CoreStops, ErrorArrives
  <2>2. QED
    BY <2>1 DEF HearsInv, vars, callVars, baseVars
<1>3. CASE CoreWrites \/ ChildRuns \/ DataArrives \/ UNCHANGED sysVars
  <2>1. CASE CoreWrites
    BY <2>1 DEF CoreWrites, IO!Write, IO!CancelWrite, IO!structVars, knownVars,
                HearsInv, vars, callVars, selfVars, baseVars
  <2>2. CASE ChildRuns
    BY <2>2 DEF ChildRuns, IO!Child, IO!ChildForwardAll, IO!ChildForwardPart,
                IO!ChildForward, IO!ChildExit, IO!structVars, LostChild,
                knownVars, HearsInv, vars, callVars, selfVars, baseVars
  <2>3. CASE DataArrives
    BY <2>3 DEF DataArrives, IO!WriteComplete, IO!ReadCallback, IO!Deliver,
                IO!Return, IO!otherVars, IO!structVars, knownVars,
                HearsInv, vars, callVars, selfVars, baseVars
  <2>4. CASE UNCHANGED sysVars
    BY <2>4 DEF sysVars, ioVars, knownVars, HearsInv, vars, callVars,
                selfVars, baseVars
  <2>5. QED
    BY <1>3, <2>1, <2>2, <2>3, <2>4
<1>4. QED
  BY <1>1, <1>2, <1>3 DEF SysNext

(***************************************************************************)
(* A core with power that expects packets has a watch: the reader that     *)
(* pn54x_io_set_power() closes under a session is started again by the     *)
(* restart that follows the next switching on.  Only a reset of the chip   *)
(* since that start leaves a core without.                                 *)
(***************************************************************************)
THEOREM PoweredCoreHearsAlways == SysSpec => []PoweredCoreHears
<1>1. SysInit => HearsInv
  BY DEF SysInit, Init, HearsInv
<1>2. HearsInv /\ AdapterInv /\ [SysNext]_sysVars => HearsInv'
  BY AdapterKeepsHearing, OthersKeepHearing
<1>3. HearsInv => PoweredCoreHears
  BY DEF HearsInv, PoweredCoreHears, AtRest
<1>4. Safety => []AdapterInv
  BY AdapterInvariant
<1>5. QED
  BY <1>1, <1>2, <1>3, <1>4, SystemKeepsAdapter, PTL DEF SysSpec
=============================================================================
