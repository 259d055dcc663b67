--------------------------- MODULE Pn54xIoProofs ---------------------------
(***************************************************************************)
(* The life cycle of the HAL I/O object: proofs of the safety properties   *)
(* of Pn54xIo.tla that do not depend on which bytes are read, for every    *)
(* set of streams, read size, number of children and of fork() failures.   *)
(***************************************************************************)
EXTENDS Pn54xIo, TLAPS

(* pn54x_io_close() leaves no reader and no descriptor but those leaked. *)
LEMMA CloseCleans ==
  ASSUME LifecycleInv, NEW leaked \in Nat, Close(leaked)
  PROVE  /\ readWatch' = FALSE /\ readChannel' = FALSE /\ readFd' = FALSE
         /\ fd' = FALSE /\ readPid' = 0
         /\ proc' \in [Children -> { "free", "running", "exited" }]
         /\ \A c \in Children : proc'[c] = "free"
         /\ openFds' = 2 * forkFailures + leaked
         /\ openFds' \in Nat
<1>1. /\ proc \in [Children -> { "free", "running", "exited" }]
      /\ \A c \in Children : proc[c] # "free" => c = readPid
      /\ forkFailures \in Nat /\ openFds \in Nat
      /\ openFds = Count(fd) + Count(readFd) + 2 * forkFailures
  BY IoAssumption DEF LifecycleInv, ControlTypeOK, OneReader, DescriptorsAccounted
<1>2. /\ readWatch' = FALSE /\ readChannel' = FALSE /\ readFd' = FALSE
      /\ fd' = FALSE /\ readPid' = 0
      /\ openFds' = openFds + leaked - (Count(readFd) + Count(fd))
      /\ proc' = [c \in Children |-> IF c = readPid THEN "free" ELSE proc[c]]
  BY DEF Close, CloseFields, Reaped, Closed
<1>3. Count(fd) \in {0, 1} /\ Count(readFd) \in {0, 1}
  BY DEF Count
<1>4. openFds' = 2 * forkFailures + leaked /\ openFds' \in Nat
  <2> DEFINE f == Count(fd)
             r == Count(readFd)
  <2> HIDE DEF f, r
  <2>1. /\ f \in {0, 1} /\ r \in {0, 1}
        /\ openFds = f + r + 2 * forkFailures
        /\ openFds' = openFds + leaked - (r + f)
    BY <1>1, <1>2, <1>3 DEF f, r
  <2>2. QED
    BY <1>1, <2>1
<1>5. /\ proc' \in [Children -> { "free", "running", "exited" }]
      /\ \A c \in Children : proc'[c] = "free"
  BY <1>1, <1>2
<1>6. QED
  BY <1>2, <1>4, <1>5

(***************************************************************************)
(* A step that closes the reader, ends the listening of the client, and    *)
(* leaves the parts that only the two conjuncts below look at alone.       *)
(***************************************************************************)
LEMMA CloseStep ==
  ASSUME LifecycleInv, NEW leaked \in Nat, Close(leaked),
         listening' = FALSE,
         forkFailures' \in 0 .. MaxForkFailures,
         2 * forkFailures' = 2 * forkFailures + leaked,
         alive' \in BOOLEAN, client' \in BOOLEAN, session' \in Sessions,
         writeId' \in BOOLEAN, writeCb' \in BOOLEAN, owed' \in BOOLEAN,
         CompletionOwed', SessionHasClient',
         session' = "stopped" => /\ ~writeId' /\ ~writeCb'
                                 /\ phase' = "idle" /\ readBuf' = << >>
  PROVE  LifecycleInv'
<1>1. /\ readWatch' = FALSE /\ readChannel' = FALSE /\ readFd' = FALSE
      /\ fd' = FALSE /\ readPid' = 0
      /\ proc' \in [Children -> { "free", "running", "exited" }]
      /\ \A c \in Children : proc'[c] = "free"
      /\ openFds' = 2 * forkFailures + leaked
      /\ openFds' \in Nat
  BY CloseCleans
<1>2. ControlTypeOK'
  <2>1. 0 \in 0 .. MaxChildren
    BY IoAssumption
  <2>2. TRUE \in BOOLEAN /\ FALSE \in BOOLEAN
    OBVIOUS
  <2>3. QED
    BY <1>1, <2>1, <2>2, Zenon DEF ControlTypeOK
<1>3. OneReader' /\ StopQuiesces' /\ NeverSilentlyDeaf'
  BY <1>1 DEF OneReader, StopQuiesces, NeverSilentlyDeaf
<1>4. DescriptorsAccounted'
  <2>1. Count(fd') = 0 /\ Count(readFd') = 0 /\ 2 * forkFailures' \in Nat
    BY <1>1, IoAssumption DEF Count
  <2>2. QED
    BY <1>1, <2>1 DEF DescriptorsAccounted
<1>5. QED
  BY <1>2, <1>3, <1>4 DEF LifecycleInv

(* stop() and free() *)
LEMMA StopStep ==
  ASSUME LifecycleInv, StopIo, phase = "idle", alive' \in BOOLEAN
  PROVE  LifecycleInv'
<1>1. /\ Close(0) /\ listening' = FALSE /\ forkFailures' = forkFailures
      /\ client' = FALSE /\ session' = "stopped"
      /\ writeId' = FALSE /\ writeCb' = FALSE /\ owed' = FALSE
      /\ phase' = "idle" /\ readBuf' = << >>
  BY DEF StopIo, ClearReadBuf
<1>2. forkFailures \in 0 .. MaxForkFailures /\ 2 * forkFailures \in Nat
  BY IoAssumption DEF LifecycleInv, ControlTypeOK
<1>3. CompletionOwed' /\ SessionHasClient'
  BY <1>1 DEF CompletionOwed, SessionHasClient
<1>4. /\ forkFailures' \in 0 .. MaxForkFailures
      /\ 2 * forkFailures' = 2 * forkFailures + 0 /\ 0 \in Nat
  BY <1>1, <1>2
<1>5. /\ client' \in BOOLEAN /\ session' \in Sessions /\ writeId' \in BOOLEAN
      /\ writeCb' \in BOOLEAN /\ owed' \in BOOLEAN
  BY <1>1 DEF Sessions
<1>6. QED
  BY <1>1, <1>3, <1>4, <1>5, CloseStep, Zenon

(* A step of the object that opens the device at most. *)
LEMMA OpenStep ==
  ASSUME LifecycleInv, Open, alive,
         UNCHANGED << alive, client, readFd, readChannel, readWatch, readPid,
                      proc, listening, session, forkFailures >>,
         writeId' \in BOOLEAN, writeCb' \in BOOLEAN, owed' \in BOOLEAN,
         CompletionOwed', SessionHasClient',
         session' = "stopped" => /\ ~writeId' /\ ~writeCb'
                                 /\ phase' = "idle" /\ readBuf' = << >>
  PROVE  LifecycleInv'
<1>1. /\ fd' = TRUE /\ openFds' = openFds + Count(~fd)
      /\ fd \in BOOLEAN /\ openFds \in Nat /\ forkFailures \in Nat
      /\ openFds = Count(fd) + Count(readFd) + 2 * forkFailures
  BY IoAssumption DEF Open, LifecycleInv, ControlTypeOK, DescriptorsAccounted
<1>2. /\ openFds' \in Nat
      /\ openFds' = Count(fd') + Count(readFd') + 2 * forkFailures'
  <2> DEFINE r == Count(readFd)
  <2> HIDE DEF r
  <2>1. r \in {0, 1} /\ Count(readFd') = r
    BY DEF Count, r
  <2>2. Count(fd) + Count(~fd) = 1 /\ Count(fd') = 1
    BY <1>1 DEF Count
  <2>3. Count(fd) \in {0, 1} /\ Count(~fd) \in {0, 1}
    BY DEF Count
  <2>4. QED
    BY <1>1, <2>1, <2>2, <2>3 DEF r
<1>3. ControlTypeOK'
  BY <1>1, <1>2 DEF LifecycleInv, ControlTypeOK
<1>4. OneReader'
  BY <1>1 DEF LifecycleInv, OneReader
<1>5. StopQuiesces' /\ NeverSilentlyDeaf'
  BY DEF LifecycleInv, StopQuiesces, NeverSilentlyDeaf
<1>6. DescriptorsAccounted'
  BY <1>2 DEF DescriptorsAccounted
<1>7. QED
  BY <1>3, <1>4, <1>5, <1>6 DEF LifecycleInv

(***************************************************************************)
(* A step that leaves the object, the descriptors and the client's view as *)
(* they are, does not touch read_buf unless the handler is on the stack or *)
(* there is a watch, and at most lets a running child exit.                *)
(***************************************************************************)
LEMMA QuietStep ==
  ASSUME LifecycleInv,
         UNCHANGED << alive, client, fd, readFd, readChannel, readWatch,
                      readPid, openFds, writeId, writeCb, owed, session,
                      listening, forkFailures >>,
         \/ proc' = proc
         \/ /\ readPid # 0
            /\ proc' = [proc EXCEPT ![readPid] = "exited"],
         \/ readBuf' = readBuf /\ phase' = phase
         \/ phase # "idle"
         \/ readWatch
  PROVE  LifecycleInv'
<1>1. proc \in [Children -> { "free", "running", "exited" }]
  BY DEF LifecycleInv, ControlTypeOK
<1>2. /\ proc' \in [Children -> { "free", "running", "exited" }]
      /\ \A c \in Children :
           /\ proc'[c] = "free" => proc[c] = "free"
           /\ proc[c] = "free" /\ c # readPid => proc'[c] = "free"
      /\ readPid \in Children /\ proc[readPid] # "free" => proc'[readPid] # "free"
  BY <1>1
<1>3. readPid # 0 => readPid \in Children
  BY IoAssumption DEF LifecycleInv, ControlTypeOK, Children
<1>4. ControlTypeOK'
  BY <1>2 DEF LifecycleInv, ControlTypeOK
<1>5. OneReader'
  BY <1>2, <1>3 DEF LifecycleInv, OneReader
<1>6. StopQuiesces'
  BY DEF LifecycleInv, StopQuiesces, OneReader
<1>7. NeverSilentlyDeaf' /\ CompletionOwed' /\ SessionHasClient'
  BY DEF LifecycleInv, NeverSilentlyDeaf, CompletionOwed, SessionHasClient
<1>8. DescriptorsAccounted'
  BY DEF LifecycleInv, DescriptorsAccounted, Count
<1>9. QED
  BY <1>4, <1>5, <1>6, <1>7, <1>8 DEF LifecycleInv

(* Before a start there is no reader, also when the client starts from     *)
(* inside its read callback.                                               *)
LEMMA StartFindsNoReader ==
  ASSUME LifecycleInv, MayStart
  PROVE  /\ alive /\ readPid = 0
         /\ ~readWatch /\ readFd = FALSE
         /\ \A c \in Children : proc[c] = "free"
<1>1. alive
  BY DEF MayStart, MayCall
<1>2. readPid = 0
  BY DEF MayStart, LifecycleInv, StopQuiesces
<1>3. \A c \in Children : c # 0
  BY DEF Children
<1>4. ~readWatch /\ \A c \in Children : proc[c] = "free"
  BY <1>2, <1>3 DEF LifecycleInv, OneReader
<1>5. readFd = FALSE
  BY <1>2 DEF LifecycleInv, OneReader, ControlTypeOK
<1>6. QED
  BY <1>1, <1>2, <1>4, <1>5

(* start(), when everything works *)
LEMMA StartStep ==
  ASSUME LifecycleInv, Start
  PROVE  LifecycleInv'
<1>1. /\ alive /\ readPid = 0
      /\ ~readWatch /\ readFd = FALSE
      /\ \A c \in Children : proc[c] = "free"
  BY StartFindsNoReader DEF Start
<1> DEFINE child == CHOOSE c \in FreeChildren : \A d \in FreeChildren : c <= d
<1>2. /\ readPid' = child /\ proc' = [proc EXCEPT ![child] = "running"]
      /\ client' = TRUE /\ fd' = TRUE /\ readFd' = TRUE
      /\ readChannel' = TRUE /\ readWatch' = TRUE /\ listening' = TRUE
      /\ openFds' = openFds + Count(~fd) + 1
      /\ session' = IF session = "stopped" THEN "started" ELSE "restarted"
      /\ alive' = alive /\ forkFailures' = forkFailures
      /\ writeId' = writeId /\ writeCb' = writeCb /\ owed' = owed
  BY DEF Start, StartReader, SetReader, writeVars
<1>3. child \in Children
  <2>1. FreeChildren = Children /\ 1 \in Children
    BY <1>1, IoAssumption DEF FreeChildren, Children
  <2>2. \A d \in Children : 1 <= d
    BY DEF Children
  <2>3. \E c \in FreeChildren : \A d \in FreeChildren : c <= d
    BY <2>1, <2>2
  <2>4. child \in FreeChildren
    BY <2>3
  <2>5. QED
    BY <2>1, <2>4
<1> HIDE DEF child
<1>4. /\ proc' \in [Children -> { "free", "running", "exited" }]
      /\ proc'[child] = "running"
      /\ \A c \in Children : c # child => proc'[c] = "free"
  BY <1>1, <1>2, <1>3 DEF LifecycleInv, ControlTypeOK
<1>5. child # 0 /\ child \in 0 .. MaxChildren
  BY <1>3, IoAssumption DEF Children
<1>6. /\ openFds' \in Nat
      /\ openFds' = Count(fd') + Count(readFd') + 2 * forkFailures'
  <2>1. /\ fd \in BOOLEAN /\ openFds \in Nat /\ forkFailures \in Nat
        /\ openFds = Count(fd) + Count(readFd) + 2 * forkFailures
    BY IoAssumption DEF LifecycleInv, ControlTypeOK, DescriptorsAccounted
  <2>2. /\ Count(readFd) = 0 /\ Count(readFd') = 1 /\ Count(fd') = 1
        /\ Count(fd) + Count(~fd) = 1
        /\ Count(fd) \in {0, 1} /\ Count(~fd) \in {0, 1}
    BY <1>1, <1>2, <2>1 DEF Count
  <2>3. QED
    BY <1>2, <2>1, <2>2
<1>7. ControlTypeOK'
  <2>1. session' \in Sessions
    BY <1>2 DEF Sessions
  <2>2. QED
    BY <1>2, <1>4, <1>5, <1>6, <2>1 DEF LifecycleInv, ControlTypeOK
<1>8. OneReader'
  BY <1>2, <1>4, <1>5 DEF OneReader
<1>9. StopQuiesces' /\ NeverSilentlyDeaf' /\ SessionHasClient'
  BY <1>1, <1>2 DEF StopQuiesces, NeverSilentlyDeaf, SessionHasClient
<1>10. CompletionOwed'
  BY <1>2 DEF LifecycleInv, CompletionOwed
<1>11. DescriptorsAccounted'
  BY <1>1, <1>2, <1>6 DEF DescriptorsAccounted
<1>12. QED
  BY <1>7, <1>8, <1>9, <1>10, <1>11 DEF LifecycleInv

(* start(), when pipe() fails, whether or not there is a reader *)
LEMMA PipeFailsStep ==
  ASSUME LifecycleInv, alive, PipeFails
  PROVE  LifecycleInv'
<1>1. /\ writeId \in BOOLEAN /\ writeCb \in BOOLEAN /\ owed \in BOOLEAN
      /\ alive \in BOOLEAN /\ client \in BOOLEAN /\ session \in Sessions
      /\ forkFailures \in 0 .. MaxForkFailures
  BY DEF LifecycleInv, ControlTypeOK
<1>2. /\ listening' = FALSE /\ alive' = alive
      /\ writeId' = writeId /\ writeCb' = writeCb /\ owed' = owed
      /\ phase' = phase /\ readBuf' = readBuf
      /\ Close(0) /\ client' = client /\ session' = session
      /\ forkFailures' = forkFailures
  BY DEF PipeFails, writeVars, handleVars
<1>3. session = "stopped" =>
         ~writeId /\ ~writeCb /\ readBuf = << >> /\ phase = "idle"
  BY DEF LifecycleInv, StopQuiesces
<1>4. CompletionOwed' /\ SessionHasClient'
  BY <1>2 DEF LifecycleInv, CompletionOwed, SessionHasClient
<1>5. 2 * forkFailures' = 2 * forkFailures + 0 /\ 0 \in Nat
  BY <1>1, <1>2, IoAssumption
<1>6. QED
  BY <1>1, <1>2, <1>3, <1>4, <1>5, CloseStep, Zenon

(* start(), when fork() fails and there was no reader *)
LEMMA ForkFailsStep ==
  ASSUME LifecycleInv, StartWithoutFork
  PROVE  LifecycleInv'
<1>1. /\ writeId \in BOOLEAN /\ writeCb \in BOOLEAN /\ owed \in BOOLEAN
      /\ alive \in BOOLEAN /\ session \in Sessions
      /\ forkFailures \in 0 .. MaxForkFailures
  BY DEF LifecycleInv, ControlTypeOK
<1>2. alive /\ readPid = 0
  BY StartFindsNoReader DEF StartWithoutFork
<1>3. /\ listening' = FALSE /\ alive' = alive
      /\ writeId' = writeId /\ writeCb' = writeCb /\ owed' = owed
      /\ phase' = phase /\ readBuf' = readBuf
      /\ client' = FALSE
      /\ session' = IF session = "stopped" THEN "stopped" ELSE "restarted"
      /\ forkFailures' = forkFailures + 1 /\ forkFailures < MaxForkFailures
  BY DEF StartWithoutFork, ForkFails, writeVars, handleVars
<1>4. session = "stopped" =>
         ~writeId /\ ~writeCb /\ readBuf = << >> /\ phase = "idle"
  BY DEF LifecycleInv, StopQuiesces
<1>5. Close(2)
  <2>1. proc \in [Children -> { "free", "running", "exited" }]
    BY DEF LifecycleInv, ControlTypeOK
  <2>2. \A c \in Children : c # readPid
    BY <1>2 DEF Children
  <2>3. Reaped = proc
    BY <2>1, <2>2 DEF Reaped
  <2>4. QED
    BY <2>3 DEF StartWithoutFork, ForkFails, Close
<1>6. CompletionOwed' /\ SessionHasClient'
  BY <1>2, <1>3, <1>4 DEF LifecycleInv, CompletionOwed, SessionHasClient
<1>7. /\ forkFailures' \in 0 .. MaxForkFailures
      /\ 2 * forkFailures' = 2 * forkFailures + 2 /\ 2 \in Nat
  BY <1>1, <1>3, IoAssumption
<1>8. session' \in Sessions /\ (session' = "stopped" => session = "stopped")
  BY <1>3 DEF Sessions
<1>9. client' \in BOOLEAN
  BY <1>3
<1>10. QED
  BY <1>1, <1>2, <1>3, <1>4, <1>5, <1>6, <1>7, <1>8, <1>9, CloseStep, Zenon

(* set_power() *)
LEMMA SetPowerStep ==
  ASSUME LifecycleInv, NEW on \in BOOLEAN, NEW ioctlWorks \in BOOLEAN,
         SetPower(on, ioctlWorks)
  PROVE  LifecycleInv'
<1>1. /\ alive /\ alive' = alive /\ client' = client /\ session' = session
      /\ forkFailures' = forkFailures
      /\ writeId' = writeId /\ writeCb' = writeCb /\ owed' = owed
      /\ phase' = phase /\ readBuf' = readBuf
  BY DEF SetPower, MayCall, SwitchedOff, LeftOpen, writeVars, handleVars
<1>2. /\ writeId \in BOOLEAN /\ writeCb \in BOOLEAN /\ owed \in BOOLEAN
      /\ alive \in BOOLEAN /\ client \in BOOLEAN /\ session \in Sessions
      /\ forkFailures \in 0 .. MaxForkFailures
  BY DEF LifecycleInv, ControlTypeOK
<1>3. CompletionOwed' /\ SessionHasClient'
  BY <1>1 DEF LifecycleInv, CompletionOwed, SessionHasClient
<1>4. session = "stopped" => /\ ~writeId /\ ~writeCb
                             /\ phase = "idle" /\ readBuf = << >>
  BY DEF LifecycleInv, StopQuiesces
<1>5. CASE ioctlWorks /\ ~on
  <2>1. Close(0) /\ listening' = FALSE
    BY <1>5 DEF SetPower, SwitchedOff
  <2>2. 2 * forkFailures' = 2 * forkFailures + 0 /\ 0 \in Nat
    BY <1>1, <1>2, IoAssumption
  <2>3. QED
    BY <1>1, <1>2, <1>3, <1>4, <2>1, <2>2, CloseStep, Zenon
<1>6. CASE ~(ioctlWorks /\ ~on)
  <2>1. /\ Open
        /\ UNCHANGED << readFd, readChannel, readWatch, readPid, proc, listening >>
    BY <1>6 DEF SetPower, LeftOpen
  <2>2. QED
    BY <1>1, <1>2, <1>3, <1>4, <2>1, OpenStep
<1>7. QED
  BY <1>5, <1>6

(* write() *)
LEMMA WriteStep ==
  ASSUME LifecycleInv, NEW works \in BOOLEAN, NEW callback \in BOOLEAN,
         Write(works, callback)
  PROVE  LifecycleInv'
<1>1. /\ alive /\ session # "stopped" /\ ~owed /\ Open
      /\ UNCHANGED << alive, client, readFd, readChannel, readWatch, readPid,
                      proc, listening, session, forkFailures >>
  BY DEF Write, MayCall, historyVars
<1>2. \/ writeCb' = TRUE /\ writeId' = TRUE /\ owed' = TRUE
      \/ writeCb' = writeCb /\ writeId' = writeId /\ owed' = owed
  BY DEF Write, writeVars
<1>3. /\ writeId \in BOOLEAN /\ writeCb \in BOOLEAN /\ owed \in BOOLEAN
      /\ session \in Sessions
  BY DEF LifecycleInv, ControlTypeOK
<1>4. writeId' \in BOOLEAN /\ writeCb' \in BOOLEAN /\ owed' \in BOOLEAN
  BY <1>2, <1>3
<1>5. SessionHasClient'
  BY <1>1 DEF LifecycleInv, SessionHasClient
<1>6. session # "restarted" => client
  BY <1>1, <1>3 DEF LifecycleInv, SessionHasClient, Sessions
<1>7. CompletionOwed'
  BY <1>1, <1>2, <1>6 DEF LifecycleInv, CompletionOwed
<1>8. QED
  BY <1>1, <1>4, <1>5, <1>7, OpenStep

(* cancel_write(), and the write completion *)
LEMMA WriteEndsStep ==
  ASSUME LifecycleInv, CancelWrite \/ WriteComplete
  PROVE  LifecycleInv'
<1>1. /\ writeId' = FALSE /\ writeCb' = FALSE /\ owed' = FALSE
      /\ UNCHANGED << alive, client, fd, readFd, readChannel, readWatch,
                      readPid, proc, openFds, session, listening,
                      forkFailures, readBuf, phase >>
  BY DEF CancelWrite, WriteComplete, structVars, historyVars, handleVars
<1>2. ControlTypeOK'
  BY <1>1 DEF LifecycleInv, ControlTypeOK
<1>3. OneReader' /\ NeverSilentlyDeaf' /\ SessionHasClient'
  BY <1>1 DEF LifecycleInv, OneReader, NeverSilentlyDeaf, SessionHasClient
<1>4. StopQuiesces' /\ CompletionOwed'
  BY <1>1 DEF LifecycleInv, StopQuiesces, CompletionOwed
<1>5. DescriptorsAccounted'
  BY <1>1 DEF LifecycleInv, DescriptorsAccounted, Count
<1>6. QED
  BY <1>2, <1>3, <1>4, <1>5 DEF LifecycleInv

(* io_new() *)
LEMMA NewStep ==
  ASSUME LifecycleInv, NEW driverWorks \in BOOLEAN, New(driverWorks)
  PROVE  LifecycleInv'
<1>1. /\ alive' \in BOOLEAN /\ alive = FALSE
      /\ UNCHANGED << client, fd, readFd, readChannel, readWatch, readPid,
                      proc, openFds, writeId, writeCb, owed, session,
                      listening, forkFailures, readBuf, phase >>
  BY DEF New, writeVars, historyVars, handleVars, LifecycleInv, ControlTypeOK
<1>2. ControlTypeOK'
  BY <1>1 DEF LifecycleInv, ControlTypeOK
<1>3. session = "stopped" /\ SessionHasClient'
  BY <1>1 DEF LifecycleInv, SessionHasClient
<1>4. OneReader' /\ NeverSilentlyDeaf'
  BY <1>1 DEF LifecycleInv, OneReader, NeverSilentlyDeaf
<1>5. StopQuiesces' /\ CompletionOwed'
  BY <1>1 DEF LifecycleInv, StopQuiesces, CompletionOwed
<1>6. DescriptorsAccounted'
  BY <1>1 DEF LifecycleInv, DescriptorsAccounted, Count
<1>7. QED
  BY <1>2, <1>3, <1>4, <1>5, <1>6 DEF LifecycleInv

(* The end of the stream: the watch goes, and the client is told. *)
LEMMA ReadErrorStep ==
  ASSUME LifecycleInv, ReadError
  PROVE  LifecycleInv'
<1>1. /\ readWatch' = FALSE /\ listening' = FALSE
      /\ UNCHANGED << alive, client, fd, readFd, readChannel, readPid, proc,
                      openFds, writeId, writeCb, owed, session, forkFailures,
                      readBuf, phase >>
  BY DEF ReadError, WatchEnds, writeVars, handleVars
<1>2. ControlTypeOK'
  BY <1>1 DEF LifecycleInv, ControlTypeOK
<1>3. OneReader' /\ NeverSilentlyDeaf' /\ SessionHasClient'
  BY <1>1 DEF LifecycleInv, OneReader, NeverSilentlyDeaf, SessionHasClient
<1>4. StopQuiesces' /\ CompletionOwed'
  BY <1>1 DEF LifecycleInv, StopQuiesces, CompletionOwed
<1>5. DescriptorsAccounted'
  BY <1>1 DEF LifecycleInv, DescriptorsAccounted, Count
<1>6. QED
  BY <1>2, <1>3, <1>4, <1>5 DEF LifecycleInv

(* The child, the read callback and the packet loop *)
LEMMA DataStep ==
  ASSUME LifecycleInv,
         Child \/ ReadCallback \/ Deliver \/ Return
  PROVE  LifecycleInv'
<1>1. CASE Child
  <2>1. /\ UNCHANGED << alive, client, fd, readFd, readChannel, readWatch,
                        readPid, openFds, writeId, writeCb, owed, session,
                        listening, forkFailures, readBuf, phase >>
        /\ \/ proc' = proc
           \/ readPid # 0 /\ proc' = [proc EXCEPT ![readPid] = "exited"]
    BY <1>1 DEF Child, ChildForwardAll, ChildForwardPart, ChildForward,
                ChildExit, structVars, writeVars, historyVars, handleVars
  <2>2. QED
    BY <2>1, QuietStep
<1>2. CASE ReadCallback \/ Deliver \/ Return
  <2>1. /\ UNCHANGED << alive, client, fd, readFd, readChannel, readWatch,
                        readPid, openFds, writeId, writeCb, owed, session,
                        listening, forkFailures, proc >>
        /\ phase # "idle" \/ readWatch
    BY <1>2 DEF ReadCallback, Deliver, HandleDeliver, Return, HandleReturn,
                otherVars, structVars, writeVars, historyVars
  <2>2. QED
    BY <2>1, QuietStep
<1>3. QED
  BY <1>1, <1>2

-----------------------------------------------------------------------------
(* Before pn54x_io_new() there is nothing. *)
LEMMA LifecycleInit ==
  ASSUME Init
  PROVE  LifecycleInv
<1>1. /\ alive = FALSE /\ client = FALSE /\ fd = FALSE
      /\ readFd = FALSE /\ readChannel = FALSE /\ readWatch = FALSE
      /\ readPid = 0 /\ openFds = 0 /\ forkFailures = 0
      /\ writeId = FALSE /\ writeCb = FALSE /\ owed = FALSE
      /\ session = "stopped" /\ listening = FALSE
      /\ proc = [c \in Children |-> "free"]
      /\ readBuf = << >> /\ phase = "idle"
  BY DEF Init, HandleInit
<1>2. ControlTypeOK
  <2>1. 0 \in 0 .. MaxChildren /\ 0 \in 0 .. MaxForkFailures
    BY IoAssumption
  <2>2. proc \in [Children -> { "free", "running", "exited" }]
    BY <1>1
  <2>3. session \in Sessions
    BY <1>1 DEF Sessions
  <2>4. QED
    BY <1>1, <2>1, <2>2, <2>3 DEF ControlTypeOK
<1>3. OneReader
  BY <1>1 DEF OneReader
<1>4. /\ StopQuiesces /\ NeverSilentlyDeaf /\ CompletionOwed
      /\ SessionHasClient
  BY <1>1 DEF StopQuiesces, NeverSilentlyDeaf, CompletionOwed, SessionHasClient
<1>5. DescriptorsAccounted
  BY <1>1 DEF DescriptorsAccounted, Count
<1>6. QED
  BY <1>2, <1>3, <1>4, <1>5 DEF LifecycleInv

(* Every step of the object, of its client and of its child *)
LEMMA LifecycleStep ==
  ASSUME LifecycleInv, [Next]_vars
  PROVE  LifecycleInv'
<1>1. CASE \E driverWorks \in BOOLEAN : New(driverWorks)
  BY <1>1, NewStep
<1>2. CASE Stop \/ Free
  <2>1. /\ StopIo /\ phase = "idle" /\ alive' \in BOOLEAN
    BY <1>2, IoAssumption
       DEF Stop, Free, MayCall, LifecycleInv, ControlTypeOK
  <2>2. QED
    BY <2>1, StopStep
<1>3. CASE Start
  BY <1>3, StartStep
<1>4. CASE StartWithoutPipe
  BY <1>4, StartFindsNoReader, PipeFailsStep DEF StartWithoutPipe
<1>5. CASE \E works, callback \in BOOLEAN : Write(works, callback)
  BY <1>5, WriteStep
<1>6. CASE CancelWrite \/ WriteComplete
  BY <1>6, WriteEndsStep
<1>7. CASE \E on, ioctlWorks \in BOOLEAN : SetPower(on, ioctlWorks)
  BY <1>7, SetPowerStep
<1>8. CASE Child \/ ReadCallback \/ Deliver \/ Return
  BY <1>8, DataStep
<1>9. CASE ReadError
  BY <1>9, ReadErrorStep
<1>10. CASE UNCHANGED vars
  <2>1. UNCHANGED << alive, client, fd, readFd, readChannel, readWatch,
                     readPid, openFds, writeId, writeCb, owed, session,
                     listening, forkFailures, proc, readBuf, phase >>
    BY <1>10 DEF vars, structVars, writeVars, historyVars, handleVars
  <2>2. QED
    BY <2>1, QuietStep
<1>11. CASE StartWithoutFork
  BY <1>11, ForkFailsStep
<1>12. QED
  BY <1>1, <1>2, <1>3, <1>4, <1>5, <1>6, <1>7, <1>8, <1>9, <1>10, <1>11
     DEF Next, ClientCalls, MainLoop

(***************************************************************************)
(* The life cycle invariant of the HAL I/O object: whatever the client     *)
(* calls, in its callbacks or outside, whatever fails, and whenever the    *)
(* child dies.                                                             *)
(***************************************************************************)
THEOREM LifecycleInvariant == Safety => []LifecycleInv
<1>1. Init => LifecycleInv
  BY LifecycleInit
<1>2. LifecycleInv /\ [Next]_vars => LifecycleInv'
  BY LifecycleStep
<1>3. QED
  BY <1>1, <1>2, PTL DEF Safety

(***************************************************************************)
(* No child without an owner: every reader process is read_pid, so close() *)
(* and free() kill and reap it, and the read callback has a client.        *)
(***************************************************************************)
THEOREM OneReaderAlways == Safety => []OneReader
<1>1. LifecycleInv => OneReader
  BY DEF LifecycleInv
<1>2. QED
  BY <1>1, LifecycleInvariant, PTL

(***************************************************************************)
(* After stop(), and as long as the client does not start again, nothing   *)
(* of the session is left to fire or to be read by the next one.           *)
(***************************************************************************)
THEOREM StopQuiescesAlways == Safety => []StopQuiesces
<1>1. LifecycleInv => StopQuiesces
  BY DEF LifecycleInv
<1>2. QED
  BY <1>1, LifecycleInvariant, PTL

(* A client that believes it is listening has its watch. *)
THEOREM NeverSilentlyDeafAlways == Safety => []NeverSilentlyDeaf
<1>1. LifecycleInv => NeverSilentlyDeaf
  BY DEF LifecycleInv
<1>2. QED
  BY <1>1, LifecycleInvariant, PTL

(* Descriptors leak where fork() fails, two each time, and nowhere else. *)
THEOREM DescriptorsAccountedAlways == Safety => []DescriptorsAccounted
<1>1. LifecycleInv => DescriptorsAccounted
  BY DEF LifecycleInv
<1>2. QED
  BY <1>1, LifecycleInvariant, PTL

(* The write completion fires when and only when the client is owed it. *)
THEOREM CompletionOwedAlways == Safety => []CompletionOwed
<1>1. LifecycleInv => CompletionOwed
  BY DEF LifecycleInv
<1>2. QED
  BY <1>1, LifecycleInvariant, PTL
=============================================================================
