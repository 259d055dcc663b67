------------------------- MODULE Pn54xIoDataProofs -------------------------
(***************************************************************************)
(* The bytes of the HAL I/O object: whatever the driver returns, however   *)
(* the child, the pipe and the reads cut it, and whatever the client calls *)
(* from its callbacks, no variable of Pn54xIo.tla leaves its type, and the *)
(* part of read_buf that stays is a part of read_buf.                      *)
(***************************************************************************)
EXTENDS Pn54xIoProofs, ReadHandleProofs

(* What a driver returns is bytes, and of these the reader has read some. *)
LEMMA StreamIsBytes ==
  ASSUME DataInv
  PROVE  /\ stream \in Seq(Byte) /\ Len(stream) \in Nat
         /\ sent \in 0 .. Len(stream)
         /\ pipe \in Seq(Byte) /\ Len(pipe) \in Nat
         /\ Pending \in Seq(Byte) /\ Len(Pending) \in Nat
<1>1. stream \in Seq(Byte)
  <2>1. << >> \in Seq(Byte)
    OBVIOUS
  <2>2. stream \in Streams \/ stream = << >>
    BY DEF DataInv, DataTypeOK
  <2>3. QED
    BY <2>1, <2>2, IoAssumption
<1>2. Pending \in Seq(Byte)
  BY DEF DataInv, DataTypeOK, HandleTypeOK, Pending
<1>3. QED
  BY <1>1, <1>2, LenProperties DEF DataInv, DataTypeOK

(* Any piece of a byte string is a byte string. *)
LEMMA PieceIsBytes ==
  ASSUME NEW s \in Seq(Byte), NEW a \in Nat, NEW n \in Nat, a + n <= Len(s)
  PROVE  /\ SubSeq(s, a + 1, a + n) \in Seq(Byte)
         /\ Len(SubSeq(s, a + 1, a + n)) = n
         /\ \A i \in 1 .. n : SubSeq(s, a + 1, a + n)[i] = s[a + i]
<1>1. a + 1 \in Int /\ a + n \in Int /\ Len(s) \in Nat
  BY LenProperties
<1>2. \A i \in a + 1 .. a + n : s[i] \in Byte
  <2> HIDE DEF Byte
  <2> SUFFICES ASSUME NEW i \in a + 1 .. a + n
               PROVE  s[i] \in Byte
    OBVIOUS
  <2>1. i \in 1 .. Len(s)
    BY <1>1
  <2>2. QED
    BY <2>1, ElementOfSeq
<1>3. /\ SubSeq(s, a + 1, a + n) \in Seq(Byte)
      /\ Len(SubSeq(s, a + 1, a + n)) =
           IF a + 1 <= a + n THEN (a + n) - (a + 1) + 1 ELSE 0
      /\ \A i \in 1 .. (a + n) - (a + 1) + 1 :
           SubSeq(s, a + 1, a + n)[i] = s[(a + 1) + i - 1]
  <2> HIDE DEF Byte
  <2> QED BY <1>1, <1>2, SubSeqProperties
<1>4. QED
  BY <1>3

(* The functions that leave the bytes alone, power off included *)
LEMMA DataUntouched ==
  ASSUME DataInv,
         pipe' = pipe \/ pipe' = << >>,
         UNCHANGED << stream, sent, readBuf, rest, phase, delivered >>
  PROVE  DataInv'
<1>1. << >> \in Seq(Byte)
  OBVIOUS
<1>2. QED
  BY <1>1 DEF DataInv, DataTypeOK, HandleInv, HandleTypeOK, Pending,
              RestIsTailOfReadBuf, NoPadAhead, NoWholePacketKept

(* stop() and free(), which are called when no handler is on the stack *)
LEMMA StopKeepsData ==
  ASSUME DataInv, StopIo, phase = "idle"
  PROVE  DataInv'
<1>1. << >> \in Seq(Byte) /\ << >> \in Seq(Seq(Byte)) /\ Len(<< >>) = 0
  OBVIOUS
<1>2. /\ pipe' = << >> /\ stream' = << >> /\ sent' = 0 /\ delivered' = << >>
      /\ readBuf' = << >> /\ rest' = rest /\ phase' = phase
  BY DEF StopIo, Close, CloseFields, ClearReadBuf
<1>3. HandleInv'
  BY <1>1, <1>2, NoPacketInNothing
     DEF DataInv, DataTypeOK, HandleInv, HandleTypeOK, Pending,
         RestIsTailOfReadBuf, NoPadAhead, NoWholePacketKept
<1>4. QED
  BY <1>1, <1>2, <1>3 DEF DataInv, DataTypeOK, HandleInv

(* A new reader, with a stream of its own *)
LEMMA StartKeepsData ==
  ASSUME DataInv, StartReader
  PROVE  DataInv'
<1>1. << >> \in Seq(Byte) /\ << >> \in Seq(Seq(Byte))
  OBVIOUS
<1>2. /\ pipe' = << >> /\ stream' \in Streams /\ sent' = 0
      /\ delivered' = << >>
      /\ readBuf' = readBuf /\ rest' = rest /\ phase' = phase
  BY DEF StartReader, SetReader
<1>3. Len(stream') \in Nat
  BY <1>2, IoAssumption, LenProperties
<1>4. sent' \in 0 .. Len(stream')
  BY <1>2, <1>3
<1>5. QED
  BY <1>1, <1>2, <1>4 DEF DataInv, DataTypeOK, HandleInv, HandleTypeOK, Pending,
                          RestIsTailOfReadBuf, NoPadAhead, NoWholePacketKept

(* A start that fails closes the pipe. *)
LEMMA FailedStartKeepsData ==
  ASSUME DataInv, PipeFails \/ ForkFails
  PROVE  DataInv'
BY DataUntouched DEF PipeFails, ForkFails, Close, CloseFields, driverVars,
                     handleVars

(* What the child writes to the pipe *)
Written(written) == SubSeq(stream, sent + 1, sent + written)

LEMMA ForwardProperties ==
  ASSUME DataInv, NEW n \in 1 .. MaxRead, NEW written \in 0 .. n,
         ChildForward(n, written)
  PROVE  /\ n \in Nat /\ written \in Nat /\ written <= n
         /\ sent + n <= Len(stream) /\ sent' = sent + n
         /\ Written(written) \in Seq(Byte)
         /\ Len(Written(written)) = written
         /\ \A i \in 1 .. written : Written(written)[i] = stream[sent + i]
         /\ pipe' \in Seq(Byte)
         /\ Len(pipe') = Len(pipe) + written
         /\ \A i \in 1 .. Len(pipe) + written :
              pipe'[i] = IF i <= Len(pipe) THEN pipe[i]
                         ELSE Written(written)[i - Len(pipe)]
<1>1. /\ stream \in Seq(Byte) /\ Len(stream) \in Nat
      /\ sent \in 0 .. Len(stream) /\ pipe \in Seq(Byte)
      /\ n \in Nat /\ written \in Nat /\ written <= n
  BY StreamIsBytes, IoAssumption
<1>2. /\ sent + n <= Len(stream) /\ sent' = sent + n
      /\ pipe' = pipe \o Written(written)
  BY DEF ChildForward, Written
<1>3. /\ Written(written) \in Seq(Byte)
      /\ Len(Written(written)) = written
      /\ \A i \in 1 .. written : Written(written)[i] = stream[sent + i]
  <2>1. sent \in Nat /\ sent + written <= Len(stream)
    BY <1>1, <1>2
  <2>2. QED
    BY <1>1, <2>1, PieceIsBytes DEF Written
<1>4. /\ pipe \o Written(written) \in Seq(Byte)
      /\ Len(pipe \o Written(written)) = Len(pipe) + Len(Written(written))
      /\ \A i \in 1 .. Len(pipe) + Len(Written(written)) :
           (pipe \o Written(written))[i] =
             IF i <= Len(pipe) THEN pipe[i] ELSE Written(written)[i - Len(pipe)]
  <2> HIDE DEF Byte
  <2> QED BY <1>1, <1>3, ConcatProperties
<1>5. QED
  BY <1>1, <1>2, <1>3, <1>4

(* The child moves bytes of the driver to the pipe, some of them or all. *)
LEMMA ForwardKeepsData ==
  ASSUME DataInv, NEW n \in 1 .. MaxRead, NEW written \in 0 .. n,
         ChildForward(n, written)
  PROVE  DataInv'
<1>1. /\ Len(stream) \in Nat /\ sent \in 0 .. Len(stream)
      /\ n \in Nat /\ sent + n <= Len(stream) /\ sent' = sent + n
      /\ pipe' \in Seq(Byte)
  BY StreamIsBytes, ForwardProperties
<1>2. stream' = stream /\ UNCHANGED << readBuf, rest, phase, delivered >>
  BY DEF ChildForward, handleVars
<1>3. sent' \in 0 .. Len(stream')
  BY <1>1, <1>2
<1>4. HandleInv'
  BY <1>2 DEF DataInv, HandleInv, HandleTypeOK, Pending, RestIsTailOfReadBuf,
              NoPadAhead, NoWholePacketKept
<1>5. QED
  BY <1>1, <1>2, <1>3, <1>4 DEF DataInv, DataTypeOK, HandleInv

(* What a read takes from the pipe *)
ReadSize == IF Len(pipe) < MaxRead THEN Len(pipe) ELSE MaxRead

Chunk == SubSeq(pipe, 1, ReadSize)

LEMMA ChunkProperties ==
  ASSUME DataInv, ReadCallback
  PROVE  /\ HandleEnter(Chunk)
         /\ ReadSize \in 0 .. Len(pipe) /\ Len(Chunk) = ReadSize
         /\ Chunk \in Seq(Byte)
         /\ \A i \in 1 .. ReadSize : Chunk[i] = pipe[i]
         /\ pipe' \in Seq(Byte)
         /\ Len(pipe') = Len(pipe) - ReadSize
         /\ \A i \in 1 .. Len(pipe') : pipe'[i] = pipe[ReadSize + i]
<1>1. pipe \in Seq(Byte) /\ Len(pipe) \in Nat
  BY StreamIsBytes
<1>2. ReadSize \in Nat /\ ReadSize <= Len(pipe) /\ ReadSize \in 0 .. Len(pipe)
  BY <1>1, IoAssumption DEF ReadSize
<1>3. HandleEnter(Chunk) /\ pipe' = Drop(pipe, ReadSize)
  BY DEF ReadCallback, Chunk, ReadSize
<1>4. /\ Chunk \in Seq(Byte) /\ Len(Chunk) = ReadSize
      /\ \A i \in 1 .. ReadSize : Chunk[i] = pipe[i]
  <2>1. 0 \in Nat /\ 0 + ReadSize <= Len(pipe)
    BY <1>2
  <2>2. /\ SubSeq(pipe, 0 + 1, 0 + ReadSize) \in Seq(Byte)
        /\ Len(SubSeq(pipe, 0 + 1, 0 + ReadSize)) = ReadSize
        /\ \A i \in 1 .. ReadSize :
             SubSeq(pipe, 0 + 1, 0 + ReadSize)[i] = pipe[0 + i]
    BY <1>1, <1>2, <2>1, PieceIsBytes
  <2>3. 0 + 1 = 1 /\ 0 + ReadSize = ReadSize
    BY <1>2
  <2>4. \A i \in 1 .. ReadSize : 0 + i = i
    OBVIOUS
  <2>5. QED
    BY <2>2, <2>3, <2>4 DEF Chunk
<1>5. /\ pipe' \in Seq(Byte) /\ Len(pipe') = Len(pipe) - ReadSize
      /\ \A i \in 1 .. Len(pipe) - ReadSize : pipe'[i] = pipe[ReadSize + i]
  BY <1>1, <1>2, <1>3, DropProperties
<1>6. QED
  BY <1>2, <1>3, <1>4, <1>5

(* A read takes the beginning of the pipe. *)
LEMMA ReadKeepsData ==
  ASSUME DataInv, ReadCallback
  PROVE  DataInv'
<1>1. HandleEnter(Chunk) /\ Chunk \in Seq(Byte) /\ pipe' \in Seq(Byte)
  BY ChunkProperties
<1>2. stream' = stream /\ sent' = sent
  BY DEF ReadCallback, driverVars
<1>3. HandleInv'
  BY <1>1, EnterKeepsHandle DEF DataInv
<1>4. QED
  BY <1>1, <1>2, <1>3 DEF DataInv, DataTypeOK, HandleInv

(* Before pn54x_io_new() there are no data. *)
LEMMA DataInit ==
  ASSUME Init
  PROVE  DataInv
<1>1. /\ pipe = << >> /\ stream = << >> /\ sent = 0
      /\ readBuf = << >> /\ rest = << >> /\ phase = "idle"
      /\ delivered = << >>
  BY DEF Init, HandleInit
<1>2. << >> \in Seq(Byte) /\ << >> \in Seq(Seq(Byte)) /\ Len(<< >>) = 0
  OBVIOUS
<1>3. QED
  BY <1>1, <1>2, NoPacketInNothing
     DEF DataInv, DataTypeOK, HandleInv, HandleTypeOK, Phases, Pending,
         RestIsTailOfReadBuf, NoPadAhead, NoWholePacketKept

(* Every step of the object, of its client and of its child *)
LEMMA DataKept ==
  ASSUME DataInv, [Next]_vars
  PROVE  DataInv'
<1>1. ASSUME NEW driverWorks \in BOOLEAN, New(driverWorks)
      PROVE  DataInv'
  BY <1>1, DataUntouched DEF New, driverVars, handleVars
<1>2. CASE Stop \/ Free
  <2>1. StopIo /\ phase = "idle"
    BY <1>2, IoAssumption DEF Stop, Free, MayCall
  <2>2. QED
    BY <2>1, StopKeepsData
<1>3. CASE Start
  BY <1>3, StartKeepsData DEF Start
<1>4. CASE StartWithoutPipe \/ StartWithoutFork
  BY <1>4, FailedStartKeepsData DEF StartWithoutPipe, StartWithoutFork
<1>5. ASSUME NEW works \in BOOLEAN, NEW callback \in BOOLEAN,
             Write(works, callback)
      PROVE  DataInv'
  BY <1>5, DataUntouched DEF Write, driverVars, handleVars
<1>6. ASSUME NEW on \in BOOLEAN, NEW ioctlWorks \in BOOLEAN,
             SetPower(on, ioctlWorks)
      PROVE  DataInv'
  BY <1>6, DataUntouched
     DEF SetPower, SwitchedOff, LeftOpen, Close, CloseFields, driverVars,
         handleVars
<1>7. CASE CancelWrite \/ WriteComplete \/ ChildExit
  BY <1>7, DataUntouched
     DEF CancelWrite, WriteComplete, ChildExit, driverVars, handleVars
<1>8. CASE ChildForwardAll \/ ChildForwardPart
  <2>1. PICK n \in 1 .. MaxRead : \E written \in 0 .. n :
               ChildForward(n, written)
    BY <1>8, IoAssumption DEF ChildForwardAll, ChildForwardPart
  <2>2. QED
    BY <2>1, ForwardKeepsData
<1>9. CASE ReadCallback
  BY <1>9, ReadKeepsData
<1>10. CASE ReadError
  BY <1>10, DataUntouched DEF ReadError, driverVars, handleVars
<1>11. CASE Deliver \/ Return
  <2>1. HandleInv'
    BY <1>11, DeliverKeepsHandle, ReturnKeepsHandle
       DEF Deliver, Return, DataInv
  <2>2. UNCHANGED << pipe, stream, sent >>
    BY <1>11 DEF Deliver, Return, otherVars, driverVars
  <2>3. QED
    BY <2>1, <2>2 DEF DataInv, DataTypeOK, HandleInv
<1>12. CASE UNCHANGED vars
  BY <1>12, DataUntouched DEF vars, driverVars, handleVars
<1>13. QED
  BY <1>1, <1>2, <1>3, <1>4, <1>5, <1>6, <1>7, <1>8, <1>9, <1>10, <1>11,
     <1>12 DEF Next, ClientCalls, Child, MainLoop

(***************************************************************************)
(* The data of the object stay well formed, and read_buf is never shorter  *)
(* than what the packet loop has left of it, so the code after the loop    *)
(* erases a number of octets that is not negative.                         *)
(***************************************************************************)
THEOREM DataInvariant == Safety => []DataInv
<1>1. Init => DataInv
  BY DataInit
<1>2. DataInv /\ [Next]_vars => DataInv'
  BY DataKept
<1>3. QED
  BY <1>1, <1>2, PTL DEF Safety

(* What HandleInv says of the part of read_buf that stays *)
LEMMA DataLeavesLittle ==
  ASSUME DataInv
  PROVE  ResidueIncomplete
BY ResidueIsShort DEF DataInv

(***************************************************************************)
(* In the whole life of the object, over restarts that keep read_buf and   *)
(* calls from inside the client's callback, what one read leaves for the   *)
(* next is the beginning of one packet, shorter than the longest.          *)
(***************************************************************************)
THEOREM ReadBufBounded == Safety => []ResidueIncomplete
<1>1. DataInv => ResidueIncomplete
  BY DataLeavesLittle
<1>2. QED
  BY <1>1, DataInvariant, PTL

(* Every variable keeps its type, those of the operating system included. *)
THEOREM IoTyped == Safety => []TypeOK
<1>1. LifecycleInv /\ DataInv => TypeOK
  BY DEF LifecycleInv, DataInv, TypeOK
<1>2. QED
  BY <1>1, LifecycleInvariant, DataInvariant, PTL

-----------------------------------------------------------------------------
(* The functions that leave the bytes of the session alone, or cut it off  *)
(* from its reader                                                         *)
LEMMA SessionUntouched ==
  ASSUME DataInv, SessionBytes,
         session' = "started" => session = "started",
         UNCHANGED << stream, sent, handleVars >>,
         \/ pipe' = pipe /\ (ReaderRuns' => ReaderRuns)
         \/ pipe' = << >> /\ ~ ReaderRuns'
  PROVE  SessionBytes'
<1> SUFFICES ASSUME session' = "started"
             PROVE  \E p \in 0 .. sent' : ConsumedUpTo(p)'
  BY DEF SessionBytes
<1>1. PICK p \in 0 .. sent : ConsumedUpTo(p)
  BY DEF SessionBytes
<1>2. /\ sent \in Nat /\ Len(pipe) \in Nat /\ Len(Pending) \in Nat
      /\ Pending' = Pending /\ stream' = stream /\ sent' = sent
      /\ delivered' = delivered
  BY StreamIsBytes DEF handleVars, Pending
<1>3. /\ p + Len(Pending) + Len(pipe) <= sent
      /\ ReaderRuns => p + Len(Pending) + Len(pipe) = sent
      /\ \A i \in 1 .. Len(Pending) : Pending[i] = stream[p + i]
      /\ \A i \in 1 .. Len(pipe) : pipe[i] = stream[(p + Len(Pending)) + i]
      /\ Packets(stream) = delivered \o PacketsFrom(stream, p)
  BY <1>1 DEF ConsumedUpTo
<1>4. CASE pipe' = pipe /\ (ReaderRuns' => ReaderRuns)
  BY <1>2, <1>3, <1>4 DEF ConsumedUpTo
<1>5. CASE pipe' = << >> /\ ~ ReaderRuns'
  <2>1. Len(pipe') = 0
    BY <1>5
  <2>2. p + Len(Pending') + Len(pipe') <= sent'
    BY <1>2, <1>3, <2>1
  <2>3. \A i \in 1 .. Len(pipe') : pipe'[i] = stream'[(p + Len(Pending')) + i]
    BY <2>1
  <2>4. QED
    BY <1>2, <1>3, <1>5, <2>2, <2>3 DEF ConsumedUpTo
<1>6. QED
  BY <1>4, <1>5

(* A closed object has no reader that runs. *)
LEMMA CloseStopsReader ==
  ASSUME NEW leaked, Close(leaked)
  PROVE  pipe' = << >> /\ ~ ReaderRuns'
BY DEF Close, CloseFields, ReaderRuns

(* A session that is started finds nothing of an earlier one. *)
LEMMA StartBeginsSession ==
  ASSUME LifecycleInv, DataInv, Start
  PROVE  SessionBytes'
<1> SUFFICES ASSUME session' = "started"
             PROVE  \E p \in 0 .. sent' : ConsumedUpTo(p)'
  BY DEF SessionBytes
<1>1. /\ pipe' = << >> /\ sent' = 0 /\ delivered' = << >> /\ stream' \in Streams
      /\ session = "stopped"
      /\ readBuf' = readBuf /\ phase' = phase
  BY DEF Start, StartReader, SetReader
<1>2. Pending' = << >>
  BY <1>1 DEF LifecycleInv, StopQuiesces, Pending
<1>3. Len(Pending') = 0 /\ Len(pipe') = 0
  BY <1>1, <1>2
<1>4. Packets(stream') = delivered' \o PacketsFrom(stream', 0)
  <2>1. stream' \in Seq(Byte) /\ 0 \in 0 .. Len(stream')
    BY <1>1, IoAssumption, LenProperties
  <2>2. PacketsFrom(stream', 0) \in Packs
    BY <2>1, PacketsFromTyped
  <2>3. << >> \o PacketsFrom(stream', 0) = PacketsFrom(stream', 0)
    BY <2>2, ConcatEmptySeq DEF Packs
  <2>4. QED
    BY <1>1, <2>3 DEF Packets
<1>5. ConsumedUpTo(0)'
  BY <1>1, <1>3, <1>4 DEF ConsumedUpTo
<1>6. QED
  BY <1>1, <1>5

(* What the child writes comes after what is in the pipe. *)
LEMMA ForwardExtendsSession ==
  ASSUME LifecycleInv, DataInv, SessionBytes,
         NEW n \in 1 .. MaxRead, NEW written \in 0 .. n,
         ChildForward(n, written)
  PROVE  SessionBytes'
<1> SUFFICES ASSUME session' = "started"
             PROVE  \E p \in 0 .. sent' : ConsumedUpTo(p)'
  BY DEF SessionBytes
<1>1. /\ ReaderRuns /\ session = "started"
      /\ readPid' = readPid /\ stream' = stream /\ delivered' = delivered
      /\ Pending' = Pending
      /\ written < n => proc' = [proc EXCEPT ![readPid] = "exited"]
  BY DEF ChildForward, ReaderRuns, historyVars, structVars, handleVars, Pending
<1>2. PICK p \in 0 .. sent : ConsumedUpTo(p)
  BY <1>1 DEF SessionBytes
<1>3. /\ n \in Nat /\ written \in Nat /\ written <= n
      /\ sent' = sent + n
      /\ \A i \in 1 .. written : Written(written)[i] = stream[sent + i]
      /\ Len(pipe') = Len(pipe) + written
      /\ \A i \in 1 .. Len(pipe) + written :
           pipe'[i] = IF i <= Len(pipe) THEN pipe[i]
                      ELSE Written(written)[i - Len(pipe)]
  BY ForwardProperties
<1>4. /\ sent \in Nat /\ Len(pipe) \in Nat /\ Len(Pending) \in Nat
      /\ p \in Nat /\ p <= sent
  BY StreamIsBytes
<1>5. /\ p + Len(Pending) + Len(pipe) = sent
      /\ \A i \in 1 .. Len(Pending) : Pending[i] = stream[p + i]
      /\ \A i \in 1 .. Len(pipe) : pipe[i] = stream[(p + Len(Pending)) + i]
      /\ Packets(stream) = delivered \o PacketsFrom(stream, p)
  BY <1>1, <1>2 DEF ConsumedUpTo
<1>6. written \in Nat /\ p + Len(Pending) + Len(pipe) = sent
  BY <1>3, <1>5
<1>7. ASSUME NEW i \in 1 .. Len(pipe) + written
      PROVE  pipe'[i] = stream[(p + Len(Pending)) + i]
  <2>1. CASE i <= Len(pipe)
    <3>1. i \in 1 .. Len(pipe)
      BY <1>3, <1>4, <2>1
    <3>2. QED
      BY <1>3, <1>5, <2>1, <3>1
  <2>2. CASE ~ (i <= Len(pipe))
    <3>1. i \in Nat /\ i > Len(pipe) /\ i <= Len(pipe) + written
      BY <1>3, <1>4, <2>2
    <3>2. /\ i - Len(pipe) \in 1 .. written
          /\ sent + (i - Len(pipe)) = (p + Len(Pending)) + i
      BY <1>4, <1>6, <3>1
    <3>3. QED
      BY <1>3, <2>2, <3>2
  <2>3. QED
    BY <2>1, <2>2
<1>8. p + Len(Pending) + Len(pipe') = sent + written
  <2>1. Len(pipe') = Len(pipe) + written
    BY <1>3
  <2>2. QED
    BY <1>4, <1>6, <2>1
<1>9. p + Len(Pending) + Len(pipe') <= sent' /\ p \in 0 .. sent'
  BY <1>3, <1>4, <1>8
<1>10. ReaderRuns' => p + Len(Pending) + Len(pipe') = sent'
  <2>1. CASE written = n
    BY <1>3, <1>8, <2>1
  <2>2. CASE written # n
    <3>1. proc' = [proc EXCEPT ![readPid] = "exited"]
      BY <1>1, <1>3, <2>2
    <3>2. /\ proc \in [Children -> { "free", "running", "exited" }]
          /\ readPid \in Children
      BY <1>1, IoAssumption
         DEF LifecycleInv, ControlTypeOK, ReaderRuns, Children
    <3>3. proc'[readPid] = "exited"
      BY <3>1, <3>2
    <3>4. QED
      BY <1>1, <3>3 DEF ReaderRuns
  <2>3. QED
    BY <2>1, <2>2
<1>11. ConsumedUpTo(p)'
  BY <1>1, <1>3, <1>5, <1>7, <1>9, <1>10 DEF ConsumedUpTo
<1>12. QED
  BY <1>9, <1>11

(* A read moves the beginning of the pipe to what is pending. *)
LEMMA ReadKeepsSession ==
  ASSUME DataInv, SessionBytes, ReadCallback
  PROVE  SessionBytes'
<1> SUFFICES ASSUME session' = "started"
             PROVE  \E p \in 0 .. sent' : ConsumedUpTo(p)'
  BY DEF SessionBytes
<1>1. /\ session = "started" /\ stream' = stream /\ sent' = sent
      /\ delivered' = delivered /\ (ReaderRuns' <=> ReaderRuns)
  BY DEF ReadCallback, HandleEnter, historyVars, driverVars, structVars,
         ReaderRuns
<1>2. PICK p \in 0 .. sent : ConsumedUpTo(p)
  BY <1>1 DEF SessionBytes
<1>3. /\ HandleEnter(Chunk) /\ Chunk \in Seq(Byte)
      /\ ReadSize \in 0 .. Len(pipe) /\ Len(Chunk) = ReadSize
      /\ \A i \in 1 .. ReadSize : Chunk[i] = pipe[i]
      /\ Len(pipe') = Len(pipe) - ReadSize
      /\ \A i \in 1 .. Len(pipe') : pipe'[i] = pipe[ReadSize + i]
  BY ChunkProperties
<1>4. /\ stream \in Seq(Byte) /\ Len(stream) \in Nat
      /\ sent \in 0 .. Len(stream) /\ Len(pipe) \in Nat
      /\ Len(Pending) \in Nat /\ HandleInv
  BY StreamIsBytes DEF DataInv
<1>5. /\ p + Len(Pending) + Len(pipe) <= sent
      /\ ReaderRuns => p + Len(Pending) + Len(pipe) = sent
      /\ \A i \in 1 .. Len(Pending) : Pending[i] = stream[p + i]
      /\ \A i \in 1 .. Len(pipe) : pipe[i] = stream[(p + Len(Pending)) + i]
      /\ Packets(stream) = delivered \o PacketsFrom(stream, p)
  BY <1>2 DEF ConsumedUpTo
<1> DEFINE run == Len(Pending) + Len(Chunk) - Len(Pending')
<1>6. /\ run \in 0 .. Len(Chunk) /\ Len(Pending') \in Nat
      /\ Follows(Pending', stream, p + run)
      /\ PacketsFrom(stream, p) = PacketsFrom(stream, p + run)
  <2>1. p \in 0 .. Len(stream)
    BY <1>4
  <2>2. Follows(Pending, stream, p)
    BY <1>4, <1>5 DEF Follows
  <2>3. Follows(Chunk, stream, p + Len(Pending))
    <3>1. Len(Chunk) <= Len(stream) - (p + Len(Pending))
      BY <1>3, <1>4, <1>5
    <3>2. QED
      BY <1>3, <1>4, <1>5, <3>1 DEF Follows
  <2>4. QED
    BY <1>3, <1>4, <2>1, <2>2, <2>3, EnterFollows
<1>7. run = Len(Pending) + ReadSize - Len(Pending')
  BY <1>3
<1> HIDE DEF run
<1>8. /\ (p + run) + Len(Pending') = (p + Len(Pending)) + ReadSize
      /\ run \in Nat /\ ReadSize \in Nat
  BY <1>3, <1>4, <1>6, <1>7
<1>9. /\ p \in Nat /\ sent \in Nat /\ Len(pipe) \in Nat
      /\ Len(Pending) \in Nat /\ Len(Pending') \in Nat
      /\ ReadSize <= Len(pipe) /\ Len(pipe') = Len(pipe) - ReadSize
      /\ p + Len(Pending) + Len(pipe) <= sent
  BY <1>3, <1>4, <1>5, <1>6
<1>10. PICK q \in 0 .. sent : q = p + run
  <2>1. p + run <= sent
    BY <1>8, <1>9
  <2>2. QED
    BY <1>8, <1>9, <2>1
<1>11. /\ q \in Nat /\ q + Len(Pending') = (p + Len(Pending)) + ReadSize
       /\ q + Len(Pending') + Len(pipe') = p + Len(Pending) + Len(pipe)
  BY <1>8, <1>9, <1>10
<1>12. ASSUME NEW i \in 1 .. Len(pipe')
       PROVE  pipe'[i] = stream[(q + Len(Pending')) + i]
  <2>1. /\ i \in Nat /\ ReadSize + i \in 1 .. Len(pipe)
        /\ (p + Len(Pending)) + (ReadSize + i) = (q + Len(Pending')) + i
    BY <1>8, <1>9, <1>11
  <2>2. pipe'[i] = pipe[ReadSize + i]
    BY <1>3
  <2>3. QED
    BY <1>5, <2>1, <2>2
<1>13. \A i \in 1 .. Len(Pending') : Pending'[i] = stream[q + i]
  BY <1>6, <1>10 DEF Follows
<1>14. Packets(stream) = delivered \o PacketsFrom(stream, q)
  BY <1>5, <1>6, <1>10
<1>15. /\ q + Len(Pending') + Len(pipe') <= sent
       /\ ReaderRuns => q + Len(Pending') + Len(pipe') = sent
  BY <1>5, <1>11
<1>16. ConsumedUpTo(q)'
  BY <1>1, <1>12, <1>13, <1>14, <1>15 DEF ConsumedUpTo
<1>17. QED
  BY <1>1, <1>16

(* A delivery moves the first packet to come to those delivered. *)
LEMMA DeliverKeepsSession ==
  ASSUME DataInv, SessionBytes, Deliver
  PROVE  SessionBytes'
<1> SUFFICES ASSUME session' = "started"
             PROVE  \E p \in 0 .. sent' : ConsumedUpTo(p)'
  BY DEF SessionBytes
<1>1. /\ HandleDeliver
      /\ session = "started" /\ stream' = stream /\ sent' = sent
      /\ pipe' = pipe /\ (ReaderRuns' <=> ReaderRuns)
  BY DEF Deliver, otherVars, historyVars, driverVars, structVars, ReaderRuns
<1>2. PICK p \in 0 .. sent : ConsumedUpTo(p)
  BY <1>1 DEF SessionBytes
<1>3. /\ stream \in Seq(Byte) /\ Len(stream) \in Nat
      /\ sent \in 0 .. Len(stream) /\ Len(pipe) \in Nat
      /\ Len(Pending) \in Nat /\ HandleInv
  BY StreamIsBytes DEF DataInv
<1>4. /\ p + Len(Pending) + Len(pipe) <= sent
      /\ ReaderRuns => p + Len(Pending) + Len(pipe) = sent
      /\ \A i \in 1 .. Len(Pending) : Pending[i] = stream[p + i]
      /\ \A i \in 1 .. Len(pipe) : pipe[i] = stream[(p + Len(Pending)) + i]
      /\ Packets(stream) = delivered \o PacketsFrom(stream, p)
  BY <1>2 DEF ConsumedUpTo
<1> DEFINE used == Len(Pending) - Len(Pending')
<1>5. /\ used \in 1 .. Len(Pending) /\ Len(Pending') \in Nat
      /\ Follows(Pending', stream, p + used)
      /\ Packets(stream) = delivered' \o PacketsFrom(stream, p + used)
  <2>1. p \in 0 .. Len(stream) /\ Follows(Pending, stream, p)
    BY <1>3, <1>4 DEF Follows
  <2>2. QED
    BY <1>1, <1>3, <1>4, <2>1, DeliverFollows
<1>6. (p + used) + Len(Pending') = p + Len(Pending)
  BY <1>3, <1>5
<1> HIDE DEF used
<1>7. PICK q \in 0 .. sent : q = p + used
  BY <1>3, <1>4, <1>5
<1>8. q + Len(Pending') = p + Len(Pending)
  BY <1>6, <1>7
<1>9. \A i \in 1 .. Len(Pending') : Pending'[i] = stream[q + i]
  BY <1>5, <1>7 DEF Follows
<1>10. /\ q + Len(Pending') + Len(pipe) <= sent
       /\ ReaderRuns => q + Len(Pending') + Len(pipe) = sent
       /\ \A i \in 1 .. Len(pipe) : pipe[i] = stream[(q + Len(Pending')) + i]
  BY <1>4, <1>8
<1>11. Packets(stream) = delivered' \o PacketsFrom(stream, q)
  BY <1>5, <1>7
<1>12. ConsumedUpTo(q)'
  BY <1>1, <1>9, <1>10, <1>11 DEF ConsumedUpTo
<1>13. QED
  BY <1>1, <1>12

(* A start without a pipe cuts the session off, if there is one. *)
LEMMA PipeFailsEndsSession ==
  ASSUME DataInv, SessionBytes, PipeFails
  PROVE  SessionBytes'
BY SessionUntouched, CloseStopsReader DEF PipeFails, driverVars

(* Every step of the object, of its client and of its child *)
LEMMA SessionStep ==
  ASSUME LifecycleInv, DataInv, SessionBytes, [Next]_vars
  PROVE  SessionBytes'
<1>1. ASSUME NEW driverWorks \in BOOLEAN, New(driverWorks)
      PROVE  SessionBytes'
  BY <1>1, SessionUntouched DEF New, driverVars, historyVars, ReaderRuns
<1>2. CASE Stop \/ Free
  BY <1>2 DEF Stop, Free, StopIo, SessionBytes
<1>3. CASE Start
  BY <1>3, StartBeginsSession
<1>4. CASE StartWithoutPipe
  BY <1>4, PipeFailsEndsSession DEF StartWithoutPipe
<1>5. CASE StartWithoutFork
  BY <1>5 DEF StartWithoutFork, ForkFails, SessionBytes
<1>6. ASSUME NEW works \in BOOLEAN, NEW callback \in BOOLEAN,
             Write(works, callback)
      PROVE  SessionBytes'
  BY <1>6, SessionUntouched DEF Write, driverVars, historyVars, ReaderRuns
<1>7. ASSUME NEW on \in BOOLEAN, NEW ioctlWorks \in BOOLEAN,
             SetPower(on, ioctlWorks)
      PROVE  SessionBytes'
  <2>1. UNCHANGED << stream, sent, handleVars, session >>
    BY <1>7 DEF SetPower, driverVars
  <2>2. CASE ioctlWorks /\ ~on
    BY <1>7, <2>1, <2>2, SessionUntouched, CloseStopsReader
       DEF SetPower, SwitchedOff
  <2>3. CASE ~ (ioctlWorks /\ ~on)
    BY <1>7, <2>1, <2>3, SessionUntouched DEF SetPower, LeftOpen, ReaderRuns
  <2>4. QED
    BY <2>2, <2>3
<1>8. CASE CancelWrite \/ WriteComplete
  BY <1>8, SessionUntouched
     DEF CancelWrite, WriteComplete, structVars, driverVars, historyVars,
         ReaderRuns
<1>9. CASE ChildForwardAll \/ ChildForwardPart
  <2>1. PICK n \in 1 .. MaxRead : \E written \in 0 .. n :
               ChildForward(n, written)
    BY <1>9, IoAssumption DEF ChildForwardAll, ChildForwardPart
  <2>2. QED
    BY <2>1, ForwardExtendsSession
<1>10. CASE ChildExit
  BY <1>10, SessionUntouched
     DEF ChildExit, structVars, driverVars, historyVars, ReaderRuns
<1>11. CASE ReadCallback
  BY <1>11, ReadKeepsSession
<1>12. CASE ReadError
  BY <1>12, SessionUntouched DEF ReadError, driverVars, ReaderRuns
<1>13. CASE Deliver
  BY <1>13, DeliverKeepsSession
<1>14. CASE Return
  <2>1. Pending' = Pending /\ delivered' = delivered
    BY <1>14, ReturnKeepsHandle DEF Return, HandleReturn, DataInv
  <2>2. UNCHANGED << pipe, stream, sent, session, readPid, proc >>
    BY <1>14 DEF Return, otherVars, structVars, driverVars, historyVars
  <2>3. QED
    BY <2>1, <2>2 DEF SessionBytes, ConsumedUpTo, ReaderRuns
<1>15. CASE UNCHANGED vars
  BY <1>15, SessionUntouched
     DEF vars, structVars, driverVars, historyVars, ReaderRuns
<1>16. QED
  BY <1>1, <1>2, <1>3, <1>4, <1>5, <1>6, <1>7, <1>8, <1>9, <1>10, <1>11,
     <1>12, <1>13, <1>14, <1>15 DEF Next, ClientCalls, Child, MainLoop

(***************************************************************************)
(* While a session lasts that was started after a stop, no byte of it is   *)
(* lost, repeated or moved between the driver and the client, and none of  *)
(* an earlier session is among them.                                       *)
(***************************************************************************)
THEOREM SessionInvariant == Safety => []SessionBytes
<1>1. Init => SessionBytes
  BY DEF Init, SessionBytes
<1>2. LifecycleInv /\ DataInv /\ SessionBytes /\ [Next]_vars => SessionBytes'
  BY SessionStep
<1>3. QED
  BY <1>1, <1>2, LifecycleInvariant, DataInvariant, PTL DEF Safety

(* What was delivered and what is to come make what the driver returned. *)
LEMMA SessionIsGenuine ==
  ASSUME DataInv, SessionBytes
  PROVE  DeliveredGenuine
<1> SUFFICES ASSUME session = "started"
             PROVE  /\ Len(delivered) <= Len(Packets(stream))
                    /\ delivered = SubSeq(Packets(stream), 1, Len(delivered))
  BY DEF DeliveredGenuine
<1>1. PICK p \in 0 .. sent :
             Packets(stream) = delivered \o PacketsFrom(stream, p)
  BY DEF SessionBytes, ConsumedUpTo
<1>2. delivered \in Packs
  BY DEF DataInv, DataTypeOK, HandleTypeOK, Packs
<1>3. PacketsFrom(stream, p) \in Packs
  <2>1. stream \in Seq(Byte) /\ p \in 0 .. Len(stream)
    BY StreamIsBytes
  <2>2. QED
    BY <2>1, PacketsFromTyped
<1>4. QED
  BY <1>1, <1>2, <1>3, FirstPackets

(***************************************************************************)
(* A client that starts after a stop is given the packets of what the      *)
(* driver returns to its reader, whole, once, in their order, and nothing  *)
(* else: whatever the earlier sessions left behind, however the child, the *)
(* pipe and the reads cut the bytes, whoever dies, and whatever the client *)
(* calls from inside its own read callback.                                *)
(***************************************************************************)
THEOREM OnlyGenuinePackets == Safety => []DeliveredGenuine
<1>1. DataInv /\ SessionBytes => DeliveredGenuine
  BY SessionIsGenuine
<1>2. QED
  BY <1>1, DataInvariant, SessionInvariant, PTL
=============================================================================
