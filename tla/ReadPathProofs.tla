--------------------------- MODULE ReadPathProofs ---------------------------
(***************************************************************************)
(* Theorems about ReadPath.tla, for every header size, octet range, read   *)
(* size and byte stream: its type invariant, what read_buf holds between   *)
(* reads, and that it implements PacketStream.tla step by step.            *)
(***************************************************************************)
EXTENDS ReadTests, ReadHandleProofs

(* The chunk that a read of n bytes returns. *)
Chunk(n) == SubSeq(stream, received + 1, received + n)

LEMMA ChunkProperties ==
  ASSUME TypeOK, NEW n \in 1 .. MaxRead, received + n <= Len(stream)
  PROVE  /\ Chunk(n) \in Seq(Byte)
         /\ Len(Chunk(n)) = n
         /\ \A i \in 1 .. n : Chunk(n)[i] = stream[received + i]
         /\ received \in Nat /\ n \in Nat \ {0}
<1>0. stream \in Seq(Byte) /\ Len(stream) \in Nat
  BY ReadPathAssumption, LenProperties DEF TypeOK
<1>1. received \in Nat /\ n \in Nat \ {0}
  BY <1>0, ReadPathAssumption DEF TypeOK
<1>2. \A i \in received + 1 .. received + n : stream[i] \in Byte
  <2> HIDE DEF Byte
  <2> SUFFICES ASSUME NEW i \in received + 1 .. received + n
               PROVE  stream[i] \in Byte
    OBVIOUS
  <2>1. i \in 1 .. Len(stream)
    BY <1>0, <1>1
  <2>2. QED
    BY <1>0, <2>1, ElementOfSeq
<1>3. /\ SubSeq(stream, received + 1, received + n) \in Seq(Byte)
      /\ Len(SubSeq(stream, received + 1, received + n)) =
           IF received + 1 <= received + n
           THEN (received + n) - (received + 1) + 1 ELSE 0
      /\ \A i \in 1 .. (received + n) - (received + 1) + 1 :
           SubSeq(stream, received + 1, received + n)[i] =
             stream[(received + 1) + i - 1]
  <2>1. received + 1 \in Int /\ received + n \in Int
    BY <1>1
  <2> HIDE DEF Byte
  <2>2. QED
    BY <1>2, <2>1, SubSeqProperties
<1>4. QED
  BY <1>1, <1>3 DEF Chunk

(* What is pending is part of what was received. *)
LEMMA PendingInStream ==
  ASSUME ReadPathInv
  PROVE  /\ Pending \in Seq(Byte) /\ Len(Pending) \in Nat
         /\ stream \in Seq(Byte) /\ Len(stream) \in Nat
         /\ received \in 0 .. Len(stream)
         /\ received - Len(Pending) \in 0 .. received
         /\ Follows(Pending, stream, received - Len(Pending))
<1>1. /\ Pending \in Seq(Byte) /\ Len(Pending) \in Nat
      /\ stream \in Seq(Byte) /\ Len(stream) \in Nat
      /\ received \in 0 .. Len(stream)
  BY ReadPathAssumption, LenProperties
     DEF ReadPathInv, TypeOK, HandleTypeOK, Pending
<1>2. /\ Len(Pending) <= received
      /\ \A i \in 1 .. Len(Pending) :
           Pending[i] = stream[received - Len(Pending) + i]
  BY DEF ReadPathInv, PendingFollowsStream
<1>3. /\ received - Len(Pending) \in 0 .. received
      /\ Len(Pending) <= Len(stream) - (received - Len(Pending))
  BY <1>1, <1>2
<1>4. QED
  BY <1>1, <1>2, <1>3 DEF Follows

(* The other way round: bytes that follow in the stream are its last ones. *)
LEMMA FollowsIsPending ==
  ASSUME NEW p \in Nat, Len(Pending') \in Nat, received' \in Nat,
         p = received' - Len(Pending'),
         Follows(Pending', stream, p), stream' = stream
  PROVE  PendingFollowsStream'
BY DEF Follows, PendingFollowsStream

(* Entering the handler: the chunk joins what was pending, minus padding.  *)
LEMMA ReadStep ==
  ASSUME ReadPathInv, NEW n \in 1 .. MaxRead, Read(n)
  PROVE  /\ ReadPathInv'
         /\ received' - Len(Pending') \in
              received - Len(Pending) .. received'
         /\ \A i \in received - Len(Pending) + 1 .. received' - Len(Pending') :
              stream[i] = Pad
<1> DEFINE p == received - Len(Pending)
           run == Len(Pending) + Len(Chunk(n)) - Len(Pending')
<1>1. /\ received + n <= Len(stream) /\ received' = received + n
      /\ stream' = stream /\ HandleEnter(Chunk(n))
      /\ phase' = "loop"
  BY DEF Read, HandleEnter, Chunk
<1>2. /\ Chunk(n) \in Seq(Byte) /\ Len(Chunk(n)) = n
      /\ \A i \in 1 .. n : Chunk(n)[i] = stream[received + i]
      /\ received \in Nat /\ n \in Nat \ {0}
  BY <1>1, ChunkProperties DEF ReadPathInv
<1>3. /\ Len(Pending) \in Nat
      /\ stream \in Seq(Byte) /\ Len(stream) \in Nat
      /\ p \in 0 .. received /\ Follows(Pending, stream, p)
      /\ HandleInv /\ received <= Len(stream)
  BY PendingInStream DEF ReadPathInv
<1>4. p + Len(Pending) = received /\ p \in 0 .. Len(stream)
  BY <1>2, <1>3
<1>5. Follows(Chunk(n), stream, p + Len(Pending))
  BY <1>1, <1>2, <1>3, <1>4 DEF Follows
<1>6. HandleInv'
  BY <1>1, <1>2, <1>3, EnterKeepsHandle
<1>7. /\ run \in 0 .. Len(Chunk(n)) /\ Len(Pending') \in Nat
      /\ \A i \in 1 .. run : stream[p + i] = Pad
      /\ Follows(Pending', stream, p + run)
  BY <1>1, <1>2, <1>3, <1>4, <1>5, EnterFollows
<1>8. received' - Len(Pending') = p + run
  <2> HIDE DEF p
  <2>1. p \in Int /\ received' = (p + Len(Pending)) + n
    BY <1>1, <1>4
  <2>2. run = Len(Pending) + n - Len(Pending')
    BY <1>2
  <2> HIDE DEF run
  <2>3. QED
    BY <1>2, <1>3, <1>7, <2>1, <2>2
<1> HIDE DEF p, run
<1>9. PendingFollowsStream'
  <2>1. p + run \in Nat /\ received' \in Nat
    BY <1>1, <1>2, <1>4, <1>7
  <2>2. QED
    BY <1>1, <1>7, <1>8, <2>1, FollowsIsPending
<1>10. TypeOK'
  BY <1>1, <1>2, <1>3, <1>6 DEF ReadPathInv, TypeOK, HandleInv
<1>11. ReadPathInv'
  BY <1>1, <1>6, <1>9, <1>10 DEF ReadPathInv
<1>12. p + run \in p .. received'
  BY <1>1, <1>2, <1>4, <1>7
<1>13. ASSUME NEW i \in p + 1 .. p + run
       PROVE  stream[i] = Pad
  <2>1. i - p \in 1 .. run /\ p + (i - p) = i
    BY <1>4, <1>7
  <2>2. QED
    BY <1>7, <2>1
<1>14. QED
  BY <1>8, <1>11, <1>12, <1>13 DEF p

(* One turn of the packet loop *)
LEMMA DeliverStep ==
  ASSUME ReadPathInv, Deliver
  PROVE  ReadPathInv' /\ Len(Pending') \in Nat
<1> DEFINE p == received - Len(Pending)
           used == Len(Pending) - Len(Pending')
<1>1. /\ HandleDeliver /\ received' = received /\ stream' = stream
      /\ phase' = "client"
  BY DEF Deliver, HandleDeliver
<1>2. /\ Len(Pending) \in Nat
      /\ stream \in Seq(Byte) /\ Len(stream) \in Nat
      /\ p \in 0 .. received /\ Follows(Pending, stream, p)
      /\ HandleInv /\ received \in 0 .. Len(stream)
  BY PendingInStream DEF ReadPathInv
<1>3. HandleInv'
  BY <1>1, <1>2, DeliverKeepsHandle
<1>4. /\ used \in 1 .. Len(Pending) /\ Len(Pending') \in Nat
      /\ Follows(Pending', stream, p + used)
  <2>1. p \in 0 .. Len(stream)
    BY <1>2
  <2>2. QED
    BY <1>1, <1>2, <2>1, DeliverFollows
<1>5. PendingFollowsStream'
  <2>1. p + used = received' - Len(Pending') /\ p + used \in Nat
    BY <1>1, <1>2, <1>4
  <2>2. received' \in Nat
    BY <1>1, <1>2
  <2> HIDE DEF p, used
  <2>3. QED
    BY <1>1, <1>4, <2>1, <2>2, FollowsIsPending
<1>6. TypeOK'
  BY <1>1, <1>3 DEF ReadPathInv, TypeOK, HandleInv
<1>7. QED
  BY <1>1, <1>3, <1>4, <1>5, <1>6 DEF ReadPathInv

(* Leaving the handler *)
LEMMA ReturnStep ==
  ASSUME ReadPathInv, Return
  PROVE  ReadPathInv' /\ Pending' = Pending
<1>1. /\ HandleReturn /\ stream' = stream /\ received' = received
      /\ phase' = "idle"
  BY DEF Return, HandleReturn
<1>2. HandleInv' /\ Pending' = Pending
  BY <1>1, ReturnKeepsHandle DEF ReadPathInv
<1>3. PendingFollowsStream'
  BY <1>1, <1>2 DEF ReadPathInv, PendingFollowsStream
<1>4. TypeOK'
  BY <1>1, <1>2 DEF ReadPathInv, TypeOK, HandleInv
<1>5. QED
  BY <1>1, <1>2, <1>3, <1>4 DEF ReadPathInv

-----------------------------------------------------------------------------
(* The inductive invariant of the read path. *)
THEOREM ReadPathInvariant == Safety => []ReadPathInv
<1>1. Init => ReadPathInv
  <2> SUFFICES ASSUME Init
               PROVE  ReadPathInv
    OBVIOUS
  <2>1. /\ readBuf = << >> /\ rest = << >> /\ phase = "idle"
        /\ delivered = << >> /\ received = 0 /\ stream \in Streams
    BY DEF Init, HandleInit
  <2>2. /\ << >> \in Seq(Byte) /\ << >> \in Seq(Seq(Byte))
        /\ Len(<< >>) = 0 /\ Len(stream) \in Nat
    BY <2>1, EmptySeq, ReadPathAssumption, LenProperties
  <2>3. TypeOK
    BY <2>1, <2>2 DEF TypeOK, HandleTypeOK, Phases
  <2>4. PendingFollowsStream
    BY <2>1, <2>2 DEF PendingFollowsStream, Pending
  <2>5. ReadPacketSize(<< >>) = 0
    BY NoPacketInNothing
  <2>6. QED
    BY <2>1, <2>3, <2>4, <2>5
       DEF ReadPathInv, HandleInv, NoPadAhead, TypeOK, Pending,
           RestIsTailOfReadBuf, NoWholePacketKept
<1>2. ReadPathInv /\ [Next]_vars => ReadPathInv'
  <2> SUFFICES ASSUME ReadPathInv, [Next]_vars
               PROVE  ReadPathInv'
    OBVIOUS
  <2>1. CASE ReadSome
    BY <2>1, ReadStep DEF ReadSome
  <2>2. CASE Deliver
    BY <2>2, DeliverStep
  <2>3. CASE Return
    BY <2>3, ReturnStep
  <2>4. CASE UNCHANGED vars
    BY <2>4 DEF vars, handleVars, ReadPathInv, TypeOK, HandleInv, HandleTypeOK,
                Pending, PendingFollowsStream, RestIsTailOfReadBuf, NoPadAhead,
                NoWholePacketKept
  <2>5. QED
    BY <2>1, <2>2, <2>3, <2>4 DEF Next
<1>3. QED
  BY <1>1, <1>2, PTL DEF Safety

(* Every variable of the read path keeps its type. *)
THEOREM TypeCorrect == Safety => []TypeOK
<1>1. ReadPathInv => TypeOK
  BY DEF ReadPathInv
<1>2. QED
  BY <1>1, ReadPathInvariant, PTL

(***************************************************************************)
(* Between reads read_buf holds the beginning of one packet: no padding in *)
(* front, no complete packet, fewer octets than the longest packet.        *)
(***************************************************************************)
THEOREM ResidueIsIncomplete == Safety => []ResidueIncomplete
<1>1. ReadPathInv => ResidueIncomplete
  BY ResidueIsShort DEF ReadPathInv
<1>2. QED
  BY <1>1, ReadPathInvariant, PTL

(***************************************************************************)
(* No cut of the stream into reads loses, repeats or moves a byte: what is *)
(* pending is the last bytes received.                                     *)
(***************************************************************************)
THEOREM PendingIsTailOfStream == Safety => []PendingIsTail
<1>1. ReadPathInv => PendingIsTail
  <2> SUFFICES ASSUME ReadPathInv
               PROVE  PendingIsTail
    OBVIOUS
  <2> DEFINE from == received - Len(Pending) + 1
             tail == SubSeq(stream, from, received)
  <2>0. /\ Pending \in Seq(Byte) /\ Len(Pending) \in Nat
        /\ stream \in Seq(Byte) /\ Len(stream) \in Nat
        /\ received \in 0 .. Len(stream)
    BY ReadPathAssumption, LenProperties
       DEF ReadPathInv, TypeOK, HandleTypeOK, Pending
  <2>1. /\ Len(Pending) <= received
        /\ \A i \in 1 .. Len(Pending) :
             Pending[i] = stream[received - Len(Pending) + i]
    BY DEF ReadPathInv, PendingFollowsStream
  <2>2. \A i \in from .. received : stream[i] \in Byte
    BY <2>0, <2>1, ElementOfSeq
  <2>3. from \in Int /\ received \in Int
    BY <2>0
  <2>4. received - from + 1 = Len(Pending)
    BY <2>0
  <2>5. \A i \in 1 .. Len(Pending) : from + i - 1 = received - Len(Pending) + i
    BY <2>0
  <2> HIDE DEF from
  <2>6. /\ tail \in Seq(Byte)
        /\ Len(tail) = IF from <= received THEN received - from + 1 ELSE 0
        /\ \A i \in 1 .. received - from + 1 : tail[i] = stream[from + i - 1]
    <3> HIDE DEF Byte
    <3> QED BY <2>2, <2>3, SubSeqProperties
  <2>7. Len(tail) = Len(Pending)
    BY <2>0, <2>3, <2>4, <2>6
  <2>8. \A i \in 1 .. Len(Pending) : Pending[i] = tail[i]
    BY <2>1, <2>4, <2>5, <2>6
  <2>9. Pending = tail
    <3> HIDE DEF Byte, tail
    <3> QED BY <2>0, <2>6, <2>7, <2>8, SeqEqual
  <2>10. QED
    BY <2>1, <2>9 DEF PendingIsTail, from
<1>2. QED
  BY <1>1, ReadPathInvariant, PTL

-----------------------------------------------------------------------------
(* Entering the handler is seen by PacketStream as padding skipped, or as  *)
(* nothing at all.                                                         *)
LEMMA ReadImplements ==
  ASSUME ReadPathInv, NEW n \in 1 .. MaxRead, Read(n)
  PROVE  PS!Next \/ UNCHANGED PS!streamVars
<1> DEFINE p == received - Len(Pending)
           q == received' - Len(Pending')
           run == q - p
<1>1. /\ received' = received + n /\ received + n <= Len(stream)
      /\ stream' = stream /\ delivered' = delivered
  BY DEF Read, HandleEnter
<1>2. /\ Len(stream) \in Nat /\ received \in 0 .. Len(stream)
      /\ p \in 0 .. received /\ n \in Nat
  BY PendingInStream, ReadPathAssumption
<1>3. /\ q \in p .. received'
      /\ \A i \in p + 1 .. q : stream[i] = Pad
  BY ReadStep
<1>4. q <= Len(stream)
  BY <1>1, <1>2, <1>3
<1> HIDE DEF p, q
<1>5. CASE run = 0
  <2>1. q = p
    BY <1>2, <1>3, <1>5
  <2>2. QED
    BY <1>1, <2>1 DEF PS!streamVars, p, q
<1>6. CASE run # 0
  <2>1. run \in 1 .. Len(stream) /\ run > 0 /\ run \in 0 .. Len(stream) - p - 0
    BY <1>2, <1>3, <1>4, <1>6
  <2>2. \A i \in 1 .. run : stream[p + 0 + i] = Pad
    BY <1>2, <1>3
  <2>3. PS!PadsAt(0, run)
    BY <2>1, <2>2 DEF PS!PadsAt, PS!Pad, Pad, p
  <2>4. q = p + run
    BY <1>2, <1>3
  <2>5. PS!SkipPads(run)
    BY <1>1, <2>1, <2>3, <2>4 DEF PS!SkipPads, p, q
  <2>6. QED
    BY <2>1, <2>5 DEF PS!Next
<1>7. QED
  BY <1>5, <1>6

(* One turn of the packet loop is the delivery of the next packet of the   *)
(* stream and the skipping of the padding after it.                        *)
LEMMA DeliverImplements ==
  ASSUME ReadPathInv, Deliver
  PROVE  PS!Next
<1> DEFINE size == ReadPacketSize(rest)
           run == PadRun(Drop(rest, size))
           p == received - Len(rest)
           unread == Drop(stream, p)
<1>0. /\ stream \in Seq(Byte) /\ Len(stream) \in Nat
      /\ received \in 0 .. Len(stream)
  BY ReadPathAssumption, LenProperties DEF ReadPathInv, TypeOK
<1>1. /\ phase # "idle" /\ phase' = "client" /\ size > 0
      /\ received' = received /\ stream' = stream
      /\ delivered' = Append(delivered, SubSeq(rest, 1, size))
  BY DEF Deliver, HandleDeliver
<1>2. /\ rest \in Seq(Byte) /\ Len(rest) \in Nat /\ Len(rest') \in Nat
      /\ size \in 1 .. Len(rest)
      /\ run \in 0 .. Len(rest) - size
      /\ Len(rest') = Len(rest) - (size + run)
      /\ \A i \in 1 .. run : rest[size + i] = Pad
  BY DeliverConsumes DEF ReadPathInv, TypeOK, Deliver
<1>3. ReadPacketSize(rest) = size
  OBVIOUS
<1> HIDE DEF size, run
<1>4. Pending = rest /\ Pending' = rest'
  BY <1>1 DEF Pending
<1>5. /\ Len(rest) <= received
      /\ \A i \in 1 .. Len(rest) : rest[i] = stream[p + i]
      /\ rest # << >> => rest[1] # Pad
  BY <1>4 DEF ReadPathInv, HandleInv, NoPadAhead, PendingFollowsStream
<1>6. /\ p \in 0 .. Len(stream) /\ Len(rest) <= Len(stream) - p
      /\ p + Len(rest) = received
  BY <1>0, <1>2, <1>5
<1> HIDE DEF p
<1>7. /\ unread \in Seq(Byte) /\ Len(unread) = Len(stream) - p
      /\ \A i \in 1 .. Len(stream) - p : unread[i] = stream[p + i]
  BY <1>0, <1>6, DropProperties
<1> HIDE DEF unread
<1>8. ReadPacketSize(unread) = size
  <2>1. Len(rest) <= Len(unread)
    BY <1>6, <1>7
  <2>2. \A i \in 1 .. Len(rest) : unread[i] = rest[i]
    BY <1>0, <1>2, <1>5, <1>6, <1>7
  <2>3. QED
    BY <1>1, <1>2, <1>3, <1>7, <2>1, <2>2, ReadPacketSizeStable
<1>9. p < Len(stream) /\ stream[p + 1] # Pad
  <2>1. rest # << >> /\ 1 \in 1 .. Len(rest)
    BY <1>2, EmptySeq
  <2>2. QED
    BY <1>0, <1>2, <1>5, <1>6, <2>1
<1>10. SubSeq(stream, p + 1, p + size) = SubSeq(rest, 1, size)
  <2>1. \A i \in 1 .. size : rest[i] \in Byte
    BY <1>2, ElementOfSeq
  <2>2. /\ SubSeq(rest, 1, size) \in Seq(Byte)
        /\ Len(SubSeq(rest, 1, size)) = IF 1 <= size THEN size - 1 + 1 ELSE 0
        /\ \A i \in 1 .. size - 1 + 1 : SubSeq(rest, 1, size)[i] = rest[1 + i - 1]
    <3> HIDE DEF Byte
    <3> QED BY <1>2, <2>1, SubSeqProperties
  <2>3. \A i \in p + 1 .. p + size : stream[i] \in Byte
    <3> SUFFICES ASSUME NEW i \in p + 1 .. p + size
                 PROVE  stream[i] \in Byte
      OBVIOUS
    <3>1. i \in 1 .. Len(stream)
      BY <1>0, <1>2, <1>6
    <3>2. QED
      BY <1>0, <3>1, ElementOfSeq
  <2>4. /\ SubSeq(stream, p + 1, p + size) \in Seq(Byte)
        /\ Len(SubSeq(stream, p + 1, p + size)) =
             IF p + 1 <= p + size THEN (p + size) - (p + 1) + 1 ELSE 0
        /\ \A i \in 1 .. (p + size) - (p + 1) + 1 :
             SubSeq(stream, p + 1, p + size)[i] = stream[(p + 1) + i - 1]
    <3>1. p + 1 \in Int /\ p + size \in Int
      BY <1>2, <1>6
    <3> HIDE DEF Byte
    <3>2. QED
      BY <2>3, <3>1, SubSeqProperties
  <2>5. /\ Len(SubSeq(rest, 1, size)) = size
        /\ Len(SubSeq(stream, p + 1, p + size)) = size
    BY <1>2, <1>6, <2>2, <2>4
  <2>6. ASSUME NEW i \in 1 .. size
        PROVE  SubSeq(stream, p + 1, p + size)[i] = SubSeq(rest, 1, size)[i]
    <3>1. /\ i \in 1 .. (p + size) - (p + 1) + 1
          /\ i \in 1 .. size - 1 + 1
          /\ (p + 1) + i - 1 = p + i /\ 1 + i - 1 = i
          /\ i \in 1 .. Len(rest)
      BY <1>2, <1>6
    <3>2. QED
      BY <1>5, <2>2, <2>4, <3>1
  <2>7. QED
    <3> HIDE DEF Byte
    <3> QED BY <2>2, <2>4, <2>5, <2>6, SeqEqual
<1>11. /\ run \in 0 .. Len(stream) - p - size
       /\ run \in 0 .. Len(stream)
       /\ \A i \in 1 .. run : stream[p + size + i] = Pad
  <2>1. run \in 0 .. Len(stream) - p - size /\ run \in 0 .. Len(stream)
    BY <1>0, <1>2, <1>6
  <2>2. ASSUME NEW i \in 1 .. run
        PROVE  stream[p + size + i] = Pad
    <3>1. size + i \in 1 .. Len(rest) /\ p + (size + i) = p + size + i
      BY <1>2, <1>6
    <3>2. QED
      BY <1>2, <1>5, <3>1
  <2>3. QED
    BY <2>1, <2>2
<1>12. received' - Len(Pending') = p + size + run
  <2>1. Len(Pending') = Len(rest) - (size + run)
    BY <1>2, <1>4
  <2>2. /\ p \in Int /\ size \in Int /\ run \in Int /\ Len(rest) \in Int
        /\ received' = p + Len(rest)
    BY <1>1, <1>2, <1>6
  <2> DEFINE total == Len(rest)
             left == Len(Pending')
  <2> HIDE DEF total, left
  <2>3. /\ left = total - (size + run) /\ total \in Int
        /\ received' = p + total
    BY <2>1, <2>2 DEF total, left
  <2>4. received' - left = p + size + run
    BY <2>2, <2>3
  <2>5. QED
    BY <2>4 DEF left
<1>13. received - Len(Pending) = p
  BY <1>4 DEF p
<1>14. PS!Unread = unread /\ PS!ReadPacketSize(unread) = ReadPacketSize(unread)
  BY <1>13 DEF PS!Unread, PS!Drop, Drop, unread,
               PS!ReadPacketSize, ReadPacketSize
<1>15. PS!PadsAt(size, run)
  BY <1>11, <1>13 DEF PS!PadsAt, PS!Pad, Pad
<1>16. PS!DeliverPacket(run)
  <2>1. PS!ReadPacketSize(PS!Unread) = size
    BY <1>8, <1>14
  <2>2. stream[p + 1] # PS!Pad
    BY <1>9 DEF PS!Pad, Pad
  <2>3. QED
    BY <1>1, <1>9, <1>10, <1>12, <1>13, <1>15, <2>1, <2>2
       DEF PS!DeliverPacket
<1>17. QED
  BY <1>11, <1>16 DEF PS!Next

(***************************************************************************)
(* The reassembly implements the abstract packet stream: whatever the      *)
(* stream and however it is cut into reads, the client is handed the       *)
(* packets of the stream, whole, once and in order, and nothing else.      *)
(***************************************************************************)
THEOREM ImplementsPackets == Safety => PS!Safety
<1>1. Init => PS!Init
  <2> SUFFICES ASSUME Init
               PROVE  PS!Init
    OBVIOUS
  <2>1. /\ readBuf = << >> /\ phase = "idle" /\ delivered = << >>
        /\ received = 0 /\ stream \in Streams
    BY DEF Init, HandleInit
  <2>2. received - Len(Pending) = 0
    <3>1. Pending = << >>
      BY <2>1 DEF Pending
    <3>2. Len(Pending) = 0
      BY <3>1
    <3>3. QED
      BY <2>1, <3>2
  <2>3. QED
    BY <2>1, <2>2 DEF PS!Init
<1>2. ReadPathInv /\ [Next]_vars => [PS!Next]_(PS!streamVars)
  <2> SUFFICES ASSUME ReadPathInv, [Next]_vars
               PROVE  PS!Next \/ UNCHANGED PS!streamVars
    OBVIOUS
  <2>1. CASE ReadSome
    BY <2>1, ReadImplements DEF ReadSome
  <2>2. CASE Deliver
    BY <2>2, DeliverImplements
  <2>3. CASE Return
    BY <2>3, ReturnStep DEF Return, HandleReturn, PS!streamVars
  <2>4. CASE UNCHANGED vars
    <3>1. Pending' = Pending
      BY <2>4 DEF vars, handleVars, Pending
    <3>2. QED
      BY <2>4, <3>1 DEF vars, handleVars, PS!streamVars
  <2>5. QED
    BY <2>1, <2>2, <2>3, <2>4 DEF Next
<1>3. QED
  BY <1>1, <1>2, ReadPathInvariant, PTL DEF Safety, PS!Safety

-----------------------------------------------------------------------------
(* The first q bytes of the stream *)
Prefix(q) == SubSeq(stream, 1, q)

LEMMA PrefixProperties ==
  ASSUME ReadPathInv, NEW q \in received .. Len(stream)
  PROVE  /\ Prefix(q) \in Seq(Byte) /\ q \in Nat
         /\ Len(Prefix(q)) = q
         /\ \A i \in 1 .. q : Prefix(q)[i] = stream[i]
<1>1. /\ stream \in Seq(Byte) /\ Len(stream) \in Nat
      /\ received \in 0 .. Len(stream)
  BY PendingInStream
<1>2. q \in Nat /\ q <= Len(stream)
  BY <1>1
<1>3. \A i \in 1 .. q : stream[i] \in Byte
  <2> SUFFICES ASSUME NEW i \in 1 .. q
               PROVE  stream[i] \in Byte
    OBVIOUS
  <2>1. i \in 1 .. Len(stream)
    BY <1>1, <1>2
  <2> HIDE DEF Byte
  <2>2. QED
    BY <1>1, <2>1, ElementOfSeq
<1>4. /\ Prefix(q) \in Seq(Byte)
      /\ Len(Prefix(q)) = IF 1 <= q THEN q - 1 + 1 ELSE 0
      /\ \A i \in 1 .. q - 1 + 1 : Prefix(q)[i] = stream[1 + i - 1]
  <2> HIDE DEF Byte
  <2> QED BY <1>2, <1>3, SubSeqProperties DEF Prefix
<1>5. QED
  BY <1>2, <1>4

(* What the packets of a prefix are, spelled without the abbreviations *)
LEMMA PrefixPackets ==
  ASSUME DeliveredThenRest, NEW q \in received .. Len(stream)
  PROVE  Packets(Prefix(q)) =
           delivered \o PacketsFrom(Prefix(q), received - Len(Pending))
BY DEF DeliveredThenRest, Prefix

(* What is pending follows in every such prefix. *)
LEMMA PendingInPrefix ==
  ASSUME ReadPathInv, NEW q \in received .. Len(stream)
  PROVE  /\ received - Len(Pending) \in 0 .. Len(Prefix(q))
         /\ Follows(Pending, Prefix(q), received - Len(Pending))
<1> DEFINE p == received - Len(Pending)
<1>1. /\ Len(Pending) \in Nat /\ Len(stream) \in Nat
      /\ received \in 0 .. Len(stream) /\ p \in 0 .. received
      /\ \A i \in 1 .. Len(Pending) : Pending[i] = stream[p + i]
  BY PendingInStream DEF Follows
<1>2. /\ q \in Nat /\ Len(Prefix(q)) = q
      /\ \A i \in 1 .. q : Prefix(q)[i] = stream[i]
  BY PrefixProperties
<1>3. p + Len(Pending) = received
  BY <1>1
<1> HIDE DEF p
<1>4. p \in 0 .. Len(Prefix(q)) /\ Len(Pending) <= Len(Prefix(q)) - p
  BY <1>1, <1>2, <1>3
<1>5. ASSUME NEW i \in 1 .. Len(Pending)
      PROVE  Pending[i] = Prefix(q)[p + i]
  <2>1. p + i \in 1 .. q
    BY <1>1, <1>2, <1>3
  <2>2. QED
    BY <1>1, <1>2, <2>1
<1>6. QED
  BY <1>4, <1>5 DEF Follows, p

(* Skipping padding does not change what is still to come. *)
LEMMA ReadKeepsDelivered ==
  ASSUME ReadPathInv, DeliveredThenRest, NEW n \in 1 .. MaxRead, Read(n)
  PROVE  DeliveredThenRest'
<1> DEFINE p == received - Len(Pending)
           next == received' - Len(Pending')
<1>1. /\ received' = received + n /\ received + n <= Len(stream)
      /\ stream' = stream /\ delivered' = delivered
  BY DEF Read, HandleEnter
<1>2. /\ next \in p .. received'
      /\ \A i \in p + 1 .. next : stream[i] = Pad
  BY ReadStep
<1>3. /\ n \in Nat /\ Len(stream) \in Nat /\ received \in 0 .. Len(stream)
      /\ p \in 0 .. received
  BY ReadPathAssumption, PendingInStream
<1>4. ASSUME NEW q \in received' .. Len(stream)
      PROVE  Packets(Prefix(q)) = delivered \o PacketsFrom(Prefix(q), next)
  <2>1. q \in received .. Len(stream)
    BY <1>1, <1>3
  <2>2. Packets(Prefix(q)) = delivered \o PacketsFrom(Prefix(q), p)
    BY <2>1, PrefixPackets
  <2>3. /\ Prefix(q) \in Seq(Byte) /\ q \in Nat
        /\ Len(Prefix(q)) = q
        /\ \A i \in 1 .. q : Prefix(q)[i] = stream[i]
    BY <2>1, PrefixProperties
  <2> HIDE DEF p, next
  <2>4. p \in 0 .. Len(Prefix(q)) /\ next - p \in 0 .. Len(Prefix(q)) - p
    BY <1>1, <1>2, <1>3, <2>3
  <2>5. \A i \in 1 .. next - p : Prefix(q)[p + i] = Pad
    <3> SUFFICES ASSUME NEW i \in 1 .. next - p
                 PROVE  Prefix(q)[p + i] = Pad
      OBVIOUS
    <3>1. p + i \in 1 .. q /\ p + i \in p + 1 .. next
      BY <1>2, <1>3, <2>3, <2>4
    <3>2. QED
      BY <1>2, <2>3, <3>1
  <2>6. PacketsFrom(Prefix(q), p) = PacketsFrom(Prefix(q), p + (next - p))
    BY <2>3, <2>4, <2>5, SkipWalk
  <2>7. p + (next - p) = next
    BY <1>2, <1>3
  <2>8. QED
    BY <2>2, <2>6, <2>7
<1> HIDE DEF next
<1>5. QED
  BY <1>1, <1>4 DEF DeliveredThenRest, Prefix, next

(* A delivery moves the first packet to come to those delivered. *)
LEMMA DeliverKeepsDelivered ==
  ASSUME ReadPathInv, DeliveredThenRest, Deliver
  PROVE  DeliveredThenRest'
<1> DEFINE p == received - Len(Pending)
           used == Len(Pending) - Len(Pending')
<1>1. HandleDeliver /\ received' = received /\ stream' = stream
  BY DEF Deliver
<1>2. ASSUME NEW q \in received .. Len(stream)
      PROVE  Packets(Prefix(q)) = delivered' \o PacketsFrom(Prefix(q), p + used)
  <2>1. Packets(Prefix(q)) = delivered \o PacketsFrom(Prefix(q), p)
    BY PrefixPackets
  <2>2. /\ Prefix(q) \in Seq(Byte) /\ p \in 0 .. Len(Prefix(q))
        /\ Follows(Pending, Prefix(q), p)
    BY PrefixProperties, PendingInPrefix
  <2>3. HandleInv
    BY DEF ReadPathInv
  <2> HIDE DEF p
  <2>4. QED
    BY <1>1, <2>1, <2>2, <2>3, DeliverFollows
<1>3. p + used = received' - Len(Pending')
  <2>1. HandleInv /\ received \in Int /\ Len(Pending) \in Int
    BY PendingInStream DEF ReadPathInv
  <2>2. Len(Pending') \in Int
    BY DeliverStep
  <2>3. QED
    BY <1>1, <2>1, <2>2
<1> HIDE DEF p, used
<1>4. QED
  BY <1>1, <1>2, <1>3 DEF DeliveredThenRest, Prefix

(***************************************************************************)
(* After each read the client has exactly the packets of the bytes received*)
(* so far: no cut of the stream into reads loses, repeats, splits, joins or*)
(* reorders a packet, whatever the stream.                                 *)
(***************************************************************************)
THEOREM DeliveredPackets == Safety => []DeliveredIsReference
<1> DEFINE Inv == ReadPathInv /\ DeliveredThenRest
<1>1. Init => DeliveredThenRest
  <2> SUFFICES ASSUME Init, NEW q \in received .. Len(stream)
               PROVE  Packets(Prefix(q)) =
                        delivered
                          \o PacketsFrom(Prefix(q), received - Len(Pending))
    BY DEF DeliveredThenRest, Prefix
  <2>1. /\ readBuf = << >> /\ phase = "idle" /\ delivered = << >>
        /\ received = 0 /\ stream \in Seq(Byte)
    BY ReadPathAssumption DEF Init, HandleInit
  <2>2. received - Len(Pending) = 0
    <3>1. Pending = << >>
      BY <2>1 DEF Pending
    <3>2. Len(Pending) = 0
      BY <3>1
    <3>3. QED
      BY <2>1, <3>2
  <2>3. PacketsFrom(Prefix(q), 0) \in Packs
    <3>1. Prefix(q) \in Seq(Byte)
      <4>1. q \in 0 .. Len(stream)
        BY <2>1
      <4>2. \A i \in 1 .. q : i \in 1 .. Len(stream)
        BY <2>1, <4>1, LenProperties
      <4>3. \A i \in 1 .. q : stream[i] \in Byte
        <5> HIDE DEF Byte
        <5> QED BY <2>1, <4>2, ElementOfSeq
      <4> HIDE DEF Byte
      <4>4. QED
        BY <4>1, <4>3, SubSeqProperties DEF Prefix
    <3>2. 0 \in 0 .. Len(Prefix(q))
      BY <3>1, LenProperties
    <3>3. QED
      BY <3>1, <3>2, PacketsFromTyped
  <2>4. << >> \o PacketsFrom(Prefix(q), 0) = PacketsFrom(Prefix(q), 0)
    BY <2>3, ConcatEmptySeq DEF Packs
  <2>5. QED
    BY <2>1, <2>2, <2>4 DEF Packets
<1>2. Inv /\ [Next]_vars => DeliveredThenRest'
  <2> SUFFICES ASSUME Inv, [Next]_vars
               PROVE  DeliveredThenRest'
    OBVIOUS
  <2>1. CASE ReadSome
    BY <2>1, ReadKeepsDelivered DEF ReadSome
  <2>2. CASE Deliver
    BY <2>2, DeliverKeepsDelivered
  <2>3. CASE Return
    BY <2>3, ReturnStep DEF Return, HandleReturn, DeliveredThenRest
  <2>4. CASE UNCHANGED vars
    <3>1. Pending' = Pending
      BY <2>4 DEF vars, handleVars, Pending
    <3>2. QED
      BY <2>4, <3>1 DEF vars, handleVars, DeliveredThenRest
  <2>5. QED
    BY <2>1, <2>2, <2>3, <2>4 DEF Next
<1>3. Inv => DeliveredIsReference
  <2> SUFFICES ASSUME Inv, phase = "idle"
               PROVE  delivered = Packets(Prefix(received))
    BY DEF DeliveredIsReference, Prefix
  <2> DEFINE p == received - Len(Pending)
  <2>1. /\ Pending \in Seq(Byte) /\ Len(Pending) \in Nat
        /\ received \in 0 .. Len(stream) /\ Len(stream) \in Nat
    BY PendingInStream
  <2>2. /\ ReadPacketSize(Pending) = 0
        /\ Pending # << >> => Pending[1] # Pad
    BY DEF ReadPathInv, HandleInv, NoPadAhead, NoWholePacketKept, Pending
  <2>3. received \in received .. Len(stream)
    BY <2>1
  <2>4. /\ Prefix(received) \in Seq(Byte)
        /\ Len(Prefix(received)) = received
        /\ p \in 0 .. Len(Prefix(received))
        /\ \A i \in 1 .. Len(Pending) : Pending[i] = Prefix(received)[p + i]
    BY <2>3, PrefixProperties, PendingInPrefix DEF Follows
  <2>5. Packets(Prefix(received)) =
          delivered \o PacketsFrom(Prefix(received), p)
    BY <2>3, PrefixPackets
  <2>6. Len(Pending) = Len(Prefix(received)) - p
    BY <2>1, <2>4
  <2> HIDE DEF p
  <2>7. PacketsFrom(Prefix(received), p) = << >>
    BY <2>1, <2>2, <2>4, <2>6, IncompleteWalk
  <2>8. delivered \o << >> = delivered
    BY ConcatEmptySeq DEF ReadPathInv, TypeOK, HandleTypeOK
  <2>9. QED
    BY <2>5, <2>7, <2>8
<1>4. QED
  BY <1>1, <1>2, <1>3, ReadPathInvariant, PTL DEF Safety

-----------------------------------------------------------------------------
(* The octets of two strings, one behind the other *)
LEMMA Behind ==
  ASSUME NEW x \in Seq(Byte), NEW y \in Seq(Byte)
  PROVE  /\ x \o y \in Seq(Byte) /\ Len(x \o y) = Len(x) + Len(y)
         /\ \A i \in 1 .. Len(x) : (x \o y)[i] = x[i]
         /\ \A i \in 1 .. Len(y) : (x \o y)[Len(x) + i] = y[i]
<1> DEFINE s == x \o y
<1> HIDE DEF Byte
<1>1. /\ x \o y \in Seq(Byte) /\ Len(x \o y) = Len(x) + Len(y)
      /\ \A i \in 1 .. Len(x) + Len(y) :
           (x \o y)[i] = IF i <= Len(x) THEN x[i] ELSE y[i - Len(x)]
  BY ConcatProperties
<1>2. Len(x) \in Nat /\ Len(y) \in Nat
  BY LenProperties
<1>3. ASSUME NEW i \in 1 .. Len(x)
      PROVE  i \in 1 .. Len(x) + Len(y) /\ i <= Len(x)
  BY <1>2
<1>4. ASSUME NEW i \in 1 .. Len(y)
      PROVE  /\ Len(x) + i \in 1 .. Len(x) + Len(y) /\ ~(Len(x) + i <= Len(x))
             /\ Len(x) + i - Len(x) = i
  BY <1>2
<1> HIDE DEF s
<1>5. /\ \A i \in 1 .. Len(x) : s[i] = x[i]
      /\ \A i \in 1 .. Len(y) : s[Len(x) + i] = y[i]
  <2>1. \A i \in 1 .. Len(x) + Len(y) :
           s[i] = IF i <= Len(x) THEN x[i] ELSE y[i - Len(x)]
    BY <1>1 DEF s
  <2>2. \A i \in 1 .. Len(x) : s[i] = x[i]
    BY <1>3, <2>1
  <2>3. \A i \in 1 .. Len(y) : s[Len(x) + i] = y[i]
    BY <1>4, <2>1
  <2>4. QED
    BY <2>2, <2>3
<1>6. QED
  BY <1>1, <1>5 DEF s

(* Two packets, one behind the other *)
LEMMA OneThenOther ==
  ASSUME NEW P, NEW x \in P, NEW y \in P
  PROVE  << x >> \o << y >> = << x, y >>
<1>1. << x >> \in Seq(P) /\ << y >> \in Seq(P) /\ << x, y >> \in Seq(P)
  OBVIOUS
<1> DEFINE s == << x >> \o << y >>
           t == << x, y >>
<1>2. /\ s \in Seq(P) /\ Len(s) = Len(<< x >>) + Len(<< y >>)
      /\ \A i \in 1 .. Len(<< x >>) + Len(<< y >>) : s[i] =
           IF i <= Len(<< x >>) THEN << x >>[i] ELSE << y >>[i - Len(<< x >>)]
  BY <1>1, ConcatProperties
<1>3. Len(<< x >>) = 1 /\ Len(<< y >>) = 1 /\ << x >>[1] = x /\ << y >>[1] = y
  OBVIOUS
<1>4. t \in Seq(P) /\ Len(t) = 2 /\ t[1] = x /\ t[2] = y
  BY <1>1
<1> HIDE DEF s, t
<1>5. s \in Seq(P) /\ Len(s) = 2
  BY <1>2, <1>3
<1>6. s[1] = x
  BY <1>2, <1>3
<1>7. s[2] = y
  <2>1. s[2] = IF 2 <= 1 THEN << x >>[2] ELSE << y >>[2 - 1]
    BY <1>2, <1>3
  <2>2. 2 - 1 = 1 /\ ~(2 <= 1)
    OBVIOUS
  <2>3. QED
    BY <2>1, <2>2, <1>3
<1>8. \A i \in 1 .. Len(s) : s[i] = t[i]
  BY <1>4, <1>5, <1>6, <1>7
<1>9. Len(s) = Len(t)
  BY <1>4, <1>5
<1>10. s = t
  BY <1>4, <1>5, <1>8, <1>9, SeqEqual
<1>11. QED
  BY <1>10 DEF s, t

(* What the tests put before, between and after packets *)
LEMMA PaddingProperties ==
  ASSUME NEW n \in Nat
  PROVE  /\ Padding(n) \in Seq(Byte) /\ Len(Padding(n)) = n
         /\ \A i \in 1 .. n : Padding(n)[i] = Pad
<1>1. Pad \in Byte
  BY FramingAssumption DEF Pad, Byte
<1>2. QED
  BY <1>1 DEF Padding

(* A packet with two octets behind its header, as in the tests *)
TwoOctets(packet) ==
  /\ packet \in Seq(Byte) /\ Len(packet) = 5
  /\ packet[1] # Pad /\ packet[3] = 2

(* The walk goes over such a packet, and over padding. *)
LEMMA TwoOctetsWalk ==
  ASSUME HeaderSize = 3, NEW packet, TwoOctets(packet),
         NEW bytes \in Seq(Byte), NEW p \in Nat, NEW q \in Nat, q = p + 5,
         q <= Len(bytes), \A i \in 1 .. 5 : bytes[p + i] = packet[i]
  PROVE  PacketsFrom(bytes, p) = << packet >> \o PacketsFrom(bytes, q)
<1>1. /\ packet \in Seq(Byte) /\ Len(packet) = 5
      /\ packet[1] # Pad /\ packet[3] = 2
  BY DEF TwoOctets
<1>2. ReadPacketSize(packet) = 5
  BY <1>1 DEF ReadPacketSize
<1>3. SubSeq(packet, 1, 5) = packet
  <2>1. SubSeq(packet, 1, Len(packet)) = packet
    <3> HIDE DEF Byte
    <3> QED BY <1>1, SubSeqFull
  <2>2. QED
    BY <1>1, <2>1
<1>4. /\ p \in 0 .. Len(bytes) /\ Len(packet) <= Len(bytes) - p
      /\ ReadPacketSize(packet) > 0
      /\ \A i \in 1 .. Len(packet) : packet[i] = bytes[p + i]
  <2>1. Len(bytes) \in Nat
    BY LenProperties
  <2>2. QED
    BY <1>1, <1>2, <2>1
<1>5. PacketsFrom(bytes, p) =
        << SubSeq(packet, 1, ReadPacketSize(packet)) >> \o
          PacketsFrom(bytes, p + ReadPacketSize(packet))
  BY <1>1, <1>4, PacketWalk
<1>6. QED
  BY <1>2, <1>3, <1>5

LEMMA PaddingWalk ==
  ASSUME NEW bytes \in Seq(Byte), NEW p \in Nat, NEW n \in Nat,
         NEW q \in Nat, q = p + n, q <= Len(bytes),
         \A i \in 1 .. n : bytes[p + i] = Pad
  PROVE  PacketsFrom(bytes, p) = PacketsFrom(bytes, q)
<1>1. Len(bytes) \in Nat
  BY LenProperties
<1>2. p \in 0 .. Len(bytes) /\ n \in 0 .. Len(bytes) - p
  BY <1>1
<1>3. QED
  BY <1>2, SkipWalk

(***************************************************************************)
(* The reference finds in the bytes of each test what the test expects.    *)
(***************************************************************************)
LEMMA BasicPackets ==
  ASSUME HeaderSize = 3, MaxByte = 255
  PROVE  Basic.in \in Seq(Byte) /\ Packets(Basic.in) = Basic.out
<1> DEFINE packet == << 96, 8, 2, 5, 5 >>
           pads == Padding(27)
           bytes == packet \o pads
<1>1. Basic.in = bytes /\ Basic.out = << packet >>
  BY DEF Basic
<1>2. TwoOctets(packet)
  BY DEF TwoOctets, Byte, Pad
<1>3. /\ pads \in Seq(Byte) /\ Len(pads) = 27
      /\ \A i \in 1 .. 27 : pads[i] = Pad
  BY PaddingProperties
<1> HIDE DEF packet, pads
<1>4. packet \in Seq(Byte) /\ Len(packet) = 5
  BY <1>2 DEF TwoOctets
<1>5. /\ bytes \in Seq(Byte) /\ Len(bytes) = Len(packet) + Len(pads)
      /\ \A i \in 1 .. Len(packet) : bytes[i] = packet[i]
      /\ \A i \in 1 .. Len(pads) : bytes[Len(packet) + i] = pads[i]
  BY <1>3, <1>4, Behind
<1> HIDE DEF bytes
<1>6. Len(bytes) = 32
  BY <1>3, <1>4, <1>5
<1>7. PacketsFrom(bytes, 0) = << packet >> \o PacketsFrom(bytes, 5)
  <2>1. 5 \in Nat /\ 0 \in Nat /\ 5 \in Nat /\ 5 = 0 + 5 /\ 5 <= Len(bytes)
    BY <1>6
  <2>2. \A i \in 1 .. 5 : bytes[0 + i] = packet[i]
    BY <1>4, <1>5
  <2>3. bytes \in Seq(Byte) /\ HeaderSize = 3
    BY <1>5
  <2>4. QED
    BY ONLY <1>2, <2>1, <2>2, <2>3, TwoOctetsWalk
<1>8. PacketsFrom(bytes, 5) = PacketsFrom(bytes, 32)
  <2>1. 32 \in Nat /\ 5 \in Nat /\ 27 \in Nat /\ 32 = 5 + 27 /\ 32 <= Len(bytes)
    BY <1>6
  <2>2. \A i \in 1 .. 27 : bytes[5 + i] = Pad
    BY <1>3, <1>4, <1>5
  <2>3. bytes \in Seq(Byte)
    BY <1>5
  <2>4. QED
    BY ONLY <2>1, <2>2, <2>3, PaddingWalk
<1>9. PacketsFrom(bytes, 32) = << >>
  BY <1>5, <1>6, WalkAtEnd
<1>10. << packet >> \o << >> = << packet >>
  <2>1. << packet >> \in Seq(Seq(Byte))
    BY <1>4
  <2>2. QED
    BY <2>1, ConcatEmptySeq
<1>11. QED
  BY <1>1, <1>5, <1>7, <1>8, <1>9, <1>10 DEF Packets

LEMMA SplitPackets ==
  ASSUME HeaderSize = 3, MaxByte = 255
  PROVE  Split.in \in Seq(Byte) /\ Packets(Split.in) = Split.out
<1> DEFINE packet == << 96, 8, 2, 178, 0 >>
           before == Padding(14)
           after == Padding(7)
           head == before \o packet
           bytes == head \o after
<1>1. Split.in = bytes /\ Split.out = << packet >>
  BY DEF Split
<1>2. TwoOctets(packet)
  BY DEF TwoOctets, Byte, Pad
<1>3. /\ before \in Seq(Byte) /\ Len(before) = 14
      /\ \A i \in 1 .. 14 : before[i] = Pad
      /\ after \in Seq(Byte) /\ Len(after) = 7
      /\ \A i \in 1 .. 7 : after[i] = Pad
  BY PaddingProperties
<1> HIDE DEF packet, before, after
<1>4. packet \in Seq(Byte) /\ Len(packet) = 5
  BY <1>2 DEF TwoOctets
<1>5. /\ head \in Seq(Byte) /\ Len(head) = Len(before) + Len(packet)
      /\ \A i \in 1 .. Len(before) : head[i] = before[i]
      /\ \A i \in 1 .. Len(packet) : head[Len(before) + i] = packet[i]
  BY <1>3, <1>4, Behind
<1> HIDE DEF head
<1>6. /\ bytes \in Seq(Byte) /\ Len(bytes) = Len(head) + Len(after)
      /\ \A i \in 1 .. Len(head) : bytes[i] = head[i]
      /\ \A i \in 1 .. Len(after) : bytes[Len(head) + i] = after[i]
  BY <1>3, <1>5, Behind
<1> HIDE DEF bytes
<1>7. Len(head) = 19 /\ Len(bytes) = 26
  BY <1>3, <1>4, <1>5, <1>6
<1>8. \A i \in 1 .. 19 : bytes[i] = head[i]
  BY <1>6, <1>7
<1>9. PacketsFrom(bytes, 0) = PacketsFrom(bytes, 14)
  <2>1. 14 \in Nat /\ 0 \in Nat /\ 14 \in Nat /\ 14 = 0 + 14 /\ 14 <= Len(bytes)
    BY <1>7
  <2>2. \A i \in 1 .. 14 : bytes[0 + i] = Pad
    BY <1>3, <1>5, <1>8
  <2>3. bytes \in Seq(Byte)
    BY <1>6
  <2>4. QED
    BY ONLY <2>1, <2>2, <2>3, PaddingWalk
<1>10. PacketsFrom(bytes, 14) = << packet >> \o PacketsFrom(bytes, 19)
  <2>1. 19 \in Nat /\ 14 \in Nat /\ 5 \in Nat /\ 19 = 14 + 5 /\ 19 <= Len(bytes)
    BY <1>7
  <2>2. \A i \in 1 .. 5 : bytes[14 + i] = packet[i]
    BY <1>3, <1>4, <1>5, <1>8
  <2>3. bytes \in Seq(Byte) /\ HeaderSize = 3
    BY <1>6
  <2>4. QED
    BY ONLY <1>2, <2>1, <2>2, <2>3, TwoOctetsWalk
<1>11. PacketsFrom(bytes, 19) = PacketsFrom(bytes, 26)
  <2>1. 26 \in Nat /\ 19 \in Nat /\ 7 \in Nat /\ 26 = 19 + 7 /\ 26 <= Len(bytes)
    BY <1>7
  <2>2. \A i \in 1 .. 7 : bytes[19 + i] = Pad
    BY <1>3, <1>6, <1>7
  <2>3. bytes \in Seq(Byte)
    BY <1>6
  <2>4. QED
    BY ONLY <2>1, <2>2, <2>3, PaddingWalk
<1>12. PacketsFrom(bytes, 26) = << >>
  BY <1>6, <1>7, WalkAtEnd
<1>13. << packet >> \o << >> = << packet >>
  <2>1. << packet >> \in Seq(Seq(Byte))
    BY <1>4
  <2>2. QED
    BY <2>1, ConcatEmptySeq
<1>14. QED
  BY <1>1, <1>6, <1>9, <1>10, <1>11, <1>12, <1>13 DEF Packets

LEMMA CombinedPackets ==
  ASSUME HeaderSize = 3, MaxByte = 255
  PROVE  Combined.in \in Seq(Byte) /\ Packets(Combined.in) = Combined.out
<1> DEFINE first == << 96, 8, 2, 178, 0 >>
           second == << 97, 6, 2, 3, 0 >>
           between == Padding(3)
           after == Padding(5)
           head == first \o between
           both == head \o second
           bytes == both \o after
<1>1. Combined.in = bytes /\ Combined.out = << first, second >>
  BY DEF Combined
<1>2. TwoOctets(first) /\ TwoOctets(second)
  BY DEF TwoOctets, Byte, Pad
<1>3. /\ between \in Seq(Byte) /\ Len(between) = 3
      /\ \A i \in 1 .. 3 : between[i] = Pad
      /\ after \in Seq(Byte) /\ Len(after) = 5
      /\ \A i \in 1 .. 5 : after[i] = Pad
  BY PaddingProperties
<1> HIDE DEF first, second, between, after
<1>4. /\ first \in Seq(Byte) /\ Len(first) = 5
      /\ second \in Seq(Byte) /\ Len(second) = 5
  BY <1>2 DEF TwoOctets
<1>5. /\ head \in Seq(Byte) /\ Len(head) = Len(first) + Len(between)
      /\ \A i \in 1 .. Len(first) : head[i] = first[i]
      /\ \A i \in 1 .. Len(between) : head[Len(first) + i] = between[i]
  BY <1>3, <1>4, Behind
<1> HIDE DEF head
<1>6. /\ both \in Seq(Byte) /\ Len(both) = Len(head) + Len(second)
      /\ \A i \in 1 .. Len(head) : both[i] = head[i]
      /\ \A i \in 1 .. Len(second) : both[Len(head) + i] = second[i]
  BY <1>4, <1>5, Behind
<1> HIDE DEF both
<1>7. /\ bytes \in Seq(Byte) /\ Len(bytes) = Len(both) + Len(after)
      /\ \A i \in 1 .. Len(both) : bytes[i] = both[i]
      /\ \A i \in 1 .. Len(after) : bytes[Len(both) + i] = after[i]
  BY <1>3, <1>6, Behind
<1> HIDE DEF bytes
<1>8. Len(head) = 8 /\ Len(both) = 13 /\ Len(bytes) = 18
  BY <1>3, <1>4, <1>5, <1>6, <1>7
<1>9. \A i \in 1 .. 8 : bytes[i] = head[i]
  BY <1>6, <1>7, <1>8
<1>10. PacketsFrom(bytes, 0) = << first >> \o PacketsFrom(bytes, 5)
  <2>1. 5 \in Nat /\ 0 \in Nat /\ 5 \in Nat /\ 5 = 0 + 5 /\ 5 <= Len(bytes)
    BY <1>8
  <2>2. \A i \in 1 .. 5 : bytes[0 + i] = first[i]
    BY <1>4, <1>5, <1>9
  <2>3. bytes \in Seq(Byte) /\ HeaderSize = 3
    BY <1>7
  <2>4. QED
    BY ONLY <1>2, <2>1, <2>2, <2>3, TwoOctetsWalk
<1>11. PacketsFrom(bytes, 5) = PacketsFrom(bytes, 8)
  <2>1. 8 \in Nat /\ 5 \in Nat /\ 3 \in Nat /\ 8 = 5 + 3 /\ 8 <= Len(bytes)
    BY <1>8
  <2>2. \A i \in 1 .. 3 : bytes[5 + i] = Pad
    BY <1>3, <1>4, <1>5, <1>9
  <2>3. bytes \in Seq(Byte)
    BY <1>7
  <2>4. QED
    BY ONLY <2>1, <2>2, <2>3, PaddingWalk
<1>12. PacketsFrom(bytes, 8) = << second >> \o PacketsFrom(bytes, 13)
  <2>1. 13 \in Nat /\ 8 \in Nat /\ 5 \in Nat /\ 13 = 8 + 5 /\ 13 <= Len(bytes)
    BY <1>8
  <2>2. \A i \in 1 .. 5 : bytes[8 + i] = second[i]
    BY <1>4, <1>6, <1>7, <1>8
  <2>3. bytes \in Seq(Byte) /\ HeaderSize = 3
    BY <1>7
  <2>4. QED
    BY ONLY <1>2, <2>1, <2>2, <2>3, TwoOctetsWalk
<1>13. PacketsFrom(bytes, 13) = PacketsFrom(bytes, 18)
  <2>1. 18 \in Nat /\ 13 \in Nat /\ 5 \in Nat /\ 18 = 13 + 5 /\ 18 <= Len(bytes)
    BY <1>8
  <2>2. \A i \in 1 .. 5 : bytes[13 + i] = Pad
    BY <1>3, <1>7, <1>8
  <2>3. bytes \in Seq(Byte)
    BY <1>7
  <2>4. QED
    BY ONLY <2>1, <2>2, <2>3, PaddingWalk
<1>14. PacketsFrom(bytes, 18) = << >>
  BY <1>7, <1>8, WalkAtEnd
<1>15. << first >> \o (<< second >> \o << >>) = << first, second >>
  <2>1. << second >> \in Seq(Seq(Byte))
    BY <1>4
  <2>2. << second >> \o << >> = << second >>
    BY <2>1, ConcatEmptySeq
  <2>3. first \in Seq(Byte) /\ second \in Seq(Byte)
    BY <1>4
  <2>4. << first >> \o << second >> = << first, second >>
    BY ONLY <2>3, OneThenOther
  <2>5. QED
    BY <2>2, <2>4
<1>16. QED
  BY <1>1, <1>7, <1>10, <1>11, <1>12, <1>13, <1>14, <1>15 DEF Packets

(***************************************************************************)
(* The three read tests of test_pn54x_io.c succeed however their bytes are *)
(* cut into reads, whatever the size of a read: the outcome that they      *)
(* assert is what the reference finds in the bytes they send.              *)
(***************************************************************************)
THEOREM TestsSucceed ==
  ASSUME HeaderSize = 3, MaxByte = 255, Streams = TestStreams
  PROVE  Safety => []TestOutcomes
<1>1. ASSUME TypeOK, DeliveredIsReference
      PROVE  TestOutcomes
  <2> SUFFICES ASSUME received = Len(stream), phase = "idle"
               PROVE  \E test \in ReadTests :
                        stream = test.in /\ delivered = test.out
    BY DEF TestOutcomes
  <2>1. PICK test \in ReadTests : stream = test.in
    BY <1>1 DEF TypeOK, TestStreams
  <2>2. test.in \in Seq(Byte) /\ Packets(test.in) = test.out
    BY BasicPackets, SplitPackets, CombinedPackets DEF ReadTests
  <2>3. SubSeq(stream, 1, Len(stream)) = stream
    <3> HIDE DEF Byte
    <3> QED BY <2>1, <2>2, SubSeqFull
  <2>4. delivered = Packets(SubSeq(stream, 1, received))
    BY <1>1 DEF DeliveredIsReference
  <2>5. QED
    BY <2>1, <2>2, <2>3, <2>4
<1>2. QED
  BY <1>1, TypeCorrect, DeliveredPackets, PTL

-----------------------------------------------------------------------------
(***************************************************************************)
(* What PacketStream.tla promises, said with the reference: in each of its *)
(* behaviours the packets delivered and those the walk finds behind the    *)
(* bytes consumed are the packets of the stream.                           *)
(***************************************************************************)
Consumed == received - Len(Pending)

DeliveredInOrder ==
  /\ stream \in Streams
  /\ Consumed \in 0 .. Len(stream)
  /\ delivered \in Packs
  /\ Packets(stream) = delivered \o PacketsFrom(stream, Consumed)

LEMMA SameFraming ==
  /\ PS!Pad = Pad
  /\ \A buf : PS!ReadPacketSize(buf) = ReadPacketSize(buf)
  /\ PS!Unread = Drop(stream, Consumed)
BY DEF PS!Pad, Pad, PS!ReadPacketSize, ReadPacketSize, PS!Unread, PS!Drop,
       Drop, Consumed

(* What is not consumed yet *)
LEMMA UnreadProperties ==
  ASSUME DeliveredInOrder
  PROVE  /\ stream \in Seq(Byte) /\ Len(stream) \in Nat
         /\ PS!Unread \in Seq(Byte)
         /\ Len(PS!Unread) = Len(stream) - Consumed
         /\ \A i \in 1 .. Len(stream) - Consumed :
              PS!Unread[i] = stream[Consumed + i]
<1>1. stream \in Seq(Byte) /\ Len(stream) \in Nat
  BY ReadPathAssumption, LenProperties DEF DeliveredInOrder
<1>2. QED
  BY <1>1, SameFraming, DropProperties DEF DeliveredInOrder

(* Padding that is skipped holds no packet. *)
LEMMA SkipKeepsOrder ==
  ASSUME DeliveredInOrder, NEW n \in 1 .. Len(stream), PS!SkipPads(n)
  PROVE  DeliveredInOrder'
<1>1. /\ stream' = stream /\ delivered' = delivered
      /\ Consumed' = Consumed + n
      /\ n \in 0 .. Len(stream) - Consumed - 0
      /\ \A i \in 1 .. n : stream[Consumed + 0 + i] = Pad
  BY SameFraming DEF PS!SkipPads, PS!PadsAt, Consumed
<1>2. /\ stream \in Seq(Byte) /\ Len(stream) \in Nat
      /\ Consumed \in 0 .. Len(stream)
  BY UnreadProperties DEF DeliveredInOrder
<1> HIDE DEF Consumed
<1>3. /\ n \in 0 .. Len(stream) - Consumed
      /\ Consumed + n \in 0 .. Len(stream)
      /\ \A i \in 1 .. n : stream[Consumed + i] = Pad
  BY <1>1, <1>2
<1>4. PacketsFrom(stream, Consumed) = PacketsFrom(stream, Consumed + n)
  BY <1>2, <1>3, SkipWalk
<1>5. QED
  BY <1>1, <1>3, <1>4 DEF DeliveredInOrder

(* A packet that is delivered is the first of those to come. *)
LEMMA DeliverKeepsOrder ==
  ASSUME DeliveredInOrder, NEW n \in 0 .. Len(stream), PS!DeliverPacket(n)
  PROVE  DeliveredInOrder'
<1> DEFINE size == ReadPacketSize(PS!Unread)
           packet == SubSeq(stream, Consumed + 1, Consumed + size)
<1>1. /\ stream' = stream /\ Consumed < Len(stream)
      /\ stream[Consumed + 1] # Pad /\ size > 0
      /\ n \in 0 .. Len(stream) - Consumed - size
      /\ \A i \in 1 .. n : stream[Consumed + size + i] = Pad
      /\ delivered' = Append(delivered, packet)
      /\ Consumed' = Consumed + size + n
  BY SameFraming DEF PS!DeliverPacket, PS!PadsAt, Consumed
<1>2. /\ stream \in Seq(Byte) /\ Len(stream) \in Nat
      /\ Consumed \in 0 .. Len(stream) /\ Consumed \in Nat
      /\ PS!Unread \in Seq(Byte)
      /\ Len(PS!Unread) = Len(stream) - Consumed
      /\ \A i \in 1 .. Len(PS!Unread) : PS!Unread[i] = stream[Consumed + i]
      /\ delivered \in Packs
      /\ Packets(stream) = delivered \o PacketsFrom(stream, Consumed)
  BY UnreadProperties DEF DeliveredInOrder
<1> HIDE DEF Consumed
<1>3. size \in 1 .. Len(PS!Unread)
  BY <1>1, <1>2, ReadPacketSizeProperties
<1>4. /\ Consumed + size \in 0 .. Len(stream)
      /\ n \in 0 .. Len(stream) - (Consumed + size)
      /\ Consumed + size + n \in 0 .. Len(stream)
      /\ size \in Nat /\ n \in Nat
  BY <1>1, <1>2, <1>3
<1>5. PS!Unread # << >> /\ PS!Unread[1] # Pad
  <2>1. Len(PS!Unread) # 0 /\ 1 \in 1 .. Len(PS!Unread)
    BY <1>2, <1>3
  <2>2. QED
    BY <1>1, <1>2, <2>1, EmptySeq
<1>6. packet = SubSeq(PS!Unread, 1, size)
  <2>1. Consumed + size + 1 - 1 = Consumed + size
    BY <1>2, <1>4
  <2>0. /\ stream \in Seq(Byte) /\ Consumed \in 0 .. Len(stream)
        /\ PS!Unread \in Seq(Byte)
        /\ Len(PS!Unread) <= Len(stream) - Consumed
        /\ \A i \in 1 .. Len(PS!Unread) : PS!Unread[i] = stream[Consumed + i]
        /\ size \in 1 .. Len(PS!Unread)
    <3> HIDE DEF Byte, size
    <3> QED BY <1>2, <1>3
  <2> HIDE DEF size, Byte
  <2>2. SubSeq(stream, Consumed + 1, Consumed + size + 1 - 1) =
          SubSeq(PS!Unread, 1, size)
    BY ONLY <2>0, FollowingSubSeq
  <2>3. QED
    BY <2>1, <2>2
<1>7. packet \in Seq(Byte)
  <2>1. \A i \in 1 .. size : PS!Unread[i] \in Byte
    <3> HIDE DEF Byte, size
    <3> QED BY <1>2, <1>3, ElementOfSeq
  <2> HIDE DEF Byte, size, packet
  <2>2. SubSeq(PS!Unread, 1, size) \in Seq(Byte)
    BY <2>1, <1>4, SubSeqProperties
  <2>3. QED
    BY <1>6, <2>2
<1>8. /\ n \in 0 .. Len(PS!Unread) - size
      /\ \A i \in 1 .. n : PS!Unread[size + i] = Pad
  <2> HIDE DEF size, packet
  <2>1. n \in 0 .. Len(PS!Unread) - size
    BY <1>2, <1>4
  <2>2. ASSUME NEW i \in 1 .. n
        PROVE  PS!Unread[size + i] = Pad
    <3>1. /\ size + i \in 1 .. Len(PS!Unread)
          /\ Consumed + (size + i) = Consumed + size + i
      BY <1>2, <1>4
    <3>2. QED
      BY <1>1, <1>2, <3>1
  <2>3. QED
    BY <2>1, <2>2
<1>9. Packets(stream) =
        Append(delivered, packet) \o PacketsFrom(stream, Consumed + size + n)
  <2>1. Packets(stream) =
          Append(delivered, SubSeq(PS!Unread, 1, ReadPacketSize(PS!Unread))) \o
            PacketsFrom(stream, Consumed + (ReadPacketSize(PS!Unread) + n))
    <3>1. /\ stream \in Seq(Byte) /\ Consumed \in 0 .. Len(stream)
          /\ PS!Unread \in Seq(Byte)
          /\ Len(PS!Unread) <= Len(stream) - Consumed
          /\ \A i \in 1 .. Len(PS!Unread) :
               PS!Unread[i] = stream[Consumed + i]
          /\ ReadPacketSize(PS!Unread) > 0 /\ PS!Unread[1] # Pad
      <4> HIDE DEF Byte
      <4> QED BY <1>1, <1>2, <1>5
    <3>2. /\ n \in 0 .. Len(PS!Unread) - ReadPacketSize(PS!Unread)
          /\ \A i \in 1 .. n : PS!Unread[ReadPacketSize(PS!Unread) + i] = Pad
          /\ delivered \in Packs
          /\ Packets(stream) = delivered \o PacketsFrom(stream, Consumed)
      BY <1>2, <1>8
    <3> HIDE DEF Byte
    <3>3. QED
      BY ONLY <3>1, <3>2, DeliverWalk
  <2>2. Consumed + (size + n) = Consumed + size + n
    BY <1>2, <1>4
  <2> HIDE DEF packet
  <2>3. QED
    BY <1>6, <2>1, <2>2
<1> HIDE DEF packet, size
<1>10. Append(delivered, packet) \in Packs
  <2> DEFINE P == Seq(Byte)
  <2>1. delivered \in Seq(P) /\ packet \in P
    BY <1>2, <1>7 DEF Packs
  <2> HIDE DEF P
  <2>2. Append(delivered, packet) \in Seq(P)
    BY <2>1, AppendProperties
  <2>3. QED
    BY <2>2 DEF Packs, P
<1>11. QED
  BY <1>1, <1>2, <1>4, <1>9, <1>10 DEF DeliveredInOrder

THEOREM PromiseIsReference == PS!Safety => []DeliveredInOrder
<1>1. PS!Init => DeliveredInOrder
  <2> SUFFICES ASSUME PS!Init
               PROVE  DeliveredInOrder
    OBVIOUS
  <2>1. stream \in Streams /\ Consumed = 0 /\ delivered = << >>
    BY DEF PS!Init, Consumed
  <2>2. stream \in Seq(Byte) /\ Len(stream) \in Nat
    BY <2>1, ReadPathAssumption, LenProperties
  <2>3. << >> \in Packs /\ PacketsFrom(stream, 0) \in Packs
    BY <2>2, EmptySeq, PacketsFromTyped DEF Packs
  <2>4. << >> \o PacketsFrom(stream, 0) = PacketsFrom(stream, 0)
    BY <2>3, ConcatEmptySeq DEF Packs
  <2>5. QED
    BY <2>1, <2>2, <2>3, <2>4 DEF DeliveredInOrder, Packets
<1>2. DeliveredInOrder /\ [PS!Next]_(PS!streamVars) => DeliveredInOrder'
  <2> SUFFICES ASSUME DeliveredInOrder, [PS!Next]_(PS!streamVars)
               PROVE  DeliveredInOrder'
    OBVIOUS
  <2>1. CASE \E n \in 1 .. Len(stream) : PS!SkipPads(n)
    BY <2>1, SkipKeepsOrder
  <2>2. CASE \E n \in 0 .. Len(stream) : PS!DeliverPacket(n)
    BY <2>2, DeliverKeepsOrder
  <2>3. CASE UNCHANGED PS!streamVars
    BY <2>3 DEF PS!streamVars, DeliveredInOrder, Consumed
  <2>4. QED
    BY <2>1, <2>2, <2>3 DEF PS!Next
<1>3. QED
  BY <1>1, <1>2, PTL DEF PS!Safety

(***************************************************************************)
(* PacketStream.tla promises enough: a read path that implements it, its   *)
(* liveness included, in the end has handed over exactly the packets the   *)
(* reference finds in the whole stream.                                    *)
(***************************************************************************)
THEOREM PromiseDelivers == PS!Spec => <>[](delivered = Packets(stream))
<1>1. DeliveredInOrder /\ PS!Exhausted => delivered = Packets(stream)
  <2> SUFFICES ASSUME DeliveredInOrder, PS!Exhausted
               PROVE  delivered = Packets(stream)
    OBVIOUS
  <2>1. /\ stream \in Seq(Byte) /\ Len(stream) \in Nat
        /\ Consumed \in 0 .. Len(stream) /\ delivered \in Packs
        /\ PS!Unread \in Seq(Byte)
        /\ Len(PS!Unread) = Len(stream) - Consumed
        /\ \A i \in 1 .. Len(PS!Unread) : PS!Unread[i] = stream[Consumed + i]
        /\ Packets(stream) = delivered \o PacketsFrom(stream, Consumed)
    BY UnreadProperties DEF DeliveredInOrder
  <2>2. \/ Consumed = Len(stream)
        \/ stream[Consumed + 1] # Pad /\ ReadPacketSize(PS!Unread) = 0
    BY SameFraming DEF PS!Exhausted, Consumed
  <2> HIDE DEF Consumed
  <2>3. PacketsFrom(stream, Consumed) = << >>
    <3>1. CASE Consumed = Len(stream)
      BY <2>1, <3>1, WalkAtEnd
    <3>2. CASE Consumed # Len(stream)
      <4>1. Len(PS!Unread) \in Nat \ {0} /\ 1 \in 1 .. Len(PS!Unread)
        BY <2>1, <3>2
      <4>2. PS!Unread[1] # Pad
        BY <2>1, <2>2, <3>2, <4>1
      <4>3. QED
        BY <2>1, <2>2, <3>2, <4>2, IncompleteWalk
    <3>3. QED
      BY <3>1, <3>2
  <2>4. delivered \o << >> = delivered
    BY <2>1, ConcatEmptySeq DEF Packs
  <2>5. QED
    BY <2>1, <2>3, <2>4
<1>2. QED
  BY <1>1, PromiseIsReference, PTL DEF PS!Spec
=============================================================================
