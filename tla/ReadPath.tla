------------------------------ MODULE ReadPath ------------------------------
(***************************************************************************)
(* The reassembly of ReadHandle.tla fed with a byte stream that the driver,*)
(* the reader process and the pipe cut at arbitrary places: each           *)
(* g_io_channel_read_chars() returns between 1 and MaxRead of the bytes    *)
(* that come next.  The reader lives for the whole behaviour here; starting*)
(* and stopping it is the business of Pn54xIo.tla.                         *)
(***************************************************************************)
EXTENDS ReadHandle

CONSTANTS
  Streams,     \* the byte streams considered
  MaxRead      \* PN54X_MAX_PACKET_SIZE, the size of read_tmp_buf

ASSUME ReadPathAssumption ==
  /\ Streams \subseteq Seq(Byte)
  /\ MaxRead \in Nat \ {0}

VARIABLES
  stream,      \* what the chip sends
  received     \* how many bytes of it have been read from the pipe

vars == << stream, received, handleVars >>

TypeOK ==
  /\ stream \in Streams
  /\ received \in 0 .. Len(stream)
  /\ HandleTypeOK

Init ==
  /\ stream \in Streams
  /\ received = 0
  /\ HandleInit

(* A fault: the size of the buffer is taken for the number of bytes read. *)
Read_WholeBuffer(n) ==
  /\ received + n <= Len(stream)
  /\ HandleEnter(SubSeq(stream, received + 1, received + n))
  /\ received' = received + MaxRead
  /\ UNCHANGED stream

(***************************************************************************)
(* pn54x_io_read_callback(), condition G_IO_IN: n bytes are read into      *)
(* read_tmp_buf and handled.                                               *)
(***************************************************************************)
Read(n) ==
  /\ received + n <= Len(stream)
  /\ HandleEnter(SubSeq(stream, received + 1, received + n))
  /\ received' = received + n
  /\ UNCHANGED stream

ReadSome == \E n \in 1 .. MaxRead : Read(n)

Deliver == HandleDeliver /\ UNCHANGED << stream, received >>

Return == HandleReturn /\ UNCHANGED << stream, received >>

Next == ReadSome \/ Deliver \/ Return

Safety == Init /\ [][Next]_vars

(***************************************************************************)
(* The watch is dispatched as long as there are bytes, and a call that has *)
(* been entered runs to its end: it is a loop in a single thread.          *)
(***************************************************************************)
Spec ==
  /\ Safety
  /\ WF_vars(ReadSome)
  /\ WF_vars(Deliver)
  /\ WF_vars(Return)

-----------------------------------------------------------------------------
(***************************************************************************)
(* No byte of a packet is lost, repeated or moved by any cut into reads:   *)
(* what is pending is always exactly the last bytes received.              *)
(***************************************************************************)
PendingIsTail ==
  /\ Len(Pending) <= received
  /\ Pending = SubSeq(stream, received - Len(Pending) + 1, received)

(***************************************************************************)
(* The inductive invariant behind the properties of this module: the       *)
(* handler's own (see ReadHandle.tla), and where the pending bytes are in  *)
(* the stream.                                                             *)
(***************************************************************************)
PendingFollowsStream ==
  /\ Len(Pending) <= received
  /\ \A i \in 1 .. Len(Pending) :
       Pending[i] = stream[received - Len(Pending) + i]

ReadPathInv ==
  /\ TypeOK
  /\ HandleInv
  /\ PendingFollowsStream

(***************************************************************************)
(* What the next property needs besides: on every part of the stream that  *)
(* holds at least the bytes received, the reference finds the packets      *)
(* delivered and then those that come after the bytes consumed.            *)
(***************************************************************************)
DeliveredThenRest ==
  \A q \in received .. Len(stream) :
    LET bytes == SubSeq(stream, 1, q)
    IN  Packets(bytes) =
          delivered \o PacketsFrom(bytes, received - Len(Pending))

(***************************************************************************)
(* However the stream is cut, after each read the client has been given    *)
(* exactly the packets the reference finds in the bytes received so far.   *)
(***************************************************************************)
DeliveredIsReference ==
  phase = "idle" => delivered = Packets(SubSeq(stream, 1, received))

(* Every byte is read and every complete packet reaches the client. *)
AllPacketsDelivered ==
  <>[](phase = "idle" /\ delivered = Packets(stream))

(***************************************************************************)
(* The read path implements the promise of PacketStream.tla: a byte is     *)
(* consumed once it is received and no longer pending.                     *)
(***************************************************************************)
PS == INSTANCE PacketStream WITH pos <- received - Len(Pending)

ImplementsPacketStream == PS!Spec
=============================================================================
