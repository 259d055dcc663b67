---------------------------- MODULE PacketStream ----------------------------
(***************************************************************************)
(* What the read path promises its client, and all it promises: the bytes  *)
(* of the driver are one stream; the client is handed the packets of that  *)
(* stream, each once, whole and in order; padding between packets is       *)
(* dropped; and every packet that is complete in the stream is handed over *)
(* sooner or later.  How the stream is cut into reads does not show.       *)
(***************************************************************************)
EXTENDS NciFraming

CONSTANT Streams       \* the byte streams considered

VARIABLES
  stream,      \* everything the driver will ever return
  pos,         \* how many of its bytes have been consumed
  delivered    \* the packets handed to the client

streamVars == << stream, pos, delivered >>

Unread == Drop(stream, pos)

Init ==
  /\ stream \in Streams
  /\ pos = 0
  /\ delivered = << >>

(* n octets of padding, starting at octet pos + skip + 1 *)
PadsAt(skip, n) ==
  /\ n \in 0 .. Len(stream) - pos - skip
  /\ \A i \in 1 .. n : stream[pos + skip + i] = Pad

SkipPads(n) ==
  /\ n > 0
  /\ PadsAt(0, n)
  /\ pos' = pos + n
  /\ UNCHANGED << stream, delivered >>

(* The next packet of the stream, and the padding after it up to n octets *)
DeliverPacket(n) ==
  LET size == ReadPacketSize(Unread)
  IN  /\ pos < Len(stream)
      /\ stream[pos + 1] # Pad
      /\ size > 0
      /\ PadsAt(size, n)
      /\ delivered' = Append(delivered, SubSeq(stream, pos + 1, pos + size))
      /\ pos' = pos + size + n
      /\ UNCHANGED stream

Next ==
  \/ \E n \in 1 .. Len(stream) : SkipPads(n)
  \/ \E n \in 0 .. Len(stream) : DeliverPacket(n)

Safety == Init /\ [][Next]_streamVars

(***************************************************************************)
(* Nothing is left to hand over: the stream is used up, or what remains is *)
(* the beginning of a packet that never gets its last byte.                *)
(***************************************************************************)
Exhausted ==
  \/ pos = Len(stream)
  \/ stream[pos + 1] # Pad /\ ReadPacketSize(Unread) = 0

Spec == Safety /\ <>[]Exhausted
=============================================================================
