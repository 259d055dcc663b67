----------------------------- MODULE NciFraming -----------------------------
(***************************************************************************)
(* How src/src/pn54x_io.c cuts the bytes of the pn54x driver into NCI      *)
(* packets.  An NCI packet is a header of HeaderSize octets followed by a  *)
(* payload; the last octet of the header is the payload length.  The       *)
(* driver fills the unused part of a read with 0xff, the largest octet,    *)
(* which therefore separates packets but never starts one.                 *)
(*                                                                         *)
(* The program has HeaderSize = 3 and MaxByte = 255.  Nothing below looks  *)
(* at an octet other than to compare it with the padding or to use it as a *)
(* length, so small values of both exercise every case, including a length *)
(* octet that equals the padding.                                          *)
(***************************************************************************)
EXTENDS Integers, Sequences

CONSTANTS
  HeaderSize,   \* NCI_PACKET_HEADER_SIZE
  MaxByte       \* the largest octet, 0xff

ASSUME FramingAssumption ==
  /\ HeaderSize \in Nat \ {0}
  /\ MaxByte \in Nat

Byte == 0 .. MaxByte
Pad == MaxByte

(* ptr += n; nbytes -= n *)
Drop(buf, n) == SubSeq(buf, n + 1, Len(buf))

(***************************************************************************)
(* The size of the packet at the start of buf, 0 if it is not all there.   *)
(***************************************************************************)
ReadPacketSize(buf) ==
  IF Len(buf) >= HeaderSize /\ buf[HeaderSize] <= Len(buf) - HeaderSize
  THEN HeaderSize + buf[HeaderSize]
  ELSE 0

(***************************************************************************)
(* The loop "while (nbytes > 0 && *ptr == 0xff) { ptr++; nbytes--; }":     *)
(* PadRun counts its iterations, SkipPadding is what it leaves.            *)
(***************************************************************************)
IsPadRun(buf, n) ==
  /\ n \in 0 .. Len(buf)
  /\ \A i \in 1 .. n : buf[i] = Pad
  /\ n < Len(buf) => buf[n + 1] # Pad

PadRun(buf) == CHOOSE n \in 0 .. Len(buf) : IsPadRun(buf, n)

SkipPadding(buf) == Drop(buf, PadRun(buf))

-----------------------------------------------------------------------------
(***************************************************************************)
(* The reference: the complete packets of a whole byte string, found by    *)
(* walking it position by position.  It knows nothing of reads, chunks or  *)
(* buffers.  PacketsAt is one position of the walk, given what From says   *)
(* of the later ones; PacketsFrom is what the walk finds after p octets.   *)
(***************************************************************************)
PacketsAt(bytes, From, i) ==
  IF i > Len(bytes) THEN << >>
  ELSE IF bytes[i] = Pad THEN From[i + 1]
  ELSE IF i + HeaderSize - 1 > Len(bytes) THEN << >>
  ELSE LET next == i + HeaderSize + bytes[i + HeaderSize - 1]
       IN  IF next > Len(bytes) + 1 THEN << >>
           ELSE << SubSeq(bytes, i, next - 1) >> \o From[next]

PacketsFrom(bytes, p) ==
  LET From[i \in 1 .. Len(bytes) + 1] == PacketsAt(bytes, From, i)
  IN  From[p + 1]

Packets(bytes) == PacketsFrom(bytes, 0)
=============================================================================
