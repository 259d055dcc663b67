----------------------------- MODULE ReadHandle -----------------------------
(***************************************************************************)
(* pn54x_io_read_handle() of src/src/pn54x_io.c, the packet reassembly:    *)
(* one call per chunk of bytes read from the pipe, one client->fn->read()  *)
(* per complete packet, the incomplete tail kept in self->read_buf.        *)
(*                                                                         *)
(* The call is split where control leaves it: HandleEnter runs up to the   *)
(* packet loop, HandleDeliver is one iteration (and leaves the client's    *)
(* callback on the stack), HandleReturn is the code after the loop.  A     *)
(* module that composes this one interleaves what the client does inside   *)
(* its callback, in phase "client".                                        *)
(***************************************************************************)
EXTENDS NciFraming

VARIABLES
  readBuf,     \* self->read_buf
  rest,        \* the nbytes bytes at ptr, while the handler is on the stack
  phase,       \* where the handler is: see Phases
  delivered    \* history: the packets handed to client->fn->read()

handleVars == << readBuf, rest, phase, delivered >>

(* not running; in the loop; inside client->fn->read() *)
Phases == { "idle", "loop", "client" }

HandleTypeOK ==
  /\ readBuf \in Seq(Byte)
  /\ rest \in Seq(Byte)
  /\ phase \in Phases
  /\ delivered \in Seq(Seq(Byte))

HandleInit ==
  /\ readBuf = << >>
  /\ rest = << >>
  /\ phase = "idle"
  /\ delivered = << >>

(* A fault: leading padding is skipped also in the middle of a packet. *)
HandleEnter_AlwaysSkips(chunk) ==
  /\ phase = "idle"
  /\ phase' = "loop"
  /\ IF readBuf # << >>
     THEN /\ readBuf' = readBuf \o SkipPadding(chunk)
          /\ rest' = readBuf \o SkipPadding(chunk)
     ELSE /\ rest' = SkipPadding(chunk)
          /\ UNCHANGED readBuf
  /\ UNCHANGED delivered

(***************************************************************************)
(* With something left from the previous read the chunk is appended to it  *)
(* and the whole is parsed; otherwise the chunk is parsed where it is,     *)
(* from its first octet that is not padding.                               *)
(***************************************************************************)
HandleEnter(chunk) ==
  /\ phase = "idle"
  /\ phase' = "loop"
  /\ IF readBuf # << >>
     THEN /\ readBuf' = readBuf \o chunk
          /\ rest' = readBuf \o chunk
     ELSE /\ rest' = SkipPadding(chunk)
          /\ UNCHANGED readBuf
  /\ UNCHANGED delivered

(* A fault: the padding after a packet stays. *)
HandleDeliver_KeepsPadding ==
  LET pktsiz == ReadPacketSize(rest)
  IN  /\ phase # "idle"
      /\ pktsiz > 0
      /\ delivered' = Append(delivered, SubSeq(rest, 1, pktsiz))
      /\ rest' = Drop(rest, pktsiz)
      /\ phase' = "client"
      /\ UNCHANGED readBuf

(* One complete packet goes to the client, then padding is skipped. *)
HandleDeliver ==
  LET pktsiz == ReadPacketSize(rest)
  IN  /\ phase # "idle"
      /\ pktsiz > 0
      /\ delivered' = Append(delivered, SubSeq(rest, 1, pktsiz))
      /\ rest' = SkipPadding(Drop(rest, pktsiz))
      /\ phase' = "client"
      /\ UNCHANGED readBuf

(* A fault: the tail of a chunk is not saved. *)
Residue_TailLost ==
  IF rest # << >> /\ readBuf # << >>
  THEN Drop(readBuf, Len(readBuf) - Len(rest))
  ELSE << >>

(* A fault: what was consumed is not erased. *)
Residue_NothingErased ==
  IF rest = << >> THEN << >> ELSE IF readBuf # << >> THEN readBuf ELSE rest

(***************************************************************************)
(* What stays in read_buf: nothing, or read_buf without what was consumed  *)
(* of it, or the unused tail of the chunk.  The code looks at read_buf->len*)
(* again, which the client may have changed since HandleEnter.             *)
(***************************************************************************)
Residue ==
  IF rest = << >> THEN << >>
  ELSE IF readBuf # << >> THEN Drop(readBuf, Len(readBuf) - Len(rest))
  ELSE rest

(* A fault: "if" for "while", one packet per read. *)
HandleReturn_AfterOne ==
  /\ phase # "idle"
  /\ phase = "loop" => ReadPacketSize(rest) = 0
  /\ readBuf' = Residue
  /\ rest' = << >>
  /\ phase' = "idle"
  /\ UNCHANGED delivered

(* The code after the packet loop *)
HandleReturn ==
  /\ phase # "idle"
  /\ ReadPacketSize(rest) = 0
  /\ readBuf' = Residue
  /\ rest' = << >>
  /\ phase' = "idle"
  /\ UNCHANGED delivered

(* The bytes received and not yet consumed. *)
Pending == IF phase = "idle" THEN readBuf ELSE rest

(***************************************************************************)
(* Between two reads read_buf is a packet that has begun and is not        *)
(* complete: it does not start with padding, it holds no whole packet, and *)
(* so it stays shorter than the longest packet (258 octets in the program):*)
(* no sequence of short reads makes read_buf grow without bound or leaves  *)
(* a finished packet waiting for the next byte.                            *)
(***************************************************************************)
ResidueIncomplete ==
  phase = "idle" =>
    /\ readBuf # << >> => readBuf[1] # Pad
    /\ ReadPacketSize(readBuf) = 0
    /\ Len(readBuf) < HeaderSize + MaxByte

(***************************************************************************)
(* What every step of the handler keeps and relies on: while it runs on    *)
(* read_buf, rest is the tail of read_buf, so that what HandleReturn erases*)
(* is what was consumed; what is pending never begins with padding; and no *)
(* whole packet is kept for the next read.                                 *)
(***************************************************************************)
RestIsTailOfReadBuf ==
  phase # "idle" /\ readBuf # << >> =>
    /\ Len(rest) <= Len(readBuf)
    /\ \A i \in 1 .. Len(rest) :
         rest[i] = readBuf[Len(readBuf) - Len(rest) + i]

NoPadAhead == Pending # << >> => Pending[1] # Pad

NoWholePacketKept == phase = "idle" => ReadPacketSize(readBuf) = 0

HandleInv ==
  HandleTypeOK /\ RestIsTailOfReadBuf /\ NoPadAhead /\ NoWholePacketKept
=============================================================================
