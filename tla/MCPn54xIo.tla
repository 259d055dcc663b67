----------------------------- MODULE MCPn54xIo -----------------------------
(* Pn54xIo with a header of one octet: << 0 >> and << 1, x >> are packets. *)
EXTENDS Pn54xIo

CONSTANT MaxStream     \* the length of what the driver returns to a reader

(***************************************************************************)
(* Every byte string of that length that begins with a packet of two       *)
(* octets, which a read can split: what follows may be packets, padding,   *)
(* or a packet whose last octet never comes.                               *)
(***************************************************************************)
SmallStreams == { s \in [1 .. MaxStream -> Byte] : s[1] = 1 }

AllReentrantOps == { "start", "write", "cancel_write", "set_power" }
=============================================================================
