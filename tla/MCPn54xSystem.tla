--------------------------- MODULE MCPn54xSystem ---------------------------
(* Pn54xSystem with a header of one octet: << 0 >> is a packet. *)
EXTENDS Pn54xSystem

(* What a reader gets: two packets, in one read or in two. *)
TwoPackets == { << 0, 0 >> }

AllReentrantOps == { "start", "write", "cancel_write", "set_power" }
=============================================================================
