----------------------------- MODULE MCReadPath -----------------------------
(* ReadPath on every byte string up to a length. *)
EXTENDS ReadPath

CONSTANT MaxStream     \* the longest stream

AllStreams == UNION { [1 .. n -> Byte] : n \in 0 .. MaxStream }
=============================================================================
