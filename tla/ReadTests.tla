----------------------------- MODULE ReadTests -----------------------------
(***************************************************************************)
(* ReadPath with the program's own header, octets and read size, on the    *)
(* bytes of the read tests of src/unit/pn54x_io/test_pn54x_io.c.  The      *)
(* tests cut each stream in one way; here it is cut in every way.          *)
(***************************************************************************)
EXTENDS ReadPath

Padding(n) == [i \in 1 .. n |-> Pad]

(* test_read_in_basic, test_read_out_basic *)
Basic ==
  [ in  |-> << 96, 8, 2, 5, 5 >> \o Padding(27),
    out |-> << << 96, 8, 2, 5, 5 >> >> ]

(* test_read_in_split, test_read_out_split *)
Split ==
  [ in  |-> Padding(14) \o << 96, 8, 2, 178, 0 >> \o Padding(7),
    out |-> << << 96, 8, 2, 178, 0 >> >> ]

(* test_read_in_combined, test_read_out_combined *)
Combined ==
  [ in  |-> << 96, 8, 2, 178, 0 >> \o Padding(3)
              \o << 97, 6, 2, 3, 0 >> \o Padding(5),
    out |-> << << 96, 8, 2, 178, 0 >>, << 97, 6, 2, 3, 0 >> >> ]

ReadTests == { Basic, Split, Combined }

TestStreams == { test.in : test \in ReadTests }

(***************************************************************************)
(* Each read test has the outcome it asserts, wherever the driver, the     *)
(* reader process and the pipe cut its bytes: the expected packets and no  *)
(* others (the assertion on test.nout, test_pn54x_io.c:254).               *)
(***************************************************************************)
TestOutcomes ==
  received = Len(stream) /\ phase = "idle" =>
    \E test \in ReadTests : stream = test.in /\ delivered = test.out
=============================================================================
