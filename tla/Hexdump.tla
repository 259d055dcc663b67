------------------------------ MODULE Hexdump ------------------------------
(***************************************************************************)
(* pn54x_dump_data() and pn54x_hexdump() of src/src/pn54x_io.c: what is    *)
(* read and written goes to the log line by line, and lines of 0xff that   *)
(* repeat the one before are only counted.  One step is one iteration of   *)
(* the loop.  The text of a line is gutil_hexdump()'s business; here it is *)
(* the octets it shows.                                                    *)
(***************************************************************************)
EXTENDS Integers, Sequences, SequencesExt

CONSTANTS
  Octets, Pad,    \* what the octets may be, and the boring one, 0xff
  LineSize,       \* how many octets gutil_hexdump() puts on a line
  MaxLen          \* bound: the length of the data

ASSUME HexdumpAssumption ==
  /\ Pad \in Octets
  /\ LineSize \in Nat \ { 0 }
  /\ MaxLen \in Nat

VARIABLES
  data,           \* what is dumped
  ptr,            \* the octets at ptr, "len" of them
  running,        \* inside pn54x_hexdump()
  empty, emptyLen, skipCount,
  log             \* of this call: records of the octets on a line and of
                  \* whether it is the first, and of how many were skipped

vars == << data, ptr, running, empty, emptyLen, skipCount, log >>

Init ==
  /\ data = << >> /\ ptr = << >> /\ log = << >>
  /\ running = FALSE
  /\ empty = FALSE /\ emptyLen = 0 /\ skipCount = 0

-----------------------------------------------------------------------------
(* pn54x_dump_data(), with the log module enabled for the level or not *)
DumpData(d, enabled) ==
  /\ ~running
  /\ data' = d
  /\ log' = << >>
  /\ running' = enabled
  /\ ptr' = IF enabled THEN d ELSE << >>
  /\ empty' = FALSE /\ emptyLen' = 0 /\ skipCount' = 0

(* gutil_hexdump(): the octets it has put on the line *)
Consumed ==
  SubSeq(ptr, 1, IF Len(ptr) < LineSize THEN Len(ptr) ELSE LineSize)

Boring(line) == \A i \in 1 .. Len(line) : line[i] = Pad

(* A fault: the lengths of the lines are not compared. *)
Repeats_AnyLength(line) == empty /\ Boring(line)

Repeats(line) == empty /\ Boring(line) /\ emptyLen = Len(line)

(* A fault: the length of a boring line is not remembered. *)
Remembers_Nothing(line) ==
  /\ empty' = Boring(line)
  /\ UNCHANGED emptyLen

Remembers(line) ==
  /\ empty' = Boring(line)
  /\ emptyLen' = IF Boring(line) THEN Len(line) ELSE emptyLen

Skipped == IF skipCount = 0 THEN << >> ELSE << [skipped |-> skipCount] >>

SkipLine ==
  /\ running /\ ptr # << >>
  /\ Repeats(Consumed)
  /\ skipCount' = skipCount + 1
  /\ ptr' = SubSeq(ptr, Len(Consumed) + 1, Len(ptr))
  /\ Remembers(Consumed)
  /\ UNCHANGED << data, running, log >>

(* Only the first line has the direction. *)
PrintLine ==
  /\ running /\ ptr # << >>
  /\ ~Repeats(Consumed)
  /\ log' = log \o Skipped
                \o << [octets |-> Consumed, first |-> log = << >>] >>
  /\ skipCount' = 0
  /\ ptr' = SubSeq(ptr, Len(Consumed) + 1, Len(ptr))
  /\ Remembers(Consumed)
  /\ UNCHANGED << data, running >>

(* What is after the loop; nothing is left of the locals. *)
Finish ==
  /\ running /\ ptr = << >>
  /\ log' = log \o Skipped
  /\ running' = FALSE
  /\ empty' = FALSE /\ emptyLen' = 0 /\ skipCount' = 0
  /\ UNCHANGED << data, ptr >>

Next ==
  \/ \E d \in SeqOf(Octets, MaxLen), enabled \in BOOLEAN : DumpData(d, enabled)
  \/ SkipLine \/ PrintLine \/ Finish

Spec == Init /\ [][Next]_vars

-----------------------------------------------------------------------------
(***************************************************************************)
(* What one reads in a log: a count of skipped lines stands for as many    *)
(* repetitions of the line above it.                                       *)
(***************************************************************************)
IsLine(entry) == "octets" \in DOMAIN entry

Repeated(line, n) == FlattenSeq([k \in 1 .. n |-> line])

Reads(l, i) ==
  IF IsLine(l[i]) THEN l[i].octets
                  ELSE Repeated(l[i - 1].octets, l[i].skipped)

Text(l) == FlattenSeq([i \in 1 .. Len(l) |-> Reads(l, i)])

(***************************************************************************)
(* The log tells exactly what was dumped, at any point: a line is skipped  *)
(* only when the reader has just seen the same, as the last, shorter one   *)
(* never is, and a count covers the lines since the one above and no more. *)
(***************************************************************************)
LogIsComplete ==
  /\ running => Text(log \o Skipped) \o ptr = data
  /\ ~running /\ log # << >> => Text(log) = data

(***************************************************************************)
(* "Don't print boring ff's too many times": a boring line is never        *)
(* printed again with nothing but boring lines of its length in between.   *)
(***************************************************************************)
FollowsOn(l, i, j) ==
  /\ i < j
  /\ IsLine(l[i]) /\ IsLine(l[j])
  /\ \A k \in i + 1 .. j - 1 : ~IsLine(l[k])

BoringOnlyOnce ==
  \A i, j \in 1 .. Len(log) :
    FollowsOn(log, i, j) /\ Boring(log[i].octets) =>
      log[i].octets # log[j].octets

(***************************************************************************)
(* What these rest on: a count has a line above it, and inside the loop    *)
(* the locals describe the line that was printed last.                     *)
(***************************************************************************)
LogEntries ==
  [octets : Seq(Octets), first : BOOLEAN] \cup [skipped : Nat \ { 0 }]

HexdumpTypeOK ==
  /\ data \in Seq(Octets) /\ ptr \in Seq(Octets)
  /\ log \in Seq(LogEntries)
  /\ running \in BOOLEAN /\ empty \in BOOLEAN
  /\ emptyLen \in Nat /\ skipCount \in Nat

EndsInLine(l) == l # << >> /\ IsLine(l[Len(l)])

CountsBelowLines(l) ==
  \A i \in 1 .. Len(l) : IsLine(l[i]) \/ (i > 1 /\ IsLine(l[i - 1]))

LocalsDescribeLastLine ==
  /\ running /\ log # << >> =>
       /\ EndsInLine(log)
       /\ empty <=> Boring(log[Len(log)].octets)
       /\ empty => emptyLen = Len(log[Len(log)].octets)
  /\ running /\ log = << >> => ~empty
  /\ skipCount > 0 => running /\ empty

HexdumpInv ==
  /\ HexdumpTypeOK
  /\ CountsBelowLines(log)
  /\ LocalsDescribeLastLine
  /\ LogIsComplete
  /\ BoringOnlyOnce
=============================================================================
