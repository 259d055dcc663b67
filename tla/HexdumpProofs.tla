--------------------------- MODULE HexdumpProofs ---------------------------
(***************************************************************************)
(* Proofs about Hexdump.tla, for every length of a line and for data of    *)
(* any length: the log tells exactly what was dumped, and no boring line   *)
(* is printed twice in a row.  The reading of a log is a recursive         *)
(* function; what it does with one entry more is shown first.              *)
(***************************************************************************)
EXTENDS Hexdump, SequenceTheorems, WellFoundedInduction, TLAPS

Strings == Seq(Octets)

(* A set that holds 0 and the successor of each of its members holds every *)
(* natural number.                                                         *)
LEMMA Induction ==
  ASSUME NEW S, 0 \in S, \A n \in Nat : n \in S => n + 1 \in S
  PROVE  \A n \in Nat : n \in S
<1> DEFINE Missing == Nat \ S
<1>1. SUFFICES ASSUME Missing # {}
               PROVE  FALSE
  OBVIOUS
<1>2. PICK m \in Missing : \A k \in Missing : << k, m >> \notin OpToRel(<, Nat)
  <2>1. Missing \subseteq Nat
    OBVIOUS
  <2> HIDE DEF Missing
  <2>2. QED
    BY <1>1, <2>1, NatLessThanWellFounded, WFMin
<1>3. \A k \in Missing : ~ (k < m)
  <2>1. \A k, l \in Nat : k < l => << k, l >> \in OpToRel(<, Nat)
    BY DEF OpToRel
  <2>2. QED
    BY <1>2, <2>1
<1>4. m \in Nat \ {0}
  OBVIOUS
<1>5. m - 1 \in Nat /\ m - 1 < m /\ (m - 1) + 1 = m
  BY <1>4
<1>6. m - 1 \in S
  BY <1>3, <1>5
<1>7. QED
  BY <1>5, <1>6

-----------------------------------------------------------------------------
(* The function FlattenSeq() builds, as a predicate and as its choice.     *)
JoinAt(s, f, i) == IF i = 1 THEN s[i] ELSE f[i - 1] \o s[i]

IsJoin(s, f) == f = [i \in 1 .. Len(s) |-> JoinAt(s, f, i)]

Join(s) == CHOOSE f : IsJoin(s, f)

LEMMA FlattenIsJoin ==
  ASSUME NEW s
  PROVE  FlattenSeq(s) = IF Len(s) = 0 THEN s ELSE Join(s)[Len(s)]
BY Zenon DEF FlattenSeq, Join, IsJoin, JoinAt

(* Joining two sequences that begin alike begins alike. *)
LEMMA JoinsAgree ==
  ASSUME NEW s \in Seq(Strings), NEW t \in Seq(Strings), NEW f, NEW g,
         IsJoin(s, f), IsJoin(t, g),
         NEW n \in Nat, n <= Len(s), n <= Len(t),
         \A i \in 1 .. n : s[i] = t[i]
  PROVE  \A i \in 1 .. n : f[i] = g[i]
<1> DEFINE S == { k \in Nat : k \in 1 .. n => f[k] = g[k] }
<1>0. Len(s) \in Nat /\ Len(t) \in Nat
  BY LenProperties
<1>1. \A i \in 1 .. n : f[i] = JoinAt(s, f, i) /\ g[i] = JoinAt(t, g, i)
  <2>1. \A i \in 1 .. n : i \in 1 .. Len(s) /\ i \in 1 .. Len(t)
    BY <1>0
  <2>2. QED
    BY <2>1 DEF IsJoin
<1>2. 0 \in S
  OBVIOUS
<1>3. ASSUME NEW k \in Nat, k \in S
      PROVE  k + 1 \in S
  <2> SUFFICES ASSUME k + 1 \in 1 .. n
               PROVE  f[k + 1] = g[k + 1]
    OBVIOUS
  <2>1. CASE k = 0
    <3>1. k + 1 = 1
      BY <2>1
    <3>2. QED
      BY <1>1, <3>1 DEF JoinAt
  <2>2. CASE k # 0
    <3>1. k \in 1 .. n /\ k + 1 # 1 /\ (k + 1) - 1 = k
      BY <2>2
    <3>2. f[k] = g[k]
      BY <1>3, <3>1
    <3>3. QED
      BY <1>1, <3>1, <3>2 DEF JoinAt
  <2>3. QED
    BY <2>1, <2>2
<1>4. \A k \in Nat : k \in S
  <2> HIDE DEF S
  <2> QED BY <1>2, <1>3, Induction
<1>5. QED
  BY <1>4

LEMMA ConcatStrings ==
  ASSUME NEW a \in Strings, NEW b \in Strings
  PROVE  a \o b \in Strings
BY ConcatProperties DEF Strings

LEMMA Associative ==
  \A a, b, c \in Strings : (a \o b) \o c = a \o (b \o c)
BY ConcatAssociative DEF Strings

(* There is such a function, of strings. *)
LEMMA JoinExists ==
  ASSUME NEW s \in Seq(Strings)
  PROVE  \E f \in [1 .. Len(s) -> Strings] : IsJoin(s, f)
<1> DEFINE N == Len(s)
           Built(k, f) == \A i \in 1 .. k : f[i] = JoinAt(s, f, i)
           S == { k \in Nat : k <= N =>
                    \E f \in [1 .. k -> Strings] : Built(k, f) }
<1>0. N \in Nat /\ \A i \in 1 .. N : s[i] \in Strings
  BY LenProperties, ElementOfSeq
<1>1. 0 \in S
  <2> DEFINE f == [i \in 1 .. 0 |-> << >>]
  <2>1. f \in [1 .. 0 -> Strings] /\ Built(0, f)
    OBVIOUS
  <2>2. QED
    BY <2>1
<1>2. ASSUME NEW k \in Nat, k \in S
      PROVE  k + 1 \in S
  <2> SUFFICES ASSUME k + 1 <= N
               PROVE  \E g \in [1 .. k + 1 -> Strings] : Built(k + 1, g)
    OBVIOUS
  <2>1. PICK f \in [1 .. k -> Strings] : Built(k, f)
    BY <1>0, <1>2
  <2> DEFINE g == [i \in 1 .. k + 1 |->
                     IF i = k + 1 THEN JoinAt(s, f, k + 1) ELSE f[i]]
  <2>2. /\ k + 1 \in 1 .. k + 1 /\ k + 1 \in 1 .. N
        /\ \A i \in 1 .. k : i \in 1 .. k + 1 /\ i # k + 1
        /\ \A i \in 1 .. k + 1 : i = k + 1 \/ i \in 1 .. k
        /\ \A i \in 1 .. k + 1 : i # 1 => i - 1 \in 1 .. k
    BY <1>0
  <2>3. JoinAt(s, f, k + 1) \in Strings
    <3>1. CASE k + 1 = 1
      BY <1>0, <2>2, <3>1 DEF JoinAt
    <3>2. CASE k + 1 # 1
      <4>1. f[(k + 1) - 1] \in Strings
        BY <2>1, <2>2, <3>2
      <4>2. QED
        BY <1>0, <2>2, <3>2, <4>1, ConcatStrings DEF JoinAt
    <3>3. QED
      BY <3>1, <3>2
  <2>4. g \in [1 .. k + 1 -> Strings]
    BY <2>1, <2>2, <2>3
  <2>5. /\ g[k + 1] = JoinAt(s, f, k + 1)
        /\ \A i \in 1 .. k : g[i] = f[i]
    BY <2>2
  <2> HIDE DEF g
  <2>6. ASSUME NEW i \in 1 .. k + 1
        PROVE  g[i] = JoinAt(s, g, i)
    <3>1. JoinAt(s, f, i) = JoinAt(s, g, i)
      BY <2>2, <2>5 DEF JoinAt
    <3>2. QED
      BY <2>1, <2>2, <2>5, <3>1
  <2>7. QED
    BY <2>4, <2>6
<1>3. N \in S
  <2> HIDE DEF S
  <2> QED BY <1>0, <1>1, <1>2, Induction
<1>4. PICK f \in [1 .. N -> Strings] : Built(N, f)
  BY <1>0, <1>3
<1>5. IsJoin(s, f)
  BY <1>4 DEF IsJoin
<1>6. QED
  BY <1>4, <1>5

(* Flattening gives a string. *)
LEMMA FlattenTyped ==
  ASSUME NEW s \in Seq(Strings)
  PROVE  FlattenSeq(s) \in Strings
<1>1. Len(s) \in Nat
  BY LenProperties
<1>2. CASE Len(s) = 0
  <2>1. s = << >>
    BY <1>2, EmptySeq
  <2>2. s \in Strings
    BY <2>1, EmptySeq DEF Strings
  <2>3. QED
    BY <1>2, <2>2, FlattenIsJoin
<1>3. CASE Len(s) # 0
  <2>1. PICK f \in [1 .. Len(s) -> Strings] : IsJoin(s, f)
    BY JoinExists
  <2>2. IsJoin(s, Join(s))
    BY <2>1 DEF Join
  <2>3. Len(s) \in 1 .. Len(s)
    BY <1>1, <1>3
  <2>4. Join(s)[Len(s)] = f[Len(s)]
    BY <1>1, <2>1, <2>2, <2>3, JoinsAgree
  <2>5. QED
    BY <1>3, <2>1, <2>3, <2>4, FlattenIsJoin
<1>4. QED
  BY <1>2, <1>3

LEMMA FlattenEmpty == FlattenSeq(<< >>) = << >>
<1>1. Len(<< >>) = 0
  BY EmptySeq
<1>2. QED
  BY <1>1, FlattenIsJoin

(* Flattening one string more puts it at the end. *)
LEMMA FlattenLonger ==
  ASSUME NEW s \in Seq(Strings), NEW t \in Seq(Strings),
         Len(t) = Len(s) + 1, \A i \in 1 .. Len(s) : t[i] = s[i]
  PROVE  FlattenSeq(t) = FlattenSeq(s) \o t[Len(t)]
<1>0. Len(s) \in Nat /\ Len(t) \in 1 .. Len(t) /\ Len(t) # 0
  BY LenProperties
<1>1. IsJoin(t, Join(t))
  BY JoinExists DEF Join
<1>2. Join(t)[Len(t)] = JoinAt(t, Join(t), Len(t))
  BY <1>0, <1>1 DEF IsJoin
<1>3. FlattenSeq(t) = Join(t)[Len(t)]
  BY <1>0, FlattenIsJoin
<1>4. CASE Len(s) = 0
  <2>1. s = << >> /\ Len(t) = 1
    BY <1>4, EmptySeq
  <2>2. FlattenSeq(t) = t[Len(t)]
    BY <1>2, <1>3, <2>1 DEF JoinAt
  <2>3. t[Len(t)] \in Strings
    BY <1>0, ElementOfSeq
  <2>4. << >> \o t[Len(t)] = t[Len(t)]
    BY <2>3, ConcatEmptySeq DEF Strings
  <2>5. QED
    BY <2>1, <2>2, <2>4, FlattenEmpty
<1>5. CASE Len(s) # 0
  <2>1. Len(t) # 1 /\ Len(t) - 1 = Len(s) /\ Len(s) \in 1 .. Len(s)
        /\ Len(s) <= Len(t)
    BY <1>0, <1>5
  <2>2. IsJoin(s, Join(s))
    BY JoinExists DEF Join
  <2>3. Join(t)[Len(s)] = Join(s)[Len(s)]
    BY <1>0, <1>1, <2>1, <2>2, JoinsAgree
  <2>4. FlattenSeq(s) = Join(s)[Len(s)]
    BY <1>5, FlattenIsJoin
  <2>5. QED
    BY <1>2, <1>3, <2>1, <2>3, <2>4 DEF JoinAt
<1>6. QED
  BY <1>4, <1>5

-----------------------------------------------------------------------------
(* A function on 1 .. n is a sequence of length n. *)
LEMMA FunctionIsSeq ==
  ASSUME NEW T, NEW n \in Nat, NEW f \in [1 .. n -> T]
  PROVE  f \in Seq(T) /\ Len(f) = n
BY SeqDef

(* A count one larger reads one line longer. *)
LEMMA RepeatedProperties ==
  ASSUME NEW line \in Strings, NEW n \in Nat
  PROVE  /\ Repeated(line, n) \in Strings
         /\ Repeated(line, 0) = << >>
         /\ Repeated(line, n + 1) = Repeated(line, n) \o line
<1> DEFINE r(m) == [k \in 1 .. m |-> line]
<1>1. /\ r(n) \in [1 .. n -> Strings] /\ r(n + 1) \in [1 .. n + 1 -> Strings]
      /\ r(0) \in [1 .. 0 -> Strings]
  OBVIOUS
<1>2. /\ r(n) \in Seq(Strings) /\ Len(r(n)) = n
      /\ r(n + 1) \in Seq(Strings) /\ Len(r(n + 1)) = n + 1
      /\ r(0) \in Seq(Strings) /\ Len(r(0)) = 0
  <2> HIDE DEF r
  <2> QED BY <1>1, FunctionIsSeq
<1>3. /\ r(n + 1)[n + 1] = line
      /\ \A i \in 1 .. n : r(n + 1)[i] = r(n)[i]
  OBVIOUS
<1> HIDE DEF r
<1>4. Repeated(line, n) \in Strings
  BY <1>2, FlattenTyped DEF Repeated, r
<1>5. r(0) = << >>
  BY <1>2, EmptySeq
<1>6. Repeated(line, 0) = << >>
  BY <1>5, FlattenEmpty DEF Repeated, r
<1>7. FlattenSeq(r(n + 1)) = FlattenSeq(r(n)) \o line
  BY <1>2, <1>3, FlattenLonger
<1>8. QED
  BY <1>4, <1>6, <1>7 DEF Repeated, r

(* An entry of the log is a line or a count. *)
LEMMA EntryShapes ==
  ASSUME NEW e \in LogEntries
  PROVE  /\ IsLine(e) => e.octets \in Strings
         /\ ~IsLine(e) => e.skipped \in Nat \ {0}
BY DEF LogEntries, IsLine, Strings

LEMMA ReadsTyped ==
  ASSUME NEW l \in Seq(LogEntries), CountsBelowLines(l), NEW i \in 1 .. Len(l)
  PROVE  Reads(l, i) \in Strings
<1>0. Len(l) \in Nat /\ l[i] \in LogEntries
  BY LenProperties, ElementOfSeq
<1>1. CASE IsLine(l[i])
  BY <1>0, <1>1, EntryShapes DEF Reads
<1>2. CASE ~IsLine(l[i])
  <2>1. i - 1 \in 1 .. Len(l) /\ IsLine(l[i - 1])
    BY <1>0, <1>2 DEF CountsBelowLines
  <2>2. l[i - 1].octets \in Strings
    BY <2>1, ElementOfSeq, EntryShapes
  <2>3. QED
    BY <1>0, <1>2, <2>2, EntryShapes, RepeatedProperties DEF Reads
<1>3. QED
  BY <1>1, <1>2

(* A line or a count more is read after what was read before. *)
LEMMA TextLonger ==
  ASSUME NEW l \in Seq(LogEntries), CountsBelowLines(l),
         NEW e \in LogEntries, IsLine(e) \/ EndsInLine(l)
  PROVE  /\ Append(l, e) \in Seq(LogEntries)
         /\ CountsBelowLines(Append(l, e))
         /\ Text(l) \in Strings /\ Text(Append(l, e)) \in Strings
         /\ Text(Append(l, e)) =
              Text(l) \o (IF IsLine(e) THEN e.octets
                          ELSE Repeated(l[Len(l)].octets, e.skipped))
<1> DEFINE m == Append(l, e)
           n == Len(l)
           r == [i \in 1 .. n |-> Reads(l, i)]
           q == [i \in 1 .. n + 1 |-> Reads(m, i)]
<1>1. /\ n \in Nat /\ m \in Seq(LogEntries) /\ Len(m) = n + 1
      /\ m[n + 1] = e /\ \A i \in 1 .. n : m[i] = l[i]
  <2> HIDE DEF LogEntries
  <2> QED BY LenProperties, AppendProperties
<1> HIDE DEF m
<1>2. CountsBelowLines(m)
  <2> SUFFICES ASSUME NEW i \in 1 .. n + 1, ~IsLine(m[i])
               PROVE  i > 1 /\ IsLine(m[i - 1])
    BY <1>1 DEF CountsBelowLines
  <2>1. CASE i = n + 1
    <3>1. n # 0 /\ IsLine(l[n])
      <4>1. EndsInLine(l)
        BY <1>1, <2>1
      <4>2. QED
        BY <4>1, EmptySeq DEF EndsInLine
    <3>2. n \in 1 .. n /\ i - 1 = n /\ i > 1
      BY <1>1, <2>1, <3>1
    <3>3. QED
      BY <1>1, <3>1, <3>2
  <2>2. CASE i # n + 1
    <3>1. i \in 1 .. n
      BY <1>1, <2>2
    <3>2. i > 1 /\ IsLine(l[i - 1])
      BY <1>1, <3>1 DEF CountsBelowLines
    <3>3. i - 1 \in 1 .. n
      BY <1>1, <3>1, <3>2
    <3>4. QED
      BY <1>1, <3>2, <3>3
  <2>3. QED
    BY <2>1, <2>2
<1>3. \A i \in 1 .. n : Reads(m, i) = Reads(l, i)
  <2> SUFFICES ASSUME NEW i \in 1 .. n
               PROVE  Reads(m, i) = Reads(l, i)
    OBVIOUS
  <2>1. CASE IsLine(l[i])
    BY <1>1, <2>1 DEF Reads
  <2>2. CASE ~IsLine(l[i])
    <3>1. i - 1 \in 1 .. n
      BY <1>1, <2>2 DEF CountsBelowLines
    <3>2. QED
      BY <1>1, <3>1 DEF Reads
  <2>3. QED
    BY <2>1, <2>2
<1>4. r \in [1 .. n -> Strings] /\ q \in [1 .. n + 1 -> Strings]
  BY <1>1, <1>2, ReadsTyped
<1>5. /\ r \in Seq(Strings) /\ Len(r) = n
      /\ q \in Seq(Strings) /\ Len(q) = n + 1
  <2>1. n + 1 \in Nat
    BY <1>1
  <2> HIDE DEF r, q
  <2> QED BY <1>1, <1>4, <2>1, FunctionIsSeq
<1>6. q[n + 1] = Reads(m, n + 1) /\ \A i \in 1 .. n : q[i] = r[i]
  BY <1>1, <1>3
<1>7. Text(l) = FlattenSeq(r) /\ Text(m) = FlattenSeq(q)
  BY <1>1 DEF Text
<1> HIDE DEF r, q
<1>8. Text(m) = Text(l) \o Reads(m, n + 1)
  BY <1>5, <1>6, <1>7, FlattenLonger
<1>9. Text(l) \in Strings /\ Text(m) \in Strings
  BY <1>5, <1>7, FlattenTyped
<1>10. Reads(m, n + 1) = IF IsLine(e) THEN e.octets
                         ELSE Repeated(l[n].octets, e.skipped)
  <2>1. CASE IsLine(e)
    BY <1>1, <2>1 DEF Reads
  <2>2. CASE ~IsLine(e)
    <3>1. n # 0
      BY <2>2, EmptySeq DEF EndsInLine
    <3>2. (n + 1) - 1 = n /\ n \in 1 .. n
      BY <1>1, <3>1
    <3>3. QED
      BY <1>1, <2>2, <3>2 DEF Reads
  <2>3. QED
    BY <2>1, <2>2
<1>11. QED
  BY <1>1, <1>2, <1>8, <1>9, <1>10 DEF m

LEMMA TextTyped ==
  ASSUME NEW l \in Seq(LogEntries), CountsBelowLines(l)
  PROVE  Text(l) \in Strings
<1> DEFINE e == [octets |-> << >>, first |-> TRUE]
<1>1. e \in LogEntries /\ IsLine(e)
  BY EmptySeq DEF LogEntries, IsLine
<1> HIDE DEF e
<1>2. QED
  BY <1>1, TextLonger

LEMMA TextEmpty == Text(<< >>) = << >>
<1> DEFINE r == [i \in 1 .. 0 |-> Reads(<< >>, i)]
<1>1. r \in [1 .. 0 -> Strings]
  OBVIOUS
<1>2. Text(<< >>) = FlattenSeq(r)
  <2>1. Len(<< >>) = 0
    BY EmptySeq
  <2>2. QED
    BY <2>1 DEF Text
<1> HIDE DEF r
<1>3. r = << >>
  BY <1>1, FunctionIsSeq, EmptySeq
<1>4. QED
  BY <1>2, <1>3, FlattenEmpty

-----------------------------------------------------------------------------
(* One line is cut off the front of what is left. *)
LEMMA ConsumedProperties ==
  ASSUME HexdumpTypeOK, ptr # << >>
  PROVE  LET rest == SubSeq(ptr, Len(Consumed) + 1, Len(ptr))
         IN  /\ Consumed \in Strings /\ rest \in Strings
             /\ Len(Consumed) \in Nat /\ Consumed \o rest = ptr
<1> DEFINE n == IF Len(ptr) < LineSize THEN Len(ptr) ELSE LineSize
<1>1. ptr \in Seq(Octets) /\ Len(ptr) \in Nat /\ LineSize \in Nat
  BY LenProperties, HexdumpAssumption DEF HexdumpTypeOK
<1>2. n \in Nat /\ n <= Len(ptr) /\ Consumed = SubSeq(ptr, 1, n)
  BY <1>1 DEF Consumed
<1> HIDE DEF n
<1>3. \A i \in 1 .. Len(ptr) : ptr[i] \in Octets
  BY <1>1, ElementOfSeq
<1>4. Consumed \in Seq(Octets) /\ Len(Consumed) = n
  <2>1. \A i \in 1 .. n : ptr[i] \in Octets
    BY <1>1, <1>2, <1>3
  <2>2. /\ SubSeq(ptr, 1, n) \in Seq(Octets)
        /\ Len(SubSeq(ptr, 1, n)) = IF 1 <= n THEN n - 1 + 1 ELSE 0
    BY <1>2, <2>1, SubSeqProperties
  <2>3. QED
    BY <1>2, <2>2
<1>5. SubSeq(ptr, n + 1, Len(ptr)) \in Seq(Octets)
  <2>1. /\ n + 1 \in Int /\ Len(ptr) \in Int
        /\ \A i \in n + 1 .. Len(ptr) : ptr[i] \in Octets
    BY <1>1, <1>2, <1>3
  <2>2. QED
    BY <2>1, SubSeqProperties
<1>6. SubSeq(ptr, 1, n) \o SubSeq(ptr, n + 1, Len(ptr)) = ptr
  <2>1. /\ 1 \in 1 .. Len(ptr) + 1 /\ n \in 1 - 1 .. Len(ptr)
        /\ Len(ptr) \in n .. Len(ptr)
    BY <1>1, <1>2
  <2>2. SubSeq(ptr, 1, n) \o SubSeq(ptr, n + 1, Len(ptr))
          = SubSeq(ptr, 1, Len(ptr))
    BY <1>1, <2>1, ConcatAdjacentSubSeq
  <2>3. QED
    BY <1>1, <2>2, SubSeqFull
<1>7. QED
  BY <1>2, <1>4, <1>5, <1>6 DEF Strings

(* The log with the count that is due. *)
Due == log \o Skipped

LEMMA DueProperties ==
  ASSUME HexdumpInv, running
  PROVE  /\ Due \in Seq(LogEntries) /\ CountsBelowLines(Due)
         /\ Text(Due) \in Strings
         /\ Len(log) \in Nat /\ Len(Due) \in Nat /\ Len(Due) >= Len(log)
         /\ \A i \in 1 .. Len(log) : Due[i] = log[i]
         /\ \A i \in Len(log) + 1 .. Len(Due) : ~IsLine(Due[i])
         /\ Text(Due) =
              IF skipCount = 0 THEN Text(log)
              ELSE Text(log) \o Repeated(log[Len(log)].octets, skipCount)
<1>1. /\ log \in Seq(LogEntries) /\ Len(log) \in Nat
      /\ CountsBelowLines(log) /\ skipCount \in Nat
  BY LenProperties DEF HexdumpInv, HexdumpTypeOK
<1>2. CASE skipCount = 0
  <2>1. Due = log
    BY <1>1, <1>2, ConcatEmptySeq DEF Due, Skipped
  <2>2. Text(log) \in Strings
    BY <1>1, TextTyped
  <2>3. QED
    BY <1>1, <1>2, <2>1, <2>2
<1>3. CASE skipCount # 0
  <2> DEFINE e == [skipped |-> skipCount]
  <2>1. e \in LogEntries /\ ~IsLine(e) /\ e.skipped = skipCount
    BY <1>1, <1>3 DEF LogEntries, IsLine
  <2>2. Due = log \o << e >>
    BY <1>3 DEF Due, Skipped
  <2> HIDE DEF e
  <2>3. Due = Append(log, e)
    BY <1>1, <2>1, <2>2, AppendIsConcat
  <2>4. EndsInLine(log)
    BY <1>1, <1>3 DEF HexdumpInv, LocalsDescribeLastLine
  <2>5. /\ Due \in Seq(LogEntries) /\ Len(Due) = Len(log) + 1
        /\ Due[Len(log) + 1] = e
        /\ \A i \in 1 .. Len(log) : Due[i] = log[i]
    BY <1>1, <2>1, <2>3, AppendProperties
  <2>6. /\ CountsBelowLines(Due) /\ Text(Due) \in Strings
        /\ Text(Due)
             = Text(log) \o Repeated(log[Len(log)].octets, skipCount)
    BY <1>1, <2>1, <2>3, <2>4, TextLonger
  <2>7. \A i \in Len(log) + 1 .. Len(Due) : i = Len(log) + 1
    BY <1>1, <2>5
  <2>8. QED
    BY <1>1, <1>3, <2>1, <2>5, <2>6, <2>7
<1>4. QED
  BY <1>2, <1>3

(* The last line is skipped only if it was printed, and is counted then. *)
LEMMA SkipLineKeepsInv ==
  ASSUME HexdumpInv, SkipLine
  PROVE  HexdumpInv'
<1> DEFINE C == Consumed
           rest == SubSeq(ptr, Len(C) + 1, Len(ptr))
           last == log[Len(log)].octets
<1>1. /\ C \in Strings /\ rest \in Strings /\ Len(C) \in Nat
      /\ C \o rest = ptr
  BY ConsumedProperties DEF SkipLine, HexdumpInv
<1>2. /\ running /\ running' = running /\ data' = data /\ log' = log
      /\ ptr' = rest /\ skipCount' = skipCount + 1
      /\ empty /\ empty' = Boring(C) /\ Boring(C) /\ emptyLen = Len(C)
      /\ emptyLen' = emptyLen
  BY DEF SkipLine, Repeats, Remembers
<1>3. /\ skipCount \in Nat /\ Len(log) \in Nat /\ log \in Seq(LogEntries)
  BY LenProperties DEF HexdumpInv, HexdumpTypeOK
<1>4. HexdumpTypeOK'
  BY <1>1, <1>2, <1>3 DEF HexdumpInv, HexdumpTypeOK, Strings
<1>5. log # << >> /\ EndsInLine(log) /\ Boring(last) /\ emptyLen = Len(last)
  BY <1>2 DEF HexdumpInv, LocalsDescribeLastLine
<1> HIDE DEF C, rest
<1>6. last \in Strings
  <2>1. Len(log) \in 1 .. Len(log)
    BY <1>3, <1>5, EmptySeq
  <2>2. QED
    BY <1>3, <1>5, <2>1, ElementOfSeq, EntryShapes DEF EndsInLine
<1>7. last = C
  <2>1. Len(last) = Len(C) /\ \A i \in 1 .. Len(last) : last[i] = C[i]
    BY <1>2, <1>5 DEF Boring
  <2> HIDE DEF last
  <2>2. QED
    BY <1>1, <1>6, <2>1, SeqEqual DEF Strings
<1> HIDE DEF last
<1>8. LocalsDescribeLastLine'
  BY <1>2, <1>3, <1>5 DEF LocalsDescribeLastLine, EndsInLine, last
<1>9. LogIsComplete'
  <2>1. Text(Due) \o ptr = data
    BY <1>2 DEF HexdumpInv, LogIsComplete, Due
  <2>2. /\ Text(Due) \in Strings /\ Text(log) \in Strings
        /\ Text(Due) = Text(log) \o Repeated(C, skipCount)
    <3>1. /\ Text(Due) \in Strings
          /\ Text(Due) = IF skipCount = 0 THEN Text(log)
                         ELSE Text(log) \o Repeated(C, skipCount)
      BY <1>2, <1>7, DueProperties DEF last
    <3>2. Text(log) \in Strings
      BY <1>3, TextTyped DEF HexdumpInv
    <3>3. Text(log) \o << >> = Text(log)
      BY <3>2, ConcatEmptySeq DEF Strings
    <3>4. QED
      BY <1>1, <1>3, <3>1, <3>2, <3>3, RepeatedProperties
  <2>3. /\ Repeated(C, skipCount) \in Strings
        /\ Repeated(C, skipCount + 1) = Repeated(C, skipCount) \o C
    BY <1>1, <1>3, RepeatedProperties
  <2>4. HexdumpInv /\ Text(Due') = Text(log) \o Repeated(C, skipCount + 1)
    <3> DEFINE e == [skipped |-> skipCount + 1]
    <3>1. e \in LogEntries /\ ~IsLine(e) /\ e.skipped = skipCount + 1
      BY <1>3 DEF LogEntries, IsLine
    <3>2. Due' = log \o << e >>
      BY <1>2, <1>3 DEF Due, Skipped
    <3> HIDE DEF e
    <3>3. Due' = Append(log, e)
      BY <1>3, <3>1, <3>2, AppendIsConcat
    <3>4. QED
      BY <1>3, <1>5, <1>7, <3>1, <3>3, TextLonger DEF HexdumpInv, last
  <2>5. Text(Due') = Text(Due) \o C
    <3>1. (Text(log) \o Repeated(C, skipCount)) \o C
            = Text(log) \o (Repeated(C, skipCount) \o C)
      BY <1>1, <2>2, <2>3, Associative
    <3>2. QED
      BY <2>2, <2>3, <2>4, <3>1
  <2>6. Text(Due') \o rest = data
    <3>1. (Text(Due) \o C) \o rest = Text(Due) \o (C \o rest)
      BY <1>1, <2>2, Associative
    <3>2. QED
      BY <1>1, <2>1, <2>5, <3>1
  <2>7. QED
    BY <1>2, <2>6 DEF LogIsComplete, Due
<1>10. CountsBelowLines(log)' /\ BoringOnlyOnce'
  BY <1>2 DEF HexdumpInv, BoringOnlyOnce, FollowsOn
<1>11. QED
  BY <1>4, <1>8, <1>9, <1>10 DEF HexdumpInv

(* Another line is printed below the count of those it ends, if it is not  *)
(* the last one again.                                                     *)
LEMMA PrintLineKeepsInv ==
  ASSUME HexdumpInv, PrintLine
  PROVE  HexdumpInv'
<1> DEFINE C == Consumed
           rest == SubSeq(ptr, Len(C) + 1, Len(ptr))
           line == [octets |-> C, first |-> log = << >>]
<1>1. /\ C \in Strings /\ rest \in Strings /\ Len(C) \in Nat
      /\ C \o rest = ptr
  BY ConsumedProperties DEF PrintLine, HexdumpInv
<1>2. /\ running /\ running' = running /\ data' = data
      /\ log' = Due \o << line >>
      /\ ptr' = rest /\ skipCount' = 0
      /\ ~ (empty /\ Boring(C) /\ emptyLen = Len(C))
      /\ empty' = Boring(C)
      /\ emptyLen' = IF Boring(C) THEN Len(C) ELSE emptyLen
  BY DEF PrintLine, Repeats, Remembers, Due
<1>3. /\ line \in LogEntries /\ IsLine(line) /\ line.octets = C
  <2>1. (log = << >>) \in BOOLEAN
    OBVIOUS
  <2> HIDE DEF C
  <2>2. QED
    BY <1>1, <2>1 DEF LogEntries, IsLine, Strings
<1> HIDE DEF C, rest, line
<1>4. /\ Due \in Seq(LogEntries) /\ CountsBelowLines(Due)
      /\ Text(Due) \in Strings
      /\ Len(log) \in Nat /\ Len(Due) \in Nat /\ Len(Due) >= Len(log)
      /\ \A i \in 1 .. Len(log) : Due[i] = log[i]
      /\ \A i \in Len(log) + 1 .. Len(Due) : ~IsLine(Due[i])
  BY <1>2, DueProperties
<1>5. log' = Append(Due, line)
  BY <1>2, <1>3, <1>4, AppendIsConcat
<1> DEFINE n == Len(Due) + 1
<1>6. /\ log' \in Seq(LogEntries) /\ Len(log') = n /\ log'[n] = line
      /\ log' # << >> /\ n \in Nat /\ n \in 1 .. n
      /\ \A i \in 1 .. Len(Due) : log'[i] = Due[i]
  BY <1>3, <1>4, <1>5, AppendProperties
<1>7. /\ CountsBelowLines(log') /\ Text(log') \in Strings
      /\ Text(log') = Text(Due) \o C
  BY <1>3, <1>4, <1>5, TextLonger
<1>8. HexdumpTypeOK'
  <2>1. /\ data' \in Seq(Octets) /\ ptr' \in Seq(Octets)
        /\ running' \in BOOLEAN /\ empty' \in BOOLEAN
        /\ emptyLen' \in Nat /\ skipCount' \in Nat
    BY <1>1, <1>2 DEF HexdumpInv, HexdumpTypeOK, Strings, Boring
  <2>2. QED
    BY <1>6, <2>1 DEF HexdumpTypeOK, LogEntries
<1>9. LocalsDescribeLastLine'
  <2>1. EndsInLine(log') /\ log'[Len(log')].octets = C
    BY <1>3, <1>6 DEF EndsInLine
  <2>2. (empty' <=> Boring(C)) /\ (empty' => emptyLen' = Len(C))
    BY <1>2
  <2>3. QED
    BY <1>2, <1>6, <2>1, <2>2 DEF LocalsDescribeLastLine
<1>10. LogIsComplete'
  <2>1. Text(Due) \o ptr = data
    BY <1>2 DEF HexdumpInv, LogIsComplete, Due
  <2>2. Skipped' = << >>
    BY <1>2 DEF Skipped
  <2>3. log' \o << >> = log'
    BY <1>6, ConcatEmptySeq
  <2>4. (Text(Due) \o C) \o rest = Text(Due) \o (C \o rest)
    BY <1>1, <1>4, Associative
  <2>5. Text(log') \o ptr' = data
    BY <1>1, <1>2, <1>7, <2>1, <2>4
  <2>6. QED
    BY <1>2, <2>2, <2>3, <2>5 DEF LogIsComplete
<1>11. BoringOnlyOnce'
  <2> SUFFICES ASSUME NEW i \in 1 .. n, NEW j \in 1 .. n,
                      FollowsOn(log', i, j), Boring(log'[i].octets)
               PROVE  log'[i].octets # log'[j].octets
    BY <1>6 DEF BoringOnlyOnce
  <2>1. /\ i < j /\ IsLine(log'[i]) /\ IsLine(log'[j])
        /\ \A k \in i + 1 .. j - 1 : ~IsLine(log'[k])
    BY DEF FollowsOn
  <2>2. \A k \in 1 .. n : k \in 1 .. Len(log) \/ k = n
                            \/ k \in Len(log) + 1 .. Len(Due)
    BY <1>4
  <2>3. \A k \in 1 .. Len(log) : k \in 1 .. Len(Due) /\ log'[k] = log[k]
    BY <1>4, <1>6
  <2>4. \A k \in Len(log) + 1 .. Len(Due) : ~IsLine(log'[k])
    BY <1>4, <1>6
  <2>5. i \in 1 .. Len(log) /\ log'[i] = log[i]
    <3>1. i # n
      BY <2>1
    <3>2. QED
      BY <2>1, <2>2, <2>3, <2>4, <3>1
  <2>6. CASE j = n
    <3>1. /\ log # << >> /\ Len(log) \in 1 .. Len(log)
      BY <1>4, <2>5, EmptySeq
    <3>2. /\ IsLine(log[Len(log)])
          /\ empty <=> Boring(log[Len(log)].octets)
          /\ empty => emptyLen = Len(log[Len(log)].octets)
      BY <1>2, <3>1 DEF HexdumpInv, LocalsDescribeLastLine, EndsInLine
    <3>3. i = Len(log)
      <4>1. IsLine(log'[Len(log)])
        BY <2>3, <3>1, <3>2
      <4>2. i < Len(log) => Len(log) \in i + 1 .. j - 1
        BY <1>4, <2>6
      <4>3. QED
        BY <1>4, <2>1, <2>5, <4>1, <4>2
    <3>4. empty /\ emptyLen = Len(log[i].octets)
      BY <2>5, <3>2, <3>3
    <3>5. ASSUME log[i].octets = C
          PROVE  FALSE
      BY <1>2, <2>5, <3>4, <3>5
    <3>6. QED
      BY <1>3, <1>6, <2>5, <2>6, <3>5
  <2>7. CASE j # n
    <3>1. j \in 1 .. Len(log) /\ log'[j] = log[j]
      BY <2>1, <2>2, <2>3, <2>4, <2>7
    <3>2. \A k \in i + 1 .. j - 1 : k \in 1 .. Len(log)
      BY <1>4, <2>5, <3>1
    <3>3. FollowsOn(log, i, j)
      BY <2>1, <2>3, <2>5, <3>1, <3>2 DEF FollowsOn
    <3>4. QED
      BY <2>5, <3>1, <3>3 DEF HexdumpInv, BoringOnlyOnce
  <2>8. QED
    BY <2>6, <2>7
<1>12. QED
  BY <1>7, <1>8, <1>9, <1>10, <1>11 DEF HexdumpInv

(* After the last line, what was skipped at the end is counted. *)
LEMMA FinishKeepsInv ==
  ASSUME HexdumpInv, Finish
  PROVE  HexdumpInv'
<1>1. /\ running /\ running' = FALSE /\ data' = data /\ ptr' = ptr
      /\ ptr = << >> /\ log' = Due
      /\ empty' = FALSE /\ emptyLen' = 0 /\ skipCount' = 0
  BY DEF Finish, Due
<1>2. /\ Due \in Seq(LogEntries) /\ CountsBelowLines(Due)
      /\ Text(Due) \in Strings
      /\ Len(log) \in Nat /\ Len(Due) \in Nat /\ Len(Due) >= Len(log)
      /\ \A i \in 1 .. Len(log) : Due[i] = log[i]
      /\ \A i \in Len(log) + 1 .. Len(Due) : ~IsLine(Due[i])
  BY <1>1, DueProperties
<1>3. HexdumpTypeOK'
  BY <1>1, <1>2 DEF HexdumpInv, HexdumpTypeOK, LogEntries
<1>4. LocalsDescribeLastLine'
  BY <1>1 DEF LocalsDescribeLastLine
<1>5. LogIsComplete'
  <2>1. Text(Due) \o << >> = data
    BY <1>1 DEF HexdumpInv, LogIsComplete, Due
  <2>2. Text(Due) \o << >> = Text(Due)
    BY <1>2, ConcatEmptySeq DEF Strings
  <2>3. QED
    BY <1>1, <2>1, <2>2 DEF LogIsComplete
<1>6. BoringOnlyOnce'
  <2> SUFFICES ASSUME NEW i \in 1 .. Len(Due), NEW j \in 1 .. Len(Due),
                      FollowsOn(Due, i, j), Boring(Due[i].octets)
               PROVE  Due[i].octets # Due[j].octets
    BY <1>1 DEF BoringOnlyOnce
  <2>1. \A k \in 1 .. Len(Due) :
          k \in 1 .. Len(log) \/ k \in Len(log) + 1 .. Len(Due)
    BY <1>2
  <2>2. i \in 1 .. Len(log) /\ j \in 1 .. Len(log)
    BY <1>2, <2>1 DEF FollowsOn
  <2>3. \A k \in i + 1 .. j - 1 : k \in 1 .. Len(log)
    BY <1>2, <2>2
  <2>4. FollowsOn(log, i, j)
    BY <1>2, <2>2, <2>3 DEF FollowsOn
  <2>5. QED
    BY <1>2, <2>2, <2>4 DEF HexdumpInv, BoringOnlyOnce
<1>7. QED
  BY <1>1, <1>2, <1>3, <1>4, <1>5, <1>6 DEF HexdumpInv

(* A call begins with an empty log of its own, enabled or not. *)
EmptyLog ==
  /\ log = << >> /\ skipCount = 0 /\ empty = FALSE /\ emptyLen = 0
  /\ running \in BOOLEAN /\ data \in Seq(Octets) /\ ptr \in Seq(Octets)
  /\ running => ptr = data

LEMMA EmptyLogHoldsInv == EmptyLog => HexdumpInv
<1> SUFFICES ASSUME EmptyLog
             PROVE  HexdumpInv
  OBVIOUS
<1> USE DEF EmptyLog
<1>1. log \in Seq(LogEntries) /\ Len(log) = 0
  BY EmptySeq
<1>2. HexdumpTypeOK
  BY <1>1 DEF HexdumpTypeOK, LogEntries
<1>3. CountsBelowLines(log) /\ LocalsDescribeLastLine /\ BoringOnlyOnce
  BY <1>1 DEF CountsBelowLines, LocalsDescribeLastLine, BoringOnlyOnce
<1>4. LogIsComplete
  <2>1. log \o Skipped = << >>
    BY <1>1, ConcatEmptySeq DEF Skipped
  <2>2. << >> \o ptr = ptr
    BY ConcatEmptySeq
  <2>3. QED
    BY <2>1, <2>2, TextEmpty DEF LogIsComplete
<1>5. QED
  BY <1>2, <1>3, <1>4 DEF HexdumpInv

LEMMA DumpDataKeepsInv ==
  ASSUME NEW d \in SeqOf(Octets, MaxLen), NEW enabled \in BOOLEAN,
         DumpData(d, enabled)
  PROVE  HexdumpInv'
<1>1. d \in Seq(Octets) /\ << >> \in Seq(Octets)
  BY SeqDef, EmptySeq, HexdumpAssumption DEF SeqOf
<1>2. EmptyLog'
  BY <1>1 DEF DumpData, EmptyLog
<1>3. QED
  BY <1>2, EmptyLogHoldsInv, PTL

-----------------------------------------------------------------------------
(***************************************************************************)
(* In every reachable state the locals of pn54x_hexdump() describe the     *)
(* line printed last, the counts are where they can be read, and the log   *)
(* is complete so far.                                                     *)
(***************************************************************************)
THEOREM HexdumpInvariant == Spec => []HexdumpInv
<1>1. Init => HexdumpInv
  BY EmptyLogHoldsInv, EmptySeq DEF Init, EmptyLog
<1>2. HexdumpInv /\ [Next]_vars => HexdumpInv'
  <2> SUFFICES ASSUME HexdumpInv, [Next]_vars
               PROVE  HexdumpInv'
    OBVIOUS
  <2>1. ASSUME NEW d \in SeqOf(Octets, MaxLen), NEW enabled \in BOOLEAN,
               DumpData(d, enabled)
        PROVE  HexdumpInv'
    BY <2>1, DumpDataKeepsInv
  <2>2. CASE SkipLine
    BY <2>2, SkipLineKeepsInv
  <2>3. CASE PrintLine
    BY <2>3, PrintLineKeepsInv
  <2>4. CASE Finish
    BY <2>4, FinishKeepsInv
  <2>5. CASE UNCHANGED vars
    BY <2>5
       DEF vars, HexdumpInv, HexdumpTypeOK, LocalsDescribeLastLine,
           LogIsComplete, Skipped, BoringOnlyOnce
  <2>6. QED
    BY <2>1, <2>2, <2>3, <2>4, <2>5 DEF Next
<1>3. QED
  BY <1>1, <1>2, PTL DEF Spec

(***************************************************************************)
(* Whoever reads the log can tell every octet that was dumped, whatever    *)
(* the data and however many of its lines were only counted.               *)
(***************************************************************************)
THEOREM LogTellsEverything == Spec => []LogIsComplete
<1>1. HexdumpInv => LogIsComplete
  BY DEF HexdumpInv
<1>2. QED
  BY <1>1, HexdumpInvariant, PTL

(***************************************************************************)
(* No boring line is printed again with nothing but its repetitions in     *)
(* between.                                                                *)
(***************************************************************************)
THEOREM BoringLinesOnce == Spec => []BoringOnlyOnce
<1>1. HexdumpInv => BoringOnlyOnce
  BY DEF HexdumpInv
<1>2. QED
  BY <1>1, HexdumpInvariant, PTL
=============================================================================
