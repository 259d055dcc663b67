-------------------------- MODULE ReadHandleProofs --------------------------
(***************************************************************************)
(* Lemmas about the operators of NciFraming.tla and the actions of         *)
(* ReadHandle.tla: what dropping, measuring and skipping return for every  *)
(* byte string, what the reference finds in it, and what each step of the  *)
(* handler does to the bytes that are pending.  The proofs about the       *)
(* modules built on them cite them by name.                                *)
(***************************************************************************)
EXTENDS ReadHandle, SequenceTheorems, WellFoundedInduction, TLAPS

(* Dropping n octets leaves the others, in their order. *)
LEMMA DropProperties ==
  ASSUME NEW buf \in Seq(Byte), NEW n \in 0 .. Len(buf)
  PROVE  /\ Drop(buf, n) \in Seq(Byte)
         /\ Len(Drop(buf, n)) = Len(buf) - n
         /\ \A i \in 1 .. Len(buf) - n : Drop(buf, n)[i] = buf[n + i]
<1>1. \A i \in n + 1 .. Len(buf) : buf[i] \in Byte
  BY ElementOfSeq
<1>2. Len(buf) \in Int /\ n + 1 \in Int
  BY LenProperties
<1>3. /\ SubSeq(buf, n + 1, Len(buf)) \in Seq(Byte)
      /\ Len(SubSeq(buf, n + 1, Len(buf))) =
           IF n + 1 <= Len(buf) THEN Len(buf) - (n + 1) + 1 ELSE 0
      /\ \A i \in 1 .. Len(buf) - (n + 1) + 1 :
           SubSeq(buf, n + 1, Len(buf))[i] = buf[(n + 1) + i - 1]
  <2> HIDE DEF Byte
  <2> QED BY <1>1, <1>2, SubSeqProperties
<1>4. QED
  BY <1>2, <1>3 DEF Drop

(* The padding loop stops: at the first octet that is not padding, or at   *)
(* the end of the bytes.                                                   *)
LEMMA PadRunIsPadRun ==
  ASSUME NEW buf \in Seq(Byte)
  PROVE  PadRun(buf) \in 0 .. Len(buf) /\ IsPadRun(buf, PadRun(buf))
<1> DEFINE NonPad == { i \in 0 .. Len(buf) - 1 : buf[i + 1] # Pad }
<1>0. Len(buf) \in Nat
  BY LenProperties
<1>1. \E n \in 0 .. Len(buf) : IsPadRun(buf, n)
  <2>1. CASE NonPad = {}
    <3>1. \A i \in 1 .. Len(buf) : i - 1 \in 0 .. Len(buf) - 1
      BY <1>0
    <3>2. \A i \in 1 .. Len(buf) : buf[(i - 1) + 1] = Pad
      BY <2>1, <3>1
    <3>3. \A i \in 1 .. Len(buf) : (i - 1) + 1 = i
      BY <1>0
    <3>4. IsPadRun(buf, Len(buf))
      BY <1>0, <3>2, <3>3 DEF IsPadRun
    <3>5. QED
      BY <1>0, <3>4
  <2>2. CASE NonPad # {}
    <3>1. NonPad \subseteq Nat
      BY <1>0
    <3>2. PICK m \in NonPad : \A k \in NonPad : << k, m >> \notin OpToRel(<, Nat)
      <4> HIDE DEF NonPad
      <4> QED BY <2>2, <3>1, NatLessThanWellFounded, WFMin
    <3>3. \A k \in NonPad : ~ (k < m)
      <4>1. \A k, l \in Nat : k < l => << k, l >> \in OpToRel(<, Nat)
        BY DEF OpToRel
      <4>2. QED
        BY <3>1, <3>2, <4>1
    <3>4. \A i \in 1 .. m : buf[i] = Pad
      <4> SUFFICES ASSUME NEW i \in 1 .. m
                   PROVE  buf[i] = Pad
        OBVIOUS
      <4>1. m \in 0 .. Len(buf) - 1
        BY <3>2
      <4>2. i - 1 \in 0 .. Len(buf) - 1 /\ i - 1 < m /\ (i - 1) + 1 = i
        BY <1>0, <4>1
      <4>3. i - 1 \notin NonPad
        BY <3>3, <4>2
      <4>4. QED
        BY <4>2, <4>3
    <3>5. m \in 0 .. Len(buf) /\ buf[m + 1] # Pad
      <4>1. m \in 0 .. Len(buf) - 1 /\ buf[m + 1] # Pad
        OBVIOUS
      <4>2. QED
        BY <1>0, <4>1
    <3>6. QED
      BY <1>0, <3>4, <3>5 DEF IsPadRun
  <2>3. QED
    BY <2>1, <2>2
<1>2. QED
  BY <1>1 DEF PadRun

(* Skipping padding leaves a tail of the bytes that is empty or starts with *)
(* an octet that is not padding; everything skipped was padding.           *)
LEMMA SkipPaddingProperties ==
  ASSUME NEW buf \in Seq(Byte)
  PROVE  /\ SkipPadding(buf) \in Seq(Byte)
         /\ PadRun(buf) \in 0 .. Len(buf)
         /\ Len(SkipPadding(buf)) = Len(buf) - PadRun(buf)
         /\ \A i \in 1 .. Len(SkipPadding(buf)) :
              SkipPadding(buf)[i] = buf[PadRun(buf) + i]
         /\ SkipPadding(buf) # << >> => SkipPadding(buf)[1] # Pad
         /\ \A i \in 1 .. PadRun(buf) : buf[i] = Pad
<1> DEFINE n == PadRun(buf)
<1>0. Len(buf) \in Nat
  BY LenProperties
<1>1. n \in 0 .. Len(buf) /\ IsPadRun(buf, n)
  BY PadRunIsPadRun
<1> HIDE DEF n
<1>2. /\ Drop(buf, n) \in Seq(Byte)
      /\ Len(Drop(buf, n)) = Len(buf) - n
      /\ \A i \in 1 .. Len(buf) - n : Drop(buf, n)[i] = buf[n + i]
  BY <1>1, DropProperties
<1>3. Drop(buf, n) # << >> => Drop(buf, n)[1] # Pad
  <2> SUFFICES ASSUME Drop(buf, n) # << >>
               PROVE  Drop(buf, n)[1] # Pad
    OBVIOUS
  <2>1. Len(Drop(buf, n)) # 0
    BY <1>2, EmptySeq
  <2>2. n < Len(buf) /\ 1 \in 1 .. Len(buf) - n
    BY <1>0, <1>1, <1>2, <2>1
  <2>3. QED
    BY <1>1, <1>2, <2>2 DEF IsPadRun
<1>4. QED
  BY <1>1, <1>2, <1>3 DEF SkipPadding, IsPadRun, n

(* A packet size is 0 or covers the header and fits in the bytes. *)
LEMMA ReadPacketSizeProperties ==
  ASSUME NEW buf \in Seq(Byte)
  PROVE  /\ ReadPacketSize(buf) \in 0 .. Len(buf)
         /\ ReadPacketSize(buf) > 0 => ReadPacketSize(buf) >= HeaderSize
<1>0. Len(buf) \in Nat /\ HeaderSize \in Nat \ {0} /\ MaxByte \in Nat
  BY LenProperties, FramingAssumption
<1>1. CASE Len(buf) >= HeaderSize
  <2>1. buf[HeaderSize] \in 0 .. MaxByte
    BY <1>0, <1>1, ElementOfSeq DEF Byte
  <2>2. QED
    BY <1>0, <1>1, <2>1 DEF ReadPacketSize
<1>2. CASE ~ (Len(buf) >= HeaderSize)
  BY <1>0, <1>2 DEF ReadPacketSize
<1>3. QED
  BY <1>1, <1>2

(* A packet that is complete stays the same packet whatever follows it:    *)
(* the decision taken on the bytes at hand is the one the whole stream     *)
(* would give.                                                             *)
LEMMA ReadPacketSizeStable ==
  ASSUME NEW buf \in Seq(Byte), NEW longer \in Seq(Byte),
         Len(buf) <= Len(longer),
         \A i \in 1 .. Len(buf) : longer[i] = buf[i],
         ReadPacketSize(buf) > 0
  PROVE  ReadPacketSize(longer) = ReadPacketSize(buf)
<1>0. /\ Len(buf) \in Nat /\ Len(longer) \in Nat
      /\ HeaderSize \in Nat \ {0} /\ MaxByte \in Nat
  BY LenProperties, FramingAssumption
<1>1. Len(buf) >= HeaderSize /\ buf[HeaderSize] <= Len(buf) - HeaderSize
  BY DEF ReadPacketSize
<1>2. buf[HeaderSize] \in 0 .. MaxByte
  BY <1>0, <1>1, ElementOfSeq DEF Byte
<1>3. longer[HeaderSize] = buf[HeaderSize]
  BY <1>0, <1>1
<1>4. QED
  BY <1>0, <1>1, <1>2, <1>3 DEF ReadPacketSize

(* An incomplete packet is shorter than the longest packet. *)
LEMMA IncompleteIsShort ==
  ASSUME NEW buf \in Seq(Byte), ReadPacketSize(buf) = 0
  PROVE  Len(buf) < HeaderSize + MaxByte
<1>0. Len(buf) \in Nat /\ HeaderSize \in Nat \ {0} /\ MaxByte \in Nat
  BY LenProperties, FramingAssumption
<1>1. CASE Len(buf) >= HeaderSize
  <2>1. buf[HeaderSize] \in 0 .. MaxByte
    BY <1>0, <1>1, ElementOfSeq DEF Byte
  <2>2. ~ (buf[HeaderSize] <= Len(buf) - HeaderSize)
    BY <1>0, <1>1, <2>1 DEF ReadPacketSize
  <2>3. QED
    BY <1>0, <1>1, <2>1, <2>2
<1>2. QED
  BY <1>0, <1>1

-----------------------------------------------------------------------------
(***************************************************************************)
(* The walk of the reference: Walk(bytes)[i] is the sequence of packets    *)
(* found from position i on.  The library's induction theorems take a      *)
(* predicate as a parameter, so induction is done here over sets: a number *)
(* that is not in the set has a least one below it.                        *)
(***************************************************************************)
Packs == Seq(Seq(Byte))

IsWalk(bytes, f) == f = [i \in 1 .. Len(bytes) + 1 |-> PacketsAt(bytes, f, i)]

Walk(bytes) == CHOOSE f : IsWalk(bytes, f)

(* A set that holds 0 and the successor of each of its members holds every *)
(* natural number.                                                         *)
LEMMA SetInduction ==
  ASSUME NEW S, 0 \in S, \A n \in Nat : n \in S => n + 1 \in S
  PROVE  \A n \in Nat : n \in S
<1> DEFINE Missing == { n \in Nat : n \notin S }
<1>1. SUFFICES ASSUME Missing # {}
               PROVE  FALSE
  OBVIOUS
<1>2. PICK m \in Missing : \A k \in Missing : << k, m >> \notin OpToRel(<, Nat)
  <2>1. Missing \subseteq Nat
    OBVIOUS
  <2> HIDE DEF Missing
  <2>2. QED
    BY <1>1, <2>1, NatLessThanWellFounded, WFMin
<1>3. \A k \in Missing : ~ (k < m)
  <2>1. \A k, l \in Nat : k < l => << k, l >> \in OpToRel(<, Nat)
    BY DEF OpToRel
  <2>2. QED
    BY <1>2, <2>1
<1>4. m \in Nat /\ m # 0
  OBVIOUS
<1>5. m - 1 \in Nat /\ m - 1 < m /\ (m - 1) + 1 = m
  BY <1>4
<1>6. m - 1 \in S
  BY <1>3, <1>5
<1>7. m \in S
  BY <1>5, <1>6
<1>8. QED
  BY <1>7

(* The step of the walk at i looks only at later positions. *)
LEMMA PacketsAtLocal ==
  ASSUME NEW bytes \in Seq(Byte), NEW f, NEW g,
         NEW i \in 1 .. Len(bytes) + 1,
         \A m \in i + 1 .. Len(bytes) + 1 : f[m] = g[m]
  PROVE  PacketsAt(bytes, f, i) = PacketsAt(bytes, g, i)
<1>0. Len(bytes) \in Nat /\ HeaderSize \in Nat \ {0} /\ MaxByte \in Nat
  BY LenProperties, FramingAssumption
<1>1. CASE i <= Len(bytes) /\ i + HeaderSize - 1 <= Len(bytes)
  <2> DEFINE next == i + HeaderSize + bytes[i + HeaderSize - 1]
  <2>1. bytes[i + HeaderSize - 1] \in 0 .. MaxByte
    BY <1>0, <1>1, ElementOfSeq DEF Byte
  <2>2. next \in Int /\ next >= i + 1
    BY <1>0, <2>1
  <2>3. next <= Len(bytes) + 1 => f[next] = g[next]
    BY <1>0, <2>2
  <2>4. f[i + 1] = g[i + 1]
    BY <1>0, <1>1
  <2> HIDE DEF next
  <2>5. ~ (next > Len(bytes) + 1) => f[next] = g[next]
    BY <1>0, <2>2, <2>3
  <2>6. QED
    BY <2>4, <2>5 DEF PacketsAt, next
<1>2. CASE i <= Len(bytes) /\ i + HeaderSize - 1 > Len(bytes)
  <2>1. f[i + 1] = g[i + 1]
    BY <1>0, <1>2
  <2>2. QED
    BY <1>2, <2>1 DEF PacketsAt
<1>3. CASE i > Len(bytes)
  BY <1>3 DEF PacketsAt
<1>4. QED
  BY <1>0, <1>1, <1>2, <1>3

(* The step of the walk yields packets if the later positions do. *)
LEMMA PacketsAtTyped ==
  ASSUME NEW bytes \in Seq(Byte), NEW f,
         NEW i \in 1 .. Len(bytes) + 1,
         \A m \in i + 1 .. Len(bytes) + 1 : f[m] \in Packs
  PROVE  PacketsAt(bytes, f, i) \in Packs
<1>0. Len(bytes) \in Nat /\ HeaderSize \in Nat \ {0} /\ MaxByte \in Nat
  BY LenProperties, FramingAssumption
<1>1. << >> \in Packs
  BY EmptySeq DEF Packs
<1>2. CASE i <= Len(bytes) /\ i + HeaderSize - 1 <= Len(bytes)
  <2> DEFINE next == i + HeaderSize + bytes[i + HeaderSize - 1]
             packet == SubSeq(bytes, i, next - 1)
  <2>1. bytes[i + HeaderSize - 1] \in 0 .. MaxByte
    BY <1>0, <1>2, ElementOfSeq DEF Byte
  <2>2. next \in Int /\ next >= i + 1
    BY <1>0, <2>1
  <2>3. f[i + 1] \in Packs
    BY <1>0, <1>2
  <2> HIDE DEF next
  <2>4. ASSUME next <= Len(bytes) + 1
        PROVE  << packet >> \o f[next] \in Packs
    <3>1. f[next] \in Packs
      BY <1>0, <2>2, <2>4
    <3>2. packet \in Seq(Byte)
      <4>1. \A k \in i .. next - 1 : bytes[k] \in Byte
        <5> SUFFICES ASSUME NEW k \in i .. next - 1
                     PROVE  bytes[k] \in Byte
          OBVIOUS
        <5>1. k \in 1 .. Len(bytes)
          BY <1>0, <2>2, <2>4
        <5>2. QED
          BY <5>1, ElementOfSeq
      <4> HIDE DEF Byte
      <4>2. QED
        BY <2>2, <4>1, SubSeqProperties
    <3> HIDE DEF packet
    <3>3. QED
      <4> HIDE DEF Byte
      <4> QED BY <3>1, <3>2, ConcatProperties DEF Packs
  <2>5. ~ (next > Len(bytes) + 1) => << packet >> \o f[next] \in Packs
    BY <1>0, <2>2, <2>4
  <2>6. QED
    BY <1>1, <2>3, <2>5 DEF PacketsAt, next
<1>3. CASE i <= Len(bytes) /\ i + HeaderSize - 1 > Len(bytes)
  <2>1. f[i + 1] \in Packs
    BY <1>0, <1>3
  <2>2. QED
    BY <1>1, <1>3, <2>1 DEF PacketsAt
<1>4. CASE i > Len(bytes)
  BY <1>1, <1>4 DEF PacketsAt
<1>5. QED
  BY <1>0, <1>2, <1>3, <1>4

(* Bytes that follow others from p on agree with them on any prefix. *)
LEMMA FollowingSubSeq ==
  ASSUME NEW bytes \in Seq(Byte), NEW p \in 0 .. Len(bytes),
         NEW buf \in Seq(Byte), Len(buf) <= Len(bytes) - p,
         \A i \in 1 .. Len(buf) : buf[i] = bytes[p + i],
         NEW size \in 1 .. Len(buf)
  PROVE  SubSeq(bytes, p + 1, p + size + 1 - 1) = SubSeq(buf, 1, size)
<1> DEFINE hi == p + size + 1 - 1
<1>0. Len(bytes) \in Nat /\ Len(buf) \in Nat
  BY LenProperties
<1>1. hi = p + size /\ p + 1 \in Int /\ hi \in Int
  BY <1>0
<1> HIDE DEF hi
<1>2. \A k \in 1 .. size : buf[k] \in Byte
  BY <1>0, ElementOfSeq
<1>3. /\ SubSeq(buf, 1, size) \in Seq(Byte)
      /\ Len(SubSeq(buf, 1, size)) = IF 1 <= size THEN size - 1 + 1 ELSE 0
      /\ \A i \in 1 .. size - 1 + 1 : SubSeq(buf, 1, size)[i] = buf[1 + i - 1]
  <2> HIDE DEF Byte
  <2> QED BY <1>0, <1>2, SubSeqProperties
<1>4. \A k \in p + 1 .. hi : bytes[k] \in Byte
  <2> SUFFICES ASSUME NEW k \in p + 1 .. hi
               PROVE  bytes[k] \in Byte
    OBVIOUS
  <2>1. k \in 1 .. Len(bytes)
    BY <1>0, <1>1
  <2>2. QED
    BY <2>1, ElementOfSeq
<1>5. /\ SubSeq(bytes, p + 1, hi) \in Seq(Byte)
      /\ Len(SubSeq(bytes, p + 1, hi)) = IF p + 1 <= hi THEN hi - (p + 1) + 1 ELSE 0
      /\ \A i \in 1 .. hi - (p + 1) + 1 :
           SubSeq(bytes, p + 1, hi)[i] = bytes[(p + 1) + i - 1]
  <2> HIDE DEF Byte
  <2> QED BY <1>1, <1>4, SubSeqProperties
<1>6. /\ Len(SubSeq(buf, 1, size)) = size
      /\ Len(SubSeq(bytes, p + 1, hi)) = size
  BY <1>0, <1>1, <1>3, <1>5
<1>7. ASSUME NEW i \in 1 .. size
      PROVE  SubSeq(bytes, p + 1, hi)[i] = SubSeq(buf, 1, size)[i]
  <2>1. /\ i \in 1 .. hi - (p + 1) + 1 /\ i \in 1 .. size - 1 + 1
        /\ (p + 1) + i - 1 = p + i /\ 1 + i - 1 = i /\ i \in 1 .. Len(buf)
    BY <1>0, <1>1
  <2>2. QED
    BY <1>3, <1>5, <2>1
<1>8. SubSeq(bytes, p + 1, hi) = SubSeq(buf, 1, size)
  <2> HIDE DEF Byte
  <2> QED BY <1>3, <1>5, <1>6, <1>7, SeqEqual
<1>9. QED
  BY <1>8 DEF hi

(* The walk exists: it is built from the last position down, and its       *)
(* values are sequences of packets.                                        *)
LEMMA WalkExists ==
  ASSUME NEW bytes \in Seq(Byte)
  PROVE  \E f \in [1 .. Len(bytes) + 1 -> Packs] : IsWalk(bytes, f)
<1> DEFINE N == Len(bytes)
           Built(k, f) == \A i \in N + 1 - k .. N + 1 :
                            f[i] = PacketsAt(bytes, f, i)
           S == { k \in Nat : k <= N =>
                    \E f \in [N + 1 - k .. N + 1 -> Packs] : Built(k, f) }
<1>0. N \in Nat
  BY LenProperties
<1>1. 0 \in S
  <2> DEFINE f == [i \in N + 1 - 0 .. N + 1 |-> << >>]
  <2>1. << >> \in Packs
    BY EmptySeq DEF Packs
  <2>2. f \in [N + 1 - 0 .. N + 1 -> Packs]
    BY <2>1
  <2>3. ASSUME NEW i \in N + 1 - 0 .. N + 1
        PROVE  f[i] = PacketsAt(bytes, f, i)
    <3>1. i > N
      BY <1>0
    <3>2. QED
      BY <3>1 DEF PacketsAt
  <2> HIDE DEF f
  <2>4. QED
    BY <2>2, <2>3
<1>2. ASSUME NEW k \in Nat, k \in S
      PROVE  k + 1 \in S
  <2> SUFFICES ASSUME k + 1 <= N
               PROVE  \E g \in [N + 1 - (k + 1) .. N + 1 -> Packs] :
                        Built(k + 1, g)
    OBVIOUS
  <2>1. PICK f \in [N + 1 - k .. N + 1 -> Packs] : Built(k, f)
    BY <1>0, <1>2
  <2> DEFINE j == N + 1 - (k + 1)
             g == [i \in j .. N + 1 |->
                     IF i = j THEN PacketsAt(bytes, f, j) ELSE f[i]]
  <2>2. /\ j \in 1 .. N + 1 /\ j = N - k
        /\ \A i \in j + 1 .. N + 1 : i \in N + 1 - k .. N + 1 /\ i # j
        /\ \A i \in j .. N + 1 : i = j \/ i \in j + 1 .. N + 1
    BY <1>0
  <2> HIDE DEF j
  <2>3. PacketsAt(bytes, f, j) \in Packs
    BY <2>1, <2>2, PacketsAtTyped
  <2>4. g \in [j .. N + 1 -> Packs]
    BY <2>1, <2>2, <2>3
  <2>5. \A i \in j + 1 .. N + 1 : g[i] = f[i]
    BY <1>0, <2>2
  <2>6. g[j] = PacketsAt(bytes, f, j)
    BY <2>2
  <2> HIDE DEF g
  <2>7. ASSUME NEW i \in j .. N + 1
        PROVE  g[i] = PacketsAt(bytes, g, i)
    <3>1. i \in 1 .. N + 1 /\ \A m \in i + 1 .. N + 1 : m \in j + 1 .. N + 1
      BY <1>0, <2>2
    <3>2. PacketsAt(bytes, f, i) = PacketsAt(bytes, g, i)
      BY <2>5, <3>1, PacketsAtLocal
    <3>3. QED
      BY <2>1, <2>2, <2>5, <2>6, <3>2
  <2>8. QED
    BY <2>4, <2>7 DEF j
<1>3. N \in S
  <2> HIDE DEF S
  <2> QED BY <1>0, <1>1, <1>2, SetInduction
<1>4. PICK f \in [N + 1 - N .. N + 1 -> Packs] : Built(N, f)
  BY <1>0, <1>3
<1>5. N + 1 - N = 1
  BY <1>0
<1>6. f \in [1 .. N + 1 -> Packs] /\ \A i \in 1 .. N + 1 : f[i] = PacketsAt(bytes, f, i)
  BY <1>4, <1>5
<1>7. IsWalk(bytes, f)
  BY <1>6 DEF IsWalk
<1>8. QED
  BY <1>6, <1>7

(* What the reference finds after p octets is the walk at the next one. *)
LEMMA PacketsFromIsWalk ==
  ASSUME NEW bytes \in Seq(Byte), NEW p
  PROVE  PacketsFrom(bytes, p) = Walk(bytes)[p + 1]
BY DEF PacketsFrom, Walk, IsWalk

(* Each position of the walk follows from the later ones by PacketsAt, and *)
(* every value of it is a sequence of packets.                             *)
LEMMA WalkEquation ==
  ASSUME NEW bytes \in Seq(Byte), NEW i \in 1 .. Len(bytes) + 1
  PROVE  /\ Walk(bytes)[i] = PacketsAt(bytes, Walk(bytes), i)
         /\ Walk(bytes)[i] \in Packs
<1> DEFINE N == Len(bytes)
           w == Walk(bytes)
           S == { k \in Nat : \A m \in 1 .. N + 1 : m >= N + 1 - k => w[m] \in Packs }
<1>0. N \in Nat
  BY LenProperties
<1>1. IsWalk(bytes, w)
  BY WalkExists DEF Walk
<1> HIDE DEF w
<1>2. \A m \in 1 .. N + 1 : w[m] = PacketsAt(bytes, w, m)
  BY <1>1 DEF IsWalk
<1>3. 0 \in S
  <2> SUFFICES ASSUME NEW m \in 1 .. N + 1, m >= N + 1 - 0
               PROVE  w[m] \in Packs
    OBVIOUS
  <2>1. \A n \in m + 1 .. N + 1 : w[n] \in Packs
    BY <1>0
  <2>2. QED
    BY <1>2, <2>1, PacketsAtTyped
<1>4. ASSUME NEW k \in Nat, k \in S
      PROVE  k + 1 \in S
  <2> SUFFICES ASSUME NEW m \in 1 .. N + 1, m >= N + 1 - (k + 1)
               PROVE  w[m] \in Packs
    OBVIOUS
  <2>1. ASSUME NEW n \in m + 1 .. N + 1
        PROVE  w[n] \in Packs
    <3>1. n \in 1 .. N + 1 /\ n >= N + 1 - k
      BY <1>0
    <3>2. QED
      BY <1>4, <3>1
  <2>2. QED
    BY <1>2, <2>1, PacketsAtTyped
<1>5. N \in S
  <2> HIDE DEF S
  <2> QED BY <1>0, <1>3, <1>4, SetInduction
<1>6. w[i] \in Packs
  BY <1>0, <1>5
<1>7. QED
  BY <1>2, <1>6 DEF w

(* What the walk finds after any number of octets is a sequence of packets. *)
LEMMA PacketsFromTyped ==
  ASSUME NEW bytes \in Seq(Byte), NEW p \in 0 .. Len(bytes)
  PROVE  PacketsFrom(bytes, p) \in Packs
<1>1. p + 1 \in 1 .. Len(bytes) + 1
  BY LenProperties
<1>2. QED
  BY <1>1, WalkEquation, PacketsFromIsWalk

(* After the last octet the walk finds nothing. *)
LEMMA WalkAtEnd ==
  ASSUME NEW bytes \in Seq(Byte)
  PROVE  PacketsFrom(bytes, Len(bytes)) = << >>
<1>1. Len(bytes) \in Nat
  BY LenProperties
<1>2. Len(bytes) + 1 \in 1 .. Len(bytes) + 1 /\ Len(bytes) + 1 > Len(bytes)
  BY <1>1
<1>3. Walk(bytes)[Len(bytes) + 1] = << >>
  BY <1>2, WalkEquation DEF PacketsAt
<1>4. QED
  BY <1>3, PacketsFromIsWalk

(* The walk goes over padding without finding a packet. *)
LEMMA SkipWalk ==
  ASSUME NEW bytes \in Seq(Byte), NEW p \in 0 .. Len(bytes),
         NEW n \in 0 .. Len(bytes) - p,
         \A i \in 1 .. n : bytes[p + i] = Pad
  PROVE  PacketsFrom(bytes, p) = PacketsFrom(bytes, p + n)
<1> DEFINE w == Walk(bytes)
           S == { k \in Nat : k <= n => w[p + 1] = w[p + k + 1] }
<1>0. Len(bytes) \in Nat /\ p \in Nat /\ n \in Nat
  BY LenProperties
<1>1. 0 \in S
  BY <1>0
<1>2. ASSUME NEW k \in Nat, k \in S
      PROVE  k + 1 \in S
  <2> SUFFICES ASSUME k + 1 <= n
               PROVE  w[p + 1] = w[p + (k + 1) + 1]
    OBVIOUS
  <2>1. w[p + 1] = w[p + k + 1]
    BY <1>0, <1>2
  <2>2. p + k + 1 \in 1 .. Len(bytes) + 1 /\ ~ (p + k + 1 > Len(bytes))
    BY <1>0
  <2>3. bytes[p + k + 1] = Pad
    <3>1. k + 1 \in 1 .. n /\ p + (k + 1) = p + k + 1
      BY <1>0
    <3>2. QED
      BY <3>1
  <2>4. w[p + k + 1] = w[(p + k + 1) + 1]
    BY <2>2, <2>3, WalkEquation DEF PacketsAt
  <2>5. (p + k + 1) + 1 = p + (k + 1) + 1
    BY <1>0
  <2>6. QED
    BY <2>1, <2>4, <2>5
<1>3. n \in S
  <2> HIDE DEF S
  <2> QED BY <1>0, <1>1, <1>2, SetInduction
<1>4. w[p + 1] = w[p + n + 1]
  BY <1>0, <1>3
<1>5. QED
  BY <1>4, PacketsFromIsWalk

(* Where a buffer holds the next octets and a complete packet, the walk    *)
(* finds that packet first and goes on behind it.                          *)
LEMMA PacketWalk ==
  ASSUME NEW bytes \in Seq(Byte), NEW p \in 0 .. Len(bytes),
         NEW buf \in Seq(Byte), Len(buf) <= Len(bytes) - p,
         \A i \in 1 .. Len(buf) : buf[i] = bytes[p + i],
         ReadPacketSize(buf) > 0, buf[1] # Pad
  PROVE  PacketsFrom(bytes, p) =
           << SubSeq(buf, 1, ReadPacketSize(buf)) >> \o
             PacketsFrom(bytes, p + ReadPacketSize(buf))
<1> DEFINE size == ReadPacketSize(buf)
<1>0. /\ Len(bytes) \in Nat /\ Len(buf) \in Nat /\ p \in Nat
      /\ HeaderSize \in Nat \ {0} /\ MaxByte \in Nat
  BY LenProperties, FramingAssumption
<1>1. Len(buf) >= HeaderSize /\ buf[HeaderSize] <= Len(buf) - HeaderSize
  BY DEF ReadPacketSize
<1>2. size = HeaderSize + buf[HeaderSize]
  BY <1>1 DEF ReadPacketSize
<1>3. buf[HeaderSize] \in Nat
  BY <1>0, <1>1, ElementOfSeq DEF Byte
<1>4. bytes[p + 1] # Pad
  BY <1>0, <1>1
<1>5. bytes[p + 1 + HeaderSize - 1] = buf[HeaderSize]
  <2>1. p + 1 + HeaderSize - 1 = p + HeaderSize
    BY <1>0
  <2>2. HeaderSize \in 1 .. Len(buf)
    BY <1>0, <1>1
  <2>3. QED
    BY <2>1, <2>2
<1>6. p + 1 + HeaderSize + bytes[p + 1 + HeaderSize - 1] = p + size + 1
  BY <1>0, <1>2, <1>3, <1>5
<1>7. size \in 1 .. Len(buf)
  BY <1>0, <1>1, <1>2, <1>3
<1>8. /\ p + 1 \in 1 .. Len(bytes) + 1 /\ ~ (p + 1 > Len(bytes))
      /\ ~ (p + 1 + HeaderSize - 1 > Len(bytes))
      /\ ~ (p + size + 1 > Len(bytes) + 1)
  BY <1>0, <1>1, <1>7
<1> DEFINE next == p + size + 1
           w == Walk(bytes)
<1>9. SubSeq(bytes, p + 1, next - 1) = SubSeq(buf, 1, size)
  <2> HIDE DEF size
  <2> QED BY <1>0, <1>7, FollowingSubSeq
<1> HIDE DEF size, next, w
<1>10. /\ p + 1 + HeaderSize + bytes[p + 1 + HeaderSize - 1] = next
       /\ ~ (next > Len(bytes) + 1)
  BY <1>6, <1>8 DEF next
<1>11. PacketsAt(bytes, w, p + 1) =
          << SubSeq(bytes, p + 1, next - 1) >> \o w[next]
  BY <1>4, <1>8, <1>10, Zenon DEF PacketsAt
<1>12. w[p + 1] = PacketsAt(bytes, w, p + 1)
  BY <1>8, WalkEquation DEF w
<1>13. w[p + 1] = << SubSeq(buf, 1, size) >> \o w[next]
  BY <1>9, <1>11, <1>12
<1>14. w[p + 1] = PacketsFrom(bytes, p)
  BY PacketsFromIsWalk DEF w
<1>15. w[next] = PacketsFrom(bytes, p + size)
  BY PacketsFromIsWalk DEF w, next
<1>16. QED
  BY <1>13, <1>14, <1>15 DEF size

(* Where the rest of the bytes is empty or an incomplete packet, the walk  *)
(* finds nothing.                                                          *)
LEMMA IncompleteWalk ==
  ASSUME NEW bytes \in Seq(Byte), NEW p \in 0 .. Len(bytes),
         NEW buf \in Seq(Byte), Len(buf) = Len(bytes) - p,
         \A i \in 1 .. Len(buf) : buf[i] = bytes[p + i],
         ReadPacketSize(buf) = 0, buf # << >> => buf[1] # Pad
  PROVE  PacketsFrom(bytes, p) = << >>
<1>0. /\ Len(bytes) \in Nat /\ Len(buf) \in Nat /\ p \in Nat
      /\ HeaderSize \in Nat \ {0} /\ MaxByte \in Nat
  BY LenProperties, FramingAssumption
<1>1. CASE buf = << >>
  <2>1. p = Len(bytes)
    BY <1>0, <1>1, EmptySeq
  <2>2. QED
    BY <2>1, WalkAtEnd
<1>2. CASE buf # << >>
  <2>1. Len(buf) # 0
    BY <1>2, EmptySeq
  <2>2. bytes[p + 1] # Pad
    BY <1>0, <1>2, <2>1
  <2>3. p + 1 \in 1 .. Len(bytes) + 1 /\ ~ (p + 1 > Len(bytes))
    BY <1>0, <2>1
  <2>4. p + 1 + HeaderSize - 1 = p + HeaderSize
    BY <1>0
  <2>5. CASE Len(buf) >= HeaderSize
    <3>1. bytes[p + HeaderSize] = buf[HeaderSize]
      BY <1>0, <2>5
    <3>2. buf[HeaderSize] \in 0 .. MaxByte
      BY <1>0, <2>5, ElementOfSeq DEF Byte
    <3>3. ~ (buf[HeaderSize] <= Len(buf) - HeaderSize)
      BY <1>0, <2>5, <3>2 DEF ReadPacketSize
    <3>4. p + 1 + HeaderSize + bytes[p + 1 + HeaderSize - 1] > Len(bytes) + 1
      BY <1>0, <2>4, <3>1, <3>2, <3>3
    <3>5. Walk(bytes)[p + 1] = << >>
      BY <2>2, <2>3, <3>4, WalkEquation DEF PacketsAt
    <3>6. QED
      BY <3>5, PacketsFromIsWalk
  <2>6. CASE ~ (Len(buf) >= HeaderSize)
    <3>1. p + 1 + HeaderSize - 1 > Len(bytes)
      BY <1>0, <2>4, <2>6
    <3>2. Walk(bytes)[p + 1] = << >>
      BY <2>2, <2>3, <3>1, WalkEquation DEF PacketsAt
    <3>3. QED
      BY <3>2, PacketsFromIsWalk
  <2>7. QED
    BY <2>5, <2>6
<1>3. QED
  BY <1>1, <1>2

(* Giving away the first of the packets to come *)
LEMMA OneMorePacket ==
  ASSUME NEW done \in Packs, NEW packet \in Seq(Byte), NEW later \in Packs
  PROVE  done \o (<< packet >> \o later) = Append(done, packet) \o later
<1> DEFINE P == Seq(Byte)
<1>1. done \in Seq(P) /\ packet \in P /\ later \in Seq(P)
  BY DEF Packs
<1> HIDE DEF P
<1>2. QED
  BY <1>1

(* Those given away are the first of all. *)
LEMMA FirstPackets ==
  ASSUME NEW done \in Packs, NEW later \in Packs
  PROVE  /\ Len(done) <= Len(done \o later)
         /\ done = SubSeq(done \o later, 1, Len(done))
<1> DEFINE P == Seq(Byte)
           all == done \o later
           first == SubSeq(all, 1, Len(done))
<1>1. done \in Seq(P) /\ later \in Seq(P)
  BY DEF Packs
<1> HIDE DEF P
<1>2. Len(done) \in Nat /\ Len(later) \in Nat
  BY <1>1, LenProperties
<1>3. /\ all \in Seq(P) /\ Len(all) = Len(done) + Len(later)
      /\ \A i \in 1 .. Len(done) + Len(later) :
           all[i] = IF i <= Len(done) THEN done[i] ELSE later[i - Len(done)]
  BY <1>1, ConcatProperties
<1> HIDE DEF all
<1>4. \A i \in 1 .. Len(done) : all[i] = done[i] /\ all[i] \in P
  BY <1>1, <1>2, <1>3, ElementOfSeq
<1>5. /\ first \in Seq(P)
      /\ Len(first) = IF 1 <= Len(done) THEN Len(done) - 1 + 1 ELSE 0
      /\ \A i \in 1 .. Len(done) - 1 + 1 : first[i] = all[1 + i - 1]
  BY <1>2, <1>4, SubSeqProperties
<1> HIDE DEF first
<1>6. Len(first) = Len(done) /\ \A i \in 1 .. Len(done) : first[i] = done[i]
  BY <1>2, <1>4, <1>5
<1>7. first = done
  BY <1>1, <1>5, <1>6, SeqEqual
<1>8. QED
  BY <1>2, <1>3, <1>7 DEF all, first

(***************************************************************************)
(* One turn of the packet loop, as the walk sees it: when the packets given*)
(* away so far and those the walk finds after p octets are the packets of  *)
(* bytes, they still are after one more packet and the padding behind it.  *)
(***************************************************************************)
LEMMA DeliverWalk ==
  ASSUME NEW bytes \in Seq(Byte), NEW p \in 0 .. Len(bytes),
         NEW buf \in Seq(Byte), Len(buf) <= Len(bytes) - p,
         \A i \in 1 .. Len(buf) : buf[i] = bytes[p + i],
         ReadPacketSize(buf) > 0, buf[1] # Pad,
         NEW n \in 0 .. Len(buf) - ReadPacketSize(buf),
         \A i \in 1 .. n : buf[ReadPacketSize(buf) + i] = Pad,
         NEW done \in Packs,
         Packets(bytes) = done \o PacketsFrom(bytes, p)
  PROVE  Packets(bytes) =
           Append(done, SubSeq(buf, 1, ReadPacketSize(buf))) \o
             PacketsFrom(bytes, p + (ReadPacketSize(buf) + n))
<1> DEFINE size == ReadPacketSize(buf)
           packet == SubSeq(buf, 1, size)
           later == PacketsFrom(bytes, p + (size + n))
<1>0. Len(bytes) \in Nat /\ Len(buf) \in Nat /\ size \in 1 .. Len(buf)
  BY LenProperties, ReadPacketSizeProperties
<1>1. PacketsFrom(bytes, p) = << packet >> \o PacketsFrom(bytes, p + size)
  BY PacketWalk
<1>2. packet \in Seq(Byte)
  <2>1. \A k \in 1 .. size : buf[k] \in Byte
    BY <1>0, ElementOfSeq
  <2> HIDE DEF Byte, size
  <2>2. QED
    BY <1>0, <2>1, SubSeqProperties
<1>3. PacketsFrom(bytes, p + size) = later
  <2> HIDE DEF size
  <2>1. p + size \in 0 .. Len(bytes) /\ n \in 0 .. Len(bytes) - (p + size)
    BY <1>0 DEF size
  <2>2. ASSUME NEW i \in 1 .. n
        PROVE  bytes[(p + size) + i] = Pad
    <3>1. size + i \in 1 .. Len(buf) /\ p + (size + i) = (p + size) + i
      BY <1>0 DEF size
    <3>2. QED
      BY <3>1 DEF size
  <2>3. (p + size) + n = p + (size + n)
    BY <1>0
  <2>4. QED
    BY <2>1, <2>2, <2>3, SkipWalk
<1>4. later \in Packs
  <2>1. p + (size + n) \in 0 .. Len(bytes)
    BY <1>0
  <2>2. QED
    BY <2>1, PacketsFromTyped
<1> HIDE DEF size, packet, later
<1>5. Packets(bytes) = done \o (<< packet >> \o later)
  BY <1>1, <1>3
<1>6. QED
  BY <1>2, <1>4, <1>5, OneMorePacket DEF size, packet, later

-----------------------------------------------------------------------------
(* buf is what bytes has after the first p. *)
Follows(buf, bytes, p) ==
  /\ Len(buf) <= Len(bytes) - p
  /\ \A i \in 1 .. Len(buf) : buf[i] = bytes[p + i]

(* Entering the handler keeps its invariant. *)
LEMMA EnterKeepsHandle ==
  ASSUME HandleInv, NEW chunk \in Seq(Byte), HandleEnter(chunk)
  PROVE  HandleInv'
<1>1. /\ readBuf \in Seq(Byte) /\ delivered \in Seq(Seq(Byte))
      /\ phase = "idle" /\ phase' = "loop" /\ delivered' = delivered
  BY DEF HandleInv, HandleTypeOK, HandleEnter
<1>2. /\ SkipPadding(chunk) \in Seq(Byte)
      /\ SkipPadding(chunk) # << >> => SkipPadding(chunk)[1] # Pad
  BY SkipPaddingProperties
<1>3. /\ readBuf \o chunk \in Seq(Byte)
      /\ readBuf # << >> => (readBuf \o chunk)[1] = readBuf[1]
  <2>1. /\ readBuf \o chunk \in Seq(Byte)
        /\ \A i \in 1 .. Len(readBuf) + Len(chunk) :
             (readBuf \o chunk)[i] = IF i <= Len(readBuf) THEN readBuf[i]
                                     ELSE chunk[i - Len(readBuf)]
    <3> HIDE DEF Byte
    <3> QED BY <1>1, ConcatProperties
  <2>2. readBuf # << >> => Len(readBuf) \in Nat \ {0}
    BY <1>1, EmptySeq
  <2>3. Len(chunk) \in Nat
    BY LenProperties
  <2>4. QED
    BY <2>1, <2>2, <2>3
<1>4. Pending' = rest'
  BY <1>1 DEF Pending
<1>5. CASE readBuf # << >>
  <2>1. readBuf' = readBuf \o chunk /\ rest' = readBuf \o chunk
    BY <1>5 DEF HandleEnter
  <2>2. Len(readBuf') \in Nat
    BY <1>3, <2>1, LenProperties
  <2>3. RestIsTailOfReadBuf'
    BY <2>1, <2>2 DEF RestIsTailOfReadBuf
  <2>4. NoPadAhead'
    BY <1>1, <1>3, <1>4, <1>5, <2>1 DEF HandleInv, NoPadAhead, Pending
  <2>5. QED
    BY <1>1, <1>3, <2>1, <2>3, <2>4
       DEF HandleInv, HandleTypeOK, Phases, NoWholePacketKept
<1>6. CASE readBuf = << >>
  <2>1. readBuf' = readBuf /\ rest' = SkipPadding(chunk)
    BY <1>6 DEF HandleEnter
  <2>2. RestIsTailOfReadBuf' /\ NoPadAhead'
    BY <1>2, <1>4, <1>6, <2>1 DEF RestIsTailOfReadBuf, NoPadAhead
  <2>3. QED
    BY <1>1, <1>2, <2>1, <2>2
       DEF HandleInv, HandleTypeOK, Phases, NoWholePacketKept
<1>7. QED
  BY <1>5, <1>6

(***************************************************************************)
(* Entering the handler with the next bytes: what is pending afterwards    *)
(* still follows in the stream, and what was skipped was padding, so that  *)
(* the packets to come are the same.                                       *)
(***************************************************************************)
LEMMA EnterFollows ==
  ASSUME HandleInv, NEW chunk \in Seq(Byte), HandleEnter(chunk),
         NEW bytes \in Seq(Byte), NEW p \in 0 .. Len(bytes),
         Follows(Pending, bytes, p),
         Follows(chunk, bytes, p + Len(Pending))
  PROVE  LET run == Len(Pending) + Len(chunk) - Len(Pending')
         IN  /\ run \in 0 .. Len(chunk)
             /\ Len(Pending) \in Nat /\ Len(Pending') \in Nat
             /\ \A i \in 1 .. run : bytes[p + i] = Pad
             /\ Follows(Pending', bytes, p + run)
             /\ PacketsFrom(bytes, p) = PacketsFrom(bytes, p + run)
<1> DEFINE run == Len(Pending) + Len(chunk) - Len(Pending')
<1>0. /\ readBuf \in Seq(Byte) /\ Len(readBuf) \in Nat
      /\ Len(chunk) \in Nat /\ Len(bytes) \in Nat
      /\ phase = "idle" /\ phase' = "loop"
  BY LenProperties DEF HandleInv, HandleTypeOK, HandleEnter
<1>1. Pending = readBuf /\ Pending' = rest'
  BY <1>0 DEF Pending
<1>2. /\ Len(readBuf) <= Len(bytes) - p
      /\ \A i \in 1 .. Len(readBuf) : readBuf[i] = bytes[p + i]
      /\ Len(chunk) <= Len(bytes) - (p + Len(readBuf))
      /\ \A i \in 1 .. Len(chunk) : chunk[i] = bytes[(p + Len(readBuf)) + i]
  BY <1>1 DEF Follows
<1>3. /\ run \in 0 .. Len(chunk) /\ Len(Pending') \in Nat
      /\ \A i \in 1 .. run : bytes[p + i] = Pad
      /\ Follows(Pending', bytes, p + run)
  <2>1. CASE readBuf # << >>
    <3>1. rest' = readBuf \o chunk
      BY <2>1 DEF HandleEnter
    <3>2. /\ Len(rest') = Len(readBuf) + Len(chunk)
          /\ \A i \in 1 .. Len(readBuf) + Len(chunk) :
               rest'[i] = IF i <= Len(readBuf) THEN readBuf[i]
                          ELSE chunk[i - Len(readBuf)]
      <4> HIDE DEF Byte
      <4> QED BY <1>0, <3>1, ConcatProperties
    <3>3. run = 0
      BY <1>0, <1>1, <3>2
    <3>4. ASSUME NEW i \in 1 .. Len(rest')
          PROVE  rest'[i] = bytes[p + i]
      <4>0. i \in 1 .. Len(readBuf) + Len(chunk)
        BY <3>2
      <4>1. CASE i <= Len(readBuf)
        <5>1. i \in 1 .. Len(readBuf)
          BY <1>0, <4>0, <4>1
        <5>2. QED
          BY <1>2, <3>2, <4>0, <4>1, <5>1
      <4>2. CASE ~ (i <= Len(readBuf))
        <5>1. /\ i - Len(readBuf) \in 1 .. Len(chunk)
              /\ (p + Len(readBuf)) + (i - Len(readBuf)) = p + i
          BY <1>0, <4>0, <4>2
        <5>2. QED
          BY <1>2, <3>2, <4>0, <4>2, <5>1
      <4>3. QED
        BY <4>1, <4>2
    <3>5. Len(rest') <= Len(bytes) - p /\ Len(rest') \in Nat /\ p + 0 = p
      BY <1>0, <1>2, <3>2
    <3>6. QED
      BY <1>0, <1>1, <3>3, <3>4, <3>5 DEF Follows
  <2>2. CASE readBuf = << >>
    <3>1. rest' = SkipPadding(chunk)
      BY <2>2 DEF HandleEnter
    <3>2. /\ PadRun(chunk) \in 0 .. Len(chunk)
          /\ Len(rest') = Len(chunk) - PadRun(chunk)
          /\ \A i \in 1 .. Len(rest') : rest'[i] = chunk[PadRun(chunk) + i]
          /\ \A i \in 1 .. PadRun(chunk) : chunk[i] = Pad
      BY <3>1, SkipPaddingProperties
    <3>3. Len(readBuf) = 0
      BY <2>2, EmptySeq
    <3>4. run = PadRun(chunk) /\ p + Len(readBuf) = p
      BY <1>0, <1>1, <3>2, <3>3
    <3> HIDE DEF run
    <3>5. ASSUME NEW i \in 1 .. Len(rest')
          PROVE  rest'[i] = bytes[(p + run) + i]
      <4>1. run + i \in 1 .. Len(chunk) /\ p + (run + i) = (p + run) + i
        BY <1>0, <3>2, <3>4
      <4>2. QED
        BY <1>2, <3>2, <3>4, <4>1
    <3>6. ASSUME NEW i \in 1 .. run
          PROVE  bytes[p + i] = Pad
      <4>1. i \in 1 .. Len(chunk)
        BY <1>0, <3>2, <3>4
      <4>2. QED
        BY <1>2, <3>2, <3>4, <4>1
    <3>7. Len(rest') <= Len(bytes) - (p + run) /\ Len(rest') \in Nat
      BY <1>0, <1>2, <3>2, <3>3, <3>4
    <3>8. QED
      BY <1>1, <3>2, <3>4, <3>5, <3>6, <3>7 DEF Follows
  <2>3. QED
    BY <2>1, <2>2
<1> HIDE DEF run
<1>4. PacketsFrom(bytes, p) = PacketsFrom(bytes, p + run)
  <2>1. run \in 0 .. Len(bytes) - p
    BY <1>0, <1>2, <1>3
  <2>2. QED
    BY <1>3, <2>1, SkipWalk
<1>5. QED
  BY <1>0, <1>1, <1>3, <1>4 DEF run

(* Facts about one turn of the packet loop: how much of rest it consumes.  *)
LEMMA DeliverConsumes ==
  ASSUME HandleTypeOK, HandleDeliver
  PROVE  LET size == ReadPacketSize(rest)
             after == Drop(rest, size)
             used == size + PadRun(after)
         IN  /\ rest \in Seq(Byte) /\ rest' \in Seq(Byte)
             /\ Len(rest) \in Nat /\ Len(rest') \in Nat
             /\ size \in 1 .. Len(rest)
             /\ PadRun(after) \in 0 .. Len(rest) - size
             /\ Len(rest') = Len(rest) - used
             /\ used \in 1 .. Len(rest)
             /\ \A i \in 1 .. Len(rest') : rest'[i] = rest[used + i]
             /\ \A i \in 1 .. PadRun(after) : rest[size + i] = Pad
             /\ rest' # << >> => rest'[1] # Pad
<1> DEFINE size == ReadPacketSize(rest)
           after == Drop(rest, size)
           used == size + PadRun(after)
<1>0. rest \in Seq(Byte) /\ Len(rest) \in Nat
  BY LenProperties DEF HandleTypeOK
<1>1. size > 0 /\ rest' = SkipPadding(after)
  BY DEF HandleDeliver
<1>2. size \in 1 .. Len(rest)
  BY <1>0, <1>1, ReadPacketSizeProperties
<1> HIDE DEF size
<1>3. /\ after \in Seq(Byte) /\ Len(after) = Len(rest) - size
      /\ \A i \in 1 .. Len(rest) - size : after[i] = rest[size + i]
  BY <1>0, <1>2, DropProperties
<1> HIDE DEF after
<1>4. /\ rest' \in Seq(Byte)
      /\ PadRun(after) \in 0 .. Len(after)
      /\ Len(rest') = Len(after) - PadRun(after)
      /\ \A i \in 1 .. Len(rest') : rest'[i] = after[PadRun(after) + i]
      /\ rest' # << >> => rest'[1] # Pad
      /\ \A i \in 1 .. PadRun(after) : after[i] = Pad
  BY <1>1, <1>3, SkipPaddingProperties
<1>5. used \in 1 .. Len(rest) /\ Len(rest') = Len(rest) - used
  BY <1>0, <1>2, <1>3, <1>4
<1>6. ASSUME NEW i \in 1 .. Len(rest')
      PROVE  rest'[i] = rest[used + i]
  <2>1. PadRun(after) + i \in 1 .. Len(rest) - size
    BY <1>0, <1>2, <1>3, <1>4
  <2>2. size + (PadRun(after) + i) = used + i
    BY <1>2, <1>4
  <2>3. QED
    BY <1>3, <1>4, <2>1, <2>2
<1>7. ASSUME NEW i \in 1 .. PadRun(after)
      PROVE  rest[size + i] = Pad
  <2>1. i \in 1 .. Len(rest) - size
    BY <1>0, <1>2, <1>3, <1>4
  <2>2. QED
    BY <1>3, <1>4, <2>1
<1>8. Len(rest') \in Nat
  BY <1>4, LenProperties
<1>9. QED
  BY <1>0, <1>2, <1>3, <1>4, <1>5, <1>6, <1>7, <1>8 DEF size, after

(* One turn of the packet loop keeps the invariant of the handler. *)
LEMMA DeliverKeepsHandle ==
  ASSUME HandleInv, HandleDeliver
  PROVE  HandleInv'
<1> DEFINE size == ReadPacketSize(rest)
           used == size + PadRun(Drop(rest, size))
<1>0. /\ readBuf \in Seq(Byte) /\ Len(readBuf) \in Nat
      /\ delivered \in Seq(Seq(Byte)) /\ HandleTypeOK
  BY LenProperties DEF HandleInv, HandleTypeOK
<1>1. /\ phase # "idle" /\ phase' = "client" /\ readBuf' = readBuf
      /\ delivered' = Append(delivered, SubSeq(rest, 1, size))
  BY DEF HandleDeliver
<1>2. /\ rest \in Seq(Byte) /\ rest' \in Seq(Byte)
      /\ Len(rest) \in Nat /\ Len(rest') \in Nat
      /\ size \in 1 .. Len(rest)
      /\ used \in 1 .. Len(rest)
      /\ Len(rest') = Len(rest) - used
      /\ \A i \in 1 .. Len(rest') : rest'[i] = rest[used + i]
      /\ rest' # << >> => rest'[1] # Pad
  BY <1>0, DeliverConsumes
<1> HIDE DEF size, used
<1>3. HandleTypeOK'
  <2>1. SubSeq(rest, 1, size) \in Seq(Byte)
    <3>1. \A i \in 1 .. size : rest[i] \in Byte
      BY <1>2, ElementOfSeq
    <3> HIDE DEF Byte
    <3>2. QED
      BY <1>2, <3>1, SubSeqProperties
  <2>2. delivered' \in Seq(Seq(Byte))
    <3> HIDE DEF Byte
    <3> QED BY <1>0, <1>1, <2>1, AppendProperties
  <2>3. QED
    BY <1>0, <1>1, <1>2, <2>2 DEF HandleTypeOK, Phases
<1>4. RestIsTailOfReadBuf'
  <2> SUFFICES ASSUME readBuf # << >>
               PROVE  /\ Len(rest') <= Len(readBuf)
                      /\ \A i \in 1 .. Len(rest') :
                           rest'[i] = readBuf[Len(readBuf) - Len(rest') + i]
    BY <1>1 DEF RestIsTailOfReadBuf
  <2>1. /\ Len(rest) <= Len(readBuf)
        /\ \A i \in 1 .. Len(rest) :
             rest[i] = readBuf[Len(readBuf) - Len(rest) + i]
    BY <1>1 DEF HandleInv, RestIsTailOfReadBuf
  <2>2. Len(rest') <= Len(readBuf)
    BY <1>0, <1>2, <2>1
  <2>3. ASSUME NEW i \in 1 .. Len(rest')
        PROVE  rest'[i] = readBuf[Len(readBuf) - Len(rest') + i]
    <3>1. used + i \in 1 .. Len(rest)
      BY <1>2
    <3>2. rest'[i] = readBuf[Len(readBuf) - Len(rest) + (used + i)]
      BY <1>2, <2>1, <3>1
    <3>3. Len(readBuf) - Len(rest) + (used + i) = Len(readBuf) - Len(rest') + i
      BY <1>0, <1>2
    <3>4. QED
      BY <3>2, <3>3
  <2>4. QED
    BY <2>2, <2>3
<1>5. NoPadAhead' /\ NoWholePacketKept'
  BY <1>1, <1>2 DEF NoPadAhead, Pending, NoWholePacketKept
<1>6. QED
  BY <1>3, <1>4, <1>5 DEF HandleInv

(***************************************************************************)
(* One turn of the packet loop moves the first of the packets to come to   *)
(* those delivered, and what is pending still follows in the stream.       *)
(***************************************************************************)
LEMMA DeliverFollows ==
  ASSUME HandleInv, HandleDeliver,
         NEW bytes \in Seq(Byte), NEW p \in 0 .. Len(bytes),
         Follows(Pending, bytes, p)
  PROVE  LET used == Len(Pending) - Len(Pending')
         IN  /\ used \in 1 .. Len(Pending)
             /\ Len(Pending) \in Nat /\ Len(Pending') \in Nat
             /\ Follows(Pending', bytes, p + used)
             /\ Packets(bytes) = delivered \o PacketsFrom(bytes, p)
                  => Packets(bytes) = delivered' \o PacketsFrom(bytes, p + used)
<1> DEFINE size == ReadPacketSize(rest)
           run == PadRun(Drop(rest, size))
           used == size + run
<1>0. HandleTypeOK /\ delivered \in Packs /\ Len(bytes) \in Nat
  BY LenProperties DEF HandleInv, HandleTypeOK, Packs
<1>1. /\ phase # "idle" /\ phase' = "client" /\ size > 0
      /\ delivered' = Append(delivered, SubSeq(rest, 1, size))
  BY DEF HandleDeliver
<1>2. Pending = rest /\ Pending' = rest'
  BY <1>1 DEF Pending
<1>3. /\ rest \in Seq(Byte) /\ Len(rest) \in Nat /\ Len(rest') \in Nat
      /\ size \in 1 .. Len(rest)
      /\ run \in 0 .. Len(rest) - size
      /\ used \in 1 .. Len(rest)
      /\ Len(rest') = Len(rest) - used
      /\ \A i \in 1 .. Len(rest') : rest'[i] = rest[used + i]
      /\ \A i \in 1 .. run : rest[size + i] = Pad
  BY <1>0, DeliverConsumes
<1>4. /\ Len(rest) <= Len(bytes) - p
      /\ \A i \in 1 .. Len(rest) : rest[i] = bytes[p + i]
  BY <1>2 DEF Follows
<1>5. rest[1] # Pad
  <2>1. rest # << >>
    BY <1>3, EmptySeq
  <2>2. QED
    BY <1>2, <2>1 DEF HandleInv, NoPadAhead
<1>6. Packets(bytes) = delivered \o PacketsFrom(bytes, p)
        => Packets(bytes) = delivered' \o PacketsFrom(bytes, p + used)
  BY <1>0, <1>1, <1>3, <1>4, <1>5, DeliverWalk
<1> HIDE DEF size, run, used
<1>7. used = Len(Pending) - Len(Pending')
  BY <1>2, <1>3
<1>8. Follows(rest', bytes, p + used)
  <2>1. Len(rest') <= Len(bytes) - (p + used)
    BY <1>0, <1>3, <1>4
  <2>2. ASSUME NEW i \in 1 .. Len(rest')
        PROVE  rest'[i] = bytes[(p + used) + i]
    <3>1. used + i \in 1 .. Len(rest) /\ p + (used + i) = (p + used) + i
      BY <1>3
    <3>2. QED
      BY <1>3, <1>4, <3>1
  <2>3. QED
    BY <2>1, <2>2 DEF Follows
<1>9. QED
  BY <1>2, <1>3, <1>6, <1>7, <1>8

(* Leaving the handler: read_buf is left with exactly what is pending.     *)
LEMMA ReturnKeepsPending ==
  ASSUME HandleInv, HandleReturn
  PROVE  readBuf' = rest
<1>0. /\ readBuf \in Seq(Byte) /\ rest \in Seq(Byte)
      /\ Len(readBuf) \in Nat /\ Len(rest) \in Nat
  BY LenProperties DEF HandleInv, HandleTypeOK
<1>1. readBuf' = Residue /\ phase # "idle"
  BY DEF HandleReturn
<1>2. CASE rest # << >> /\ readBuf # << >>
  <2> DEFINE gone == Len(readBuf) - Len(rest)
  <2>1. /\ Len(rest) <= Len(readBuf)
        /\ \A i \in 1 .. Len(rest) : rest[i] = readBuf[gone + i]
    BY <1>1, <1>2 DEF HandleInv, RestIsTailOfReadBuf
  <2>2. gone \in 0 .. Len(readBuf) /\ Len(readBuf) - gone = Len(rest)
    BY <1>0, <2>1
  <2>3. readBuf' = Drop(readBuf, gone)
    BY <1>1, <1>2 DEF Residue
  <2> HIDE DEF gone
  <2>4. /\ Drop(readBuf, gone) \in Seq(Byte)
        /\ Len(Drop(readBuf, gone)) = Len(rest)
        /\ \A i \in 1 .. Len(rest) : Drop(readBuf, gone)[i] = rest[i]
    BY <1>0, <2>1, <2>2, DropProperties
  <2>5. Drop(readBuf, gone) = rest
    <3> HIDE DEF Byte
    <3> QED BY <1>0, <2>4, SeqEqual
  <2>6. QED
    BY <2>3, <2>5
<1>3. QED
  BY <1>1, <1>2 DEF Residue

(* The code after the loop keeps the invariant, and what is pending. *)
LEMMA ReturnKeepsHandle ==
  ASSUME HandleInv, HandleReturn
  PROVE  HandleInv' /\ Pending' = Pending
<1>1. /\ phase # "idle" /\ phase' = "idle" /\ rest' = << >>
      /\ ReadPacketSize(rest) = 0 /\ delivered' = delivered
  BY DEF HandleReturn
<1>2. readBuf' = rest
  BY ReturnKeepsPending
<1>3. Pending = rest /\ Pending' = rest
  BY <1>1, <1>2 DEF Pending
<1>4. << >> \in Seq(Byte)
  BY EmptySeq
<1>5. QED
  BY <1>1, <1>2, <1>3, <1>4
     DEF HandleInv, HandleTypeOK, Phases, RestIsTailOfReadBuf, NoPadAhead,
         NoWholePacketKept

(* There is no packet in no bytes. *)
LEMMA NoPacketInNothing == ReadPacketSize(<< >>) = 0
<1>1. Len(<< >>) = 0 /\ ~ (0 >= HeaderSize)
  BY EmptySeq, FramingAssumption
<1>2. QED
  BY <1>1 DEF ReadPacketSize

(* What stays for the next read is the beginning of one packet. *)
LEMMA ResidueIsShort ==
  ASSUME HandleInv
  PROVE  ResidueIncomplete
<1> SUFFICES ASSUME phase = "idle"
             PROVE  /\ readBuf # << >> => readBuf[1] # Pad
                    /\ ReadPacketSize(readBuf) = 0
                    /\ Len(readBuf) < HeaderSize + MaxByte
  BY DEF ResidueIncomplete
<1>1. readBuf \in Seq(Byte) /\ ReadPacketSize(readBuf) = 0
  BY DEF HandleInv, HandleTypeOK, NoWholePacketKept
<1>2. QED
  BY <1>1, IncompleteIsShort DEF HandleInv, NoPadAhead, Pending
=============================================================================
