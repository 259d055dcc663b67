----------------------- MODULE Pn54xNfcAdapterProofs -----------------------
(***************************************************************************)
(* Proofs about the power logic of Pn54xNfcAdapter.tla: what is known at   *)
(* rest and inside every call, for a base class that calls back from a     *)
(* notification and for one that does not; and, for the latter, that power *)
(* goes off only when it is not used and that PowerContract.tla is kept.   *)
(***************************************************************************)
EXTENDS Pn54xNfcAdapter, SequenceTheorems, TLAPS

-----------------------------------------------------------------------------
(***************************************************************************)
(* Stacks of frames.  There is at most one request on a stack, and the     *)
(* halves of a reset are above everything else.                            *)
(***************************************************************************)
OnStack(s) == { s[i] : i \in 1 .. Len(s) }

RequestOn(s) ==
  IF OnStack(s) \cap RequestCalls = {}
  THEN "none"
  ELSE CHOOSE f \in RequestCalls : f \in OnStack(s)

(* state_check() was called back by the core inside the request. *)
CheckAbove(s) ==
  \E i, j \in 1 .. Len(s) : i < j /\ s[i] \in RequestCalls /\ s[j] = "check"

InReset(s) == s # << >> /\ s[Len(s)] \in { "reset", "recheck" }

Shaped(s) ==
  /\ \A i, j \in 1 .. Len(s) :
       s[i] \in RequestCalls /\ s[j] \in RequestCalls => i = j
  /\ \A i \in 1 .. Len(s) : s[i] \in { "reset", "recheck" } => i = Len(s)

LEMMA RequestFacts ==
  ASSUME NEW s, Shaped(s)
  PROVE  /\ RequestOn(s) \in RequestCalls \cup { "none" }
         /\ \A f \in RequestCalls : RequestOn(s) = f <=> f \in OnStack(s)
<1>1. "none" \notin RequestCalls
  BY DEF RequestCalls
<1>2. CASE OnStack(s) \cap RequestCalls = {}
  BY <1>1, <1>2 DEF RequestOn
<1>3. CASE OnStack(s) \cap RequestCalls # {}
  <2>1. RequestOn(s) \in RequestCalls /\ RequestOn(s) \in OnStack(s)
    BY <1>3 DEF RequestOn
  <2>2. ASSUME NEW f \in RequestCalls, f \in OnStack(s)
        PROVE  RequestOn(s) = f
    <3>1. PICK i \in 1 .. Len(s) : f = s[i]
      BY <2>2 DEF OnStack
    <3>2. PICK j \in 1 .. Len(s) : RequestOn(s) = s[j]
      BY <2>1 DEF OnStack
    <3>3. QED
      BY <2>1, <2>2, <3>1, <3>2 DEF Shaped
  <2>3. QED
    BY <2>1, <2>2
<1>4. QED
  BY <1>2, <1>3

(* A frame is pushed onto a core call, or starts a stack. *)
LEMMA PushFacts ==
  ASSUME NEW s \in Seq(Frames), Shaped(s), ~InReset(s), NEW f \in Frames,
         f \in RequestCalls => RequestOn(s) = "none"
  PROVE  LET t == Append(s, f)
         IN  /\ t \in Seq(Frames) /\ t # << >> /\ t[Len(t)] = f
             /\ Shaped(t)
             /\ OnStack(t) = OnStack(s) \cup { f }
             /\ RequestOn(t) = IF f \in RequestCalls THEN f ELSE RequestOn(s)
             /\ CheckAbove(t) <=>
                  CheckAbove(s) \/ (f = "check" /\ RequestOn(s) # "none")
<1> DEFINE t == Append(s, f)
<1>1. /\ t \in Seq(Frames) /\ Len(t) = Len(s) + 1 /\ Len(s) \in Nat
      /\ \A i \in 1 .. Len(s) : t[i] = s[i]
      /\ t[Len(t)] = f
      /\ s = << >> <=> Len(s) = 0
      /\ t = << >> <=> Len(t) = 0
  BY AppendProperties, LenProperties, EmptySeq
<1>2. \A i \in 1 .. Len(s) : s[i] \notin { "reset", "recheck" }
  BY <1>1 DEF Shaped, InReset
<1>3. /\ RequestOn(s) \in RequestCalls \cup { "none" }
      /\ \A g \in RequestCalls : RequestOn(s) = g <=> g \in OnStack(s)
      /\ "none" \notin RequestCalls /\ "check" \notin RequestCalls
  BY RequestFacts DEF RequestCalls
<1>4. RequestOn(s) = "none" <=> \A i \in 1 .. Len(s) : s[i] \notin RequestCalls
  BY <1>3 DEF OnStack
<1> HIDE DEF t
<1>5. Shaped(t)
  <2>1. ASSUME NEW i \in 1 .. Len(t), NEW j \in 1 .. Len(t),
               t[i] \in RequestCalls, t[j] \in RequestCalls
        PROVE  i = j
    <3>1. CASE f \in RequestCalls
      <4>1. \A k \in 1 .. Len(s) : t[k] \notin RequestCalls
        BY <1>1, <1>4, <3>1
      <4>2. QED
        BY <1>1, <2>1, <4>1
    <3>2. CASE f \notin RequestCalls
      <4>1. i \in 1 .. Len(s) /\ j \in 1 .. Len(s)
        BY <1>1, <2>1, <3>2
      <4>2. s[i] \in RequestCalls /\ s[j] \in RequestCalls
        BY <1>1, <2>1, <4>1
      <4>3. QED
        BY <4>1, <4>2 DEF Shaped
    <3>3. QED
      BY <3>1, <3>2
  <2>2. QED
    BY <1>1, <1>2, <2>1 DEF Shaped
<1>6. OnStack(t) = OnStack(s) \cup { f }
  BY <1>1 DEF OnStack
<1>7. RequestOn(t) = IF f \in RequestCalls THEN f ELSE RequestOn(s)
  <2>1. /\ RequestOn(t) \in RequestCalls \cup { "none" }
        /\ \A g \in RequestCalls : RequestOn(t) = g <=> g \in OnStack(t)
    BY <1>5, RequestFacts
  <2>2. QED
    BY <1>3, <1>6, <2>1
<1>8. CheckAbove(t) <=> CheckAbove(s) \/ (f = "check" /\ RequestOn(s) # "none")
  <2>1. ASSUME CheckAbove(s)
        PROVE  CheckAbove(t)
    <3>1. PICK i, j \in 1 .. Len(s) :
            i < j /\ s[i] \in RequestCalls /\ s[j] = "check"
      BY <2>1 DEF CheckAbove
    <3>2. i \in 1 .. Len(t) /\ j \in 1 .. Len(t)
      BY <1>1
    <3>3. QED
      BY <1>1, <3>1, <3>2 DEF CheckAbove
  <2>2. ASSUME f = "check", RequestOn(s) # "none"
        PROVE  CheckAbove(t)
    <3>1. PICK i \in 1 .. Len(s) : s[i] \in RequestCalls
      BY <1>4, <2>2
    <3>2. i \in 1 .. Len(t) /\ Len(t) \in 1 .. Len(t) /\ i < Len(t)
      BY <1>1
    <3>3. QED
      BY <1>1, <2>2, <3>1, <3>2 DEF CheckAbove
  <2>3. ASSUME CheckAbove(t), ~CheckAbove(s)
        PROVE  f = "check" /\ RequestOn(s) # "none"
    <3>1. PICK i, j \in 1 .. Len(t) :
            i < j /\ t[i] \in RequestCalls /\ t[j] = "check"
      BY <2>3 DEF CheckAbove
    <3>2. i \in 1 .. Len(s) /\ s[i] \in RequestCalls
      BY <1>1, <3>1
    <3>3. j \notin 1 .. Len(s)
      BY <1>1, <2>3, <3>1, <3>2 DEF CheckAbove
    <3>4. QED
      BY <1>1, <1>4, <3>1, <3>2, <3>3
  <2>4. QED
    BY <2>1, <2>2, <2>3
<1>9. QED
  BY <1>1, <1>5, <1>6, <1>7, <1>8 DEF t

(* A frame returns: below it is no reset, and below a request no other.    *)
LEMMA PopFacts ==
  ASSUME NEW s \in Seq(Frames), Shaped(s), s # << >>
  PROVE  LET t == SubSeq(s, 1, Len(s) - 1)
             f == s[Len(s)]
         IN  /\ t \in Seq(Frames) /\ f \in Frames
             /\ Shaped(t) /\ ~InReset(t)
             /\ OnStack(s) = OnStack(t) \cup { f }
             /\ RequestOn(t) =
                  IF f \in RequestCalls THEN "none" ELSE RequestOn(s)
             /\ f \in RequestCalls => RequestOn(s) = f
             /\ CheckAbove(t) => CheckAbove(s) /\ f \notin RequestCalls
             /\ f = "check" /\ RequestOn(s) # "none" => CheckAbove(s)
             /\ OnStack(t) \cap { "reset", "recheck" } = {}
<1> DEFINE t == SubSeq(s, 1, Len(s) - 1)
           f == s[Len(s)]
<1>1. /\ Len(s) \in Nat \ {0}
      /\ s = << >> <=> Len(s) = 0
  BY LenProperties, EmptySeq
<1>2. \A i \in 1 .. Len(s) : s[i] \in Frames
  BY ElementOfSeq
<1>3. /\ t \in Seq(Frames) /\ Len(t) = Len(s) - 1
      /\ \A i \in 1 .. Len(s) - 1 : t[i] = s[i]
  <2>1. /\ SubSeq(s, 1, Len(s) - 1) \in Seq(Frames)
        /\ Len(SubSeq(s, 1, Len(s) - 1)) =
             IF 1 <= Len(s) - 1 THEN Len(s) - 1 - 1 + 1 ELSE 0
        /\ \A i \in 1 .. Len(s) - 1 - 1 + 1 :
             SubSeq(s, 1, Len(s) - 1)[i] = s[1 + i - 1]
    BY <1>1, <1>2, SubSeqProperties
  <2>2. Len(t) = Len(s) - 1
    <3>1. \A m \in Nat : (IF 1 <= m THEN m - 1 + 1 ELSE 0) = m
      OBVIOUS
    <3>2. Len(s) - 1 \in Nat
      BY <1>1
    <3>3. QED
      BY <2>1, <3>1, <3>2
  <2>3. \A i \in 1 .. Len(s) - 1 : t[i] = s[i]
    <3>1. \A i \in 1 .. Len(s) - 1 :
            i \in 1 .. Len(s) - 1 - 1 + 1 /\ 1 + i - 1 = i
      BY <1>1
    <3>2. QED
      BY <2>1, <3>1
  <2>4. QED
    BY <2>1, <2>2, <2>3
<1>4. t = << >> <=> Len(t) = 0
  BY <1>3, EmptySeq
<1> HIDE DEF t
<1>5. Shaped(t) /\ ~InReset(t)
  BY <1>1, <1>3, <1>4 DEF Shaped, InReset
<1>6. OnStack(s) = OnStack(t) \cup { f }
  BY <1>1, <1>3 DEF OnStack
<1>7. f \in RequestCalls => OnStack(t) \cap RequestCalls = {}
  BY <1>1, <1>3 DEF OnStack, Shaped
<1>8. RequestOn(t) = IF f \in RequestCalls THEN "none" ELSE RequestOn(s)
  <2>1. /\ RequestOn(t) \in RequestCalls \cup { "none" }
        /\ \A g \in RequestCalls : RequestOn(t) = g <=> g \in OnStack(t)
    BY <1>5, RequestFacts
  <2>2. /\ RequestOn(s) \in RequestCalls \cup { "none" }
        /\ \A g \in RequestCalls : RequestOn(s) = g <=> g \in OnStack(s)
    BY RequestFacts
  <2>3. "none" \notin RequestCalls
    BY DEF RequestCalls
  <2>4. QED
    BY <1>6, <1>7, <2>1, <2>2, <2>3
<1>9. f \in RequestCalls => RequestOn(s) = f
  BY <1>6, RequestFacts
<1>10. CheckAbove(t) => CheckAbove(s) /\ f \notin RequestCalls
  <2> SUFFICES ASSUME CheckAbove(t)
               PROVE  CheckAbove(s) /\ f \notin RequestCalls
    OBVIOUS
  <2>1. PICK i, j \in 1 .. Len(t) :
          i < j /\ t[i] \in RequestCalls /\ t[j] = "check"
    BY DEF CheckAbove
  <2>2. /\ i \in 1 .. Len(s) /\ j \in 1 .. Len(s)
        /\ s[i] \in RequestCalls /\ s[j] = "check"
    BY <1>1, <1>3, <2>1
  <2>3. t[i] \in OnStack(t)
    BY DEF OnStack
  <2>4. QED
    BY <1>7, <2>1, <2>2, <2>3 DEF CheckAbove
<1>11. ASSUME f = "check", RequestOn(s) # "none"
       PROVE  CheckAbove(s)
  <2>1. PICK i \in 1 .. Len(s) : s[i] \in RequestCalls
    BY <1>11, RequestFacts DEF OnStack
  <2>2. i # Len(s)
    BY <1>11, <2>1 DEF RequestCalls
  <2>3. i < Len(s) /\ Len(s) \in 1 .. Len(s)
    BY <1>1, <2>2
  <2>4. QED
    BY <1>11, <2>1, <2>3 DEF CheckAbove
<1>12. OnStack(t) \cap { "reset", "recheck" } = {}
  BY <1>1, <1>3 DEF OnStack, Shaped
<1>13. QED
  BY <1>1, <1>2, <1>3, <1>5, <1>6, <1>8, <1>9, <1>10, <1>11, <1>12 DEF t

(* The frame on top is on the stack, and without a stack there is none. *)
LEMMA EndFacts ==
  ASSUME NEW s \in Seq(Frames)
  PROVE  /\ s = << >> => OnStack(s) = {} /\ RequestOn(s) = "none"
                           /\ Shaped(s) /\ ~InReset(s)
         /\ s # << >> => s[Len(s)] \in OnStack(s)
         /\ RequestOn(s) = "none" => ~CheckAbove(s)
         /\ Shaped(s) /\ ~InReset(s) =>
              "reset" \notin OnStack(s) /\ "recheck" \notin OnStack(s)
<1>1. Len(s) \in Nat /\ (s = << >> <=> Len(s) = 0)
  BY LenProperties, EmptySeq
<1>2. s = << >> => OnStack(s) = {}
  BY <1>1 DEF OnStack
<1>3. s = << >> => RequestOn(s) = "none" /\ Shaped(s) /\ ~InReset(s)
  BY <1>1, <1>2 DEF RequestOn, Shaped, InReset
<1>4. s # << >> => s[Len(s)] \in OnStack(s)
  BY <1>1 DEF OnStack
<1>5. ASSUME RequestOn(s) = "none"
      PROVE  ~CheckAbove(s)
  <2>1. "none" \notin RequestCalls
    BY DEF RequestCalls
  <2>2. OnStack(s) \cap RequestCalls = {}
    BY <1>5, <2>1 DEF RequestOn
  <2>3. \A i \in 1 .. Len(s) : s[i] \notin RequestCalls
    BY <2>2 DEF OnStack
  <2>4. QED
    BY <2>3 DEF CheckAbove
<1>6. ASSUME Shaped(s), ~InReset(s)
      PROVE  "reset" \notin OnStack(s) /\ "recheck" \notin OnStack(s)
  BY <1>1, <1>6 DEF OnStack, Shaped, InReset
<1>7. QED
  BY <1>2, <1>3, <1>4, <1>5, <1>6

-----------------------------------------------------------------------------
(***************************************************************************)
(* The inductive invariant.  FramesKnow says what the frames of a stack s  *)
(* decided before they called the core, and still holds when they go on:   *)
(* c and n are the core's states, p is its progress.  What state_check()   *)
(* decided does not, if the base class may ask for power meanwhile.        *)
(***************************************************************************)
FramesKnow(s, c, n, p) ==
  /\ s = << >> => p = "none"
  /\ p = "under way" => n # "active"
  /\ RequestOn(s) = "off" \/ (~Reentrant /\ "check" \in OnStack(s)) =>
       ~needPower /\ c # "active"
  /\ "reset" \in OnStack(s) => powerOn
  /\ RequestOn(s) \in { "on", "restart" } => needPower /\ powerOn
  /\ RequestOn(s) = "wait" =>
       /\ ~needPower
       /\ IF p = "arrived" THEN c = n ELSE c = "active" /\ powerOn
  /\ CheckAbove(s) =>
       RequestOn(s) = "off" \/ (RequestOn(s) = "wait" /\ p = "arrived")

(* Answers are due to requests on the stack and to those that wait. *)
AnswersDue(s) ==
  /\ RequestOn(s) # "none" => owed = 1 /\ ~pending
  /\ pending => owed = 1
  /\ RequestOn(s) = "none" /\ ~pending => owed = 0

WaitingAgrees ==
  /\ pending => alive
  /\ alive =>
       /\ pending <=> switchPending
       /\ switchPending => powerOn /\ ~needPower

(* Power that is not needed is about to go off, or the core is busy. *)
OffIsComing ==
  alive /\ powerOn /\ ~needPower /\ current # "active" =>
    \E frame \in { "check", "off", "reset", "recheck" } :
      frame \in OnStack(calls)

NotifiedOrAboutTo(s) == powered = powerOn \/ RequestOn(s) = "restart"

ChipIsTrue(s) == faults = 0 /\ "reset" \notin OnStack(s) => chipOn = powerOn

(* The base class may call back, but not while the chip is being reset. *)
ToldIsOver(s) == told => Reentrant /\ ~InReset(s)

AdapterInv ==
  /\ TypeOK
  /\ ToldIsOver(calls)
  /\ calls # << >> => alive
  /\ Shaped(calls)
  /\ FramesKnow(calls, current, next, progress)
  /\ AnswersDue(calls)
  /\ WaitingAgrees
  /\ OffIsComing
  /\ alive => NotifiedOrAboutTo(calls) /\ ChipIsTrue(calls)

(* pn54x_io_set_power() that works does what it is told. *)
LEMMA ChipFacts ==
  ASSUME TypeOK, NEW switch \in Switches, ChipAfter(switch)
  PROVE  /\ faults' \in 0 .. MaxFaults /\ chipOn' \in BOOLEAN
         /\ faults' = 0 => faults = 0 /\ switch.works
         /\ switch = NoSwitch => chipOn' = chipOn /\ faults' = faults
         /\ switch.works /\ switch.call = "off" => ~chipOn'
         /\ switch.works /\ switch.call = "on" => chipOn'
<1>1. MaxFaults \in Nat /\ faults \in 0 .. MaxFaults /\ chipOn \in BOOLEAN
  BY AdapterAssumption DEF TypeOK
<1>2. switch.works \in BOOLEAN
  <2>1. CASE switch = NoSwitch
    BY <2>1 DEF NoSwitch
  <2>2. CASE switch \in [call : { "on", "off" }, works : BOOLEAN]
    BY <2>2
  <2>3. QED
    BY <2>1, <2>2 DEF Switches
<1>3. faults' \in 0 .. MaxFaults /\ (faults' = 0 => faults = 0 /\ switch.works)
  BY <1>1, <1>2 DEF ChipAfter
<1>4. switch = NoSwitch => chipOn' = chipOn /\ faults' = faults
  BY DEF ChipAfter, NoSwitch
<1>5. CASE switch.works /\ switch.call # "none"
  <2>1. chipOn' = (switch.call = "on")
    BY <1>5 DEF ChipAfter
  <2>2. QED
    BY <1>3, <1>4, <1>5, <2>1
<1>6. CASE ~(switch.works /\ switch.call # "none")
  <2>1. chipOn' = chipOn
    BY <1>6 DEF ChipAfter
  <2>2. QED
    BY <1>1, <1>3, <1>4, <1>6, <2>1
<1>7. QED
  BY <1>5, <1>6

(***************************************************************************)
(* state_check() in whatever state the core has got into, with the frames  *)
(* of s below it.                                                          *)
(***************************************************************************)
LEMMA StateCheckStep ==
  ASSUME NEW switch \in Switches, NEW s \in Seq(Frames),
         TypeOK, alive, alive' = alive,
         current' \in States, next' \in States, progress' \in Progress,
         Shaped(s), ~InReset(s),
         FramesKnow(s, current', next', progress'),
         AnswersDue(s), WaitingAgrees,
         NotifiedOrAboutTo(s), ChipIsTrue(s),
         ChipAfter(switch), StateCheck(switch, s)
  PROVE  AdapterInv'
<1>0. faults' \in 0 .. MaxFaults /\ chipOn' \in BOOLEAN
  BY ChipFacts
<1>1. /\ "reset" \notin OnStack(s) /\ "recheck" \notin OnStack(s)
      /\ RequestOn(s) \in RequestCalls \cup { "none" }
      /\ s = << >> => OnStack(s) = {}
  BY EndFacts, RequestFacts
<1>2. CASE /\ ~CanPowerOff
           /\ switch = NoSwitch
           /\ calls' = s
           /\ UNCHANGED selfVars /\ NotNotified
  <2>1. TypeOK'
    BY <1>0, <1>2 DEF TypeOK, selfVars, NotNotified
  <2>2. chipOn' = chipOn /\ faults' = faults
    BY <1>2, ChipFacts
  <2>3. OffIsComing'
    BY <1>2 DEF CanPowerOff, AtMostIdle, OffIsComing, selfVars
  <2>4. QED
    BY <1>2, <2>1, <2>2, <2>3
       DEF AdapterInv, FramesKnow, AnswersDue, WaitingAgrees,
           NotifiedOrAboutTo, ChipIsTrue, ToldIsOver, NotNotified, selfVars
<1>3. CASE /\ CanPowerOff
           /\ current' = "idle"
           /\ switch = NoSwitch
           /\ calls' = Append(s, "check")
           /\ UNCHANGED selfVars /\ NotNotified
  <2>1. /\ calls' \in Seq(Frames) /\ calls' # << >>
        /\ Shaped(calls')
        /\ OnStack(calls') = OnStack(s) \cup { "check" }
        /\ RequestOn(calls') = RequestOn(s)
        /\ CheckAbove(calls') <=> CheckAbove(s) \/ RequestOn(s) # "none"
    BY <1>3, PushFacts DEF Frames, CoreCalls, RequestCalls
  <2>2. TypeOK'
    BY <1>0, <1>3, <2>1 DEF TypeOK, selfVars, NotNotified
  <2>3. chipOn' = chipOn /\ faults' = faults
    BY <1>3, ChipFacts
  <2>4. RequestOn(s) \in { "none", "off", "wait" } /\ ~needPower
    BY <1>1, <1>3 DEF CanPowerOff, FramesKnow, RequestCalls
  <2>5. RequestOn(s) = "wait" => progress' = "arrived"
    BY <1>3 DEF FramesKnow
  <2>6. FramesKnow(calls, current, next, progress)'
    BY <1>1, <1>3, <2>1, <2>4, <2>5 DEF FramesKnow, selfVars
  <2>7. AnswersDue(calls)' /\ WaitingAgrees' /\ OffIsComing'
    BY <1>3, <2>1
       DEF AnswersDue, WaitingAgrees, OffIsComing,
           NotNotified, selfVars
  <2>8. (NotifiedOrAboutTo(calls) /\ ChipIsTrue(calls))'
    BY <1>1, <1>3, <2>1, <2>3, <2>4
       DEF NotifiedOrAboutTo, ChipIsTrue, NotNotified, selfVars
  <2>9. QED
    BY <1>3, <2>1, <2>2, <2>6, <2>7, <2>8
       DEF AdapterInv, ToldIsOver, NotNotified
<1>4. CASE /\ CanPowerOff
           /\ current' # "idle"
           /\ PowerOff(switch, switchPending)
           /\ switchPending' = FALSE
           /\ calls' = s
           /\ UNCHANGED needPower
  <2>1. /\ switch.call = "off"
        /\ powerOn' = FALSE /\ powered' = FALSE /\ told' = Reentrant
        /\ pending' = (pending /\ ~switchPending)
        /\ owed' = IF switchPending THEN owed - 1 ELSE owed
    BY <1>4 DEF PowerOff, Notify
  <2>2. ~needPower' /\ ~needPower
    BY <1>4 DEF CanPowerOff
  <2>3. pending' = FALSE /\ owed' \in -1 .. 1 /\ AnswersDue(calls)'
    <3>1. pending <=> switchPending
      BY DEF WaitingAgrees
    <3>2. CASE switchPending
      <4>1. owed' = owed - 1 /\ pending' = FALSE
        BY <2>1, <3>2
      <4>2. owed = 1
        BY <3>1, <3>2 DEF AnswersDue
      <4>3. owed' = 0 /\ calls' = s /\ RequestOn(s) = "none"
        BY <1>4, <3>1, <3>2, <4>1, <4>2 DEF AnswersDue
      <4>4. QED
        BY <4>1, <4>3 DEF AnswersDue
    <3>3. CASE ~switchPending
      BY <1>4, <2>1, <3>1, <3>3 DEF AnswersDue, TypeOK
    <3>4. QED
      BY <3>2, <3>3
  <2>4. TypeOK'
    BY <1>0, <1>4, <2>1, <2>3, AdapterAssumption DEF TypeOK
  <2>5. FramesKnow(calls, current, next, progress)'
    BY <1>1, <1>4, <2>2 DEF CanPowerOff, AtMostIdle, FramesKnow
  <2>6. WaitingAgrees' /\ OffIsComing' /\ NotifiedOrAboutTo(calls)'
    BY <1>4, <2>1, <2>3 DEF WaitingAgrees, OffIsComing, NotifiedOrAboutTo
  <2>7. ChipIsTrue(calls)'
    BY <1>0, <2>1, ChipFacts DEF ChipIsTrue
  <2>8. QED
    BY <1>4, <2>1, <2>3, <2>4, <2>5, <2>6, <2>7
       DEF AdapterInv, ToldIsOver
<1>5. QED
  BY <1>2, <1>3, <1>4 DEF StateCheck

-----------------------------------------------------------------------------
(* The core gets where it was going. *)
LEMMA CurrentStateChangedStep ==
  ASSUME AdapterInv,
         NEW switch \in Switches, ChipAfter(switch), CurrentStateChanged(switch)
  PROVE  AdapterInv'
<1>1. /\ alive /\ alive' = alive /\ current' = next /\ next' = next
      /\ progress' = IF calls = << >> THEN "none" ELSE "arrived"
      /\ calls # << >> => InCall(CoreCalls) /\ progress = "under way"
      /\ StateCheck(switch, calls)
  BY DEF CurrentStateChanged, MayArrive
<1>2. /\ TypeOK /\ calls \in Seq(Frames) /\ Shaped(calls)
      /\ AnswersDue(calls) /\ WaitingAgrees
      /\ NotifiedOrAboutTo(calls) /\ ChipIsTrue(calls)
      /\ FramesKnow(calls, current, next, progress)
  BY <1>1 DEF AdapterInv, TypeOK
<1>3. ~InReset(calls)
  BY <1>1 DEF InReset, InCall, CoreCalls, RequestCalls
<1>4. current' \in States /\ next' \in States /\ progress' \in Progress
  BY <1>1, <1>2 DEF TypeOK, Progress
<1>5. FramesKnow(calls, current', next', progress')
  BY <1>1, <1>2, EndFacts DEF FramesKnow
<1>6. QED
  BY <1>1, <1>2, <1>3, <1>4, <1>5, StateCheckStep

(* The core sets out: a chip reset begins, or state_check() follows. *)
LEMMA NextStateChangedStep ==
  ASSUME AdapterInv,
         NEW switch \in Switches, ChipAfter(switch),
         NEW state \in States, NextStateChanged(switch, state)
  PROVE  AdapterInv'
<1>1. /\ alive /\ alive' = alive /\ current' = current /\ next' = state
      /\ calls # << >> =>
           InCall(CoreCalls) /\ progress = "none" /\ state # "active"
      /\ progress' = IF calls = << >> THEN "none" ELSE "under way"
  BY DEF NextStateChanged, MaySetOut
<1>2. /\ TypeOK /\ calls \in Seq(Frames) /\ Shaped(calls)
      /\ AnswersDue(calls) /\ WaitingAgrees
      /\ NotifiedOrAboutTo(calls) /\ ChipIsTrue(calls)
      /\ FramesKnow(calls, current, next, progress)
  BY <1>1 DEF AdapterInv, TypeOK
<1>3. ~InReset(calls)
  BY <1>1 DEF InReset, InCall, CoreCalls, RequestCalls
<1>4. current' \in States /\ next' \in States /\ progress' \in Progress
  BY <1>1, <1>2 DEF TypeOK, Progress
<1>5. FramesKnow(calls, current', next', progress')
  BY <1>1, <1>2, EndFacts DEF FramesKnow
<1>6. CASE ResetsChip(state)
  <2>1. /\ calls' = Append(calls, "reset")
        /\ UNCHANGED selfVars /\ NotNotified
    BY <1>6 DEF NextStateChanged
  <2>2. /\ calls' \in Seq(Frames) /\ calls' # << >>
        /\ Shaped(calls')
        /\ OnStack(calls') = OnStack(calls) \cup { "reset" }
        /\ RequestOn(calls') = RequestOn(calls)
        /\ CheckAbove(calls') <=> CheckAbove(calls)
    BY <1>2, <1>3, <2>1, PushFacts DEF Frames, CoreCalls, RequestCalls
  <2>3. faults' \in 0 .. MaxFaults /\ chipOn' \in BOOLEAN
    BY <1>2, ChipFacts
  <2>4. TypeOK'
    BY <1>1, <1>2, <1>4, <2>1, <2>2, <2>3 DEF TypeOK, selfVars, NotNotified
  <2>5. FramesKnow(calls, current, next, progress)'
    BY <1>5, <1>6, <2>1, <2>2 DEF ResetsChip, FramesKnow, selfVars
  <2>6. AnswersDue(calls)' /\ WaitingAgrees' /\ OffIsComing'
    BY <1>1, <1>2, <2>1, <2>2
       DEF AnswersDue, WaitingAgrees, OffIsComing,
           NotNotified, selfVars
  <2>7. (NotifiedOrAboutTo(calls) /\ ChipIsTrue(calls))'
    BY <1>2, <2>1, <2>2
       DEF NotifiedOrAboutTo, ChipIsTrue, NotNotified, selfVars
  <2>8. QED
    BY <1>1, <2>1, <2>2, <2>4, <2>5, <2>6, <2>7
       DEF AdapterInv, ToldIsOver, NotNotified
<1>7. CASE ~ResetsChip(state)
  <2>1. StateCheck(switch, calls)
    BY <1>7 DEF NextStateChanged
  <2>2. QED
    BY <1>1, <1>2, <1>3, <1>4, <1>5, <2>1, StateCheckStep
<1>8. QED
  BY <1>6, <1>7

(* The chip is on again after a reset. *)
LEMMA ResetOnStep ==
  ASSUME AdapterInv,
         NEW switch \in Switches, ChipAfter(switch), ResetOn(switch)
  PROVE  AdapterInv'
<1>1. /\ calls # << >> /\ calls[Len(calls)] = "reset"
      /\ switch.call = "on"
      /\ calls' = Append(Popped, "recheck")
      /\ UNCHANGED << alive, progress, selfVars, coreVars >> /\ NotNotified
  BY DEF ResetOn, InCall, GoOnTo
<1>2. /\ TypeOK /\ calls \in Seq(Frames) /\ Shaped(calls)
      /\ AnswersDue(calls) /\ WaitingAgrees /\ alive
      /\ NotifiedOrAboutTo(calls)
      /\ FramesKnow(calls, current, next, progress)
  BY <1>1 DEF AdapterInv, TypeOK
<1>3. /\ Popped \in Seq(Frames) /\ Shaped(Popped) /\ ~InReset(Popped)
      /\ OnStack(calls) = OnStack(Popped) \cup { "reset" }
      /\ RequestOn(Popped) = RequestOn(calls)
      /\ CheckAbove(Popped) => CheckAbove(calls)
      /\ OnStack(Popped) \cap { "reset", "recheck" } = {}
  BY <1>1, <1>2, PopFacts DEF Popped, RequestCalls
<1>4. /\ calls' \in Seq(Frames) /\ calls' # << >>
      /\ Shaped(calls')
      /\ OnStack(calls') = OnStack(Popped) \cup { "recheck" }
      /\ RequestOn(calls') = RequestOn(calls)
      /\ CheckAbove(calls') => CheckAbove(calls)
  BY <1>1, <1>3, PushFacts DEF Frames, CoreCalls, RequestCalls
<1>5. /\ faults' \in 0 .. MaxFaults /\ chipOn' \in BOOLEAN
      /\ faults' = 0 => chipOn' = TRUE
  BY <1>1, <1>2, ChipFacts
<1>6. powerOn
  BY <1>2, <1>3 DEF FramesKnow
<1>7. TypeOK'
  BY <1>1, <1>2, <1>4, <1>5 DEF TypeOK, selfVars, coreVars, NotNotified
<1>8. FramesKnow(calls, current, next, progress)'
  BY <1>1, <1>2, <1>3, <1>4 DEF FramesKnow, selfVars, coreVars
<1>9. AnswersDue(calls)' /\ WaitingAgrees' /\ OffIsComing'
  BY <1>1, <1>2, <1>3, <1>4
     DEF AnswersDue, WaitingAgrees, OffIsComing,
         NotNotified, selfVars
<1>10. (NotifiedOrAboutTo(calls) /\ ChipIsTrue(calls))'
  BY <1>1, <1>2, <1>3, <1>4, <1>5, <1>6
     DEF TypeOK, NotifiedOrAboutTo, ChipIsTrue, NotNotified, selfVars
<1>11. QED
  BY <1>1, <1>2, <1>4, <1>7, <1>8, <1>9, <1>10
     DEF AdapterInv, ToldIsOver, NotNotified

(* next_state_changed() ends with state_check(), a reset or not. *)
LEMMA RecheckStep ==
  ASSUME AdapterInv,
         NEW switch \in Switches, ChipAfter(switch), Recheck(switch)
  PROVE  AdapterInv'
<1>1. /\ calls # << >> /\ calls[Len(calls)] = "recheck"
      /\ progress' = IF Popped = << >> THEN "none" ELSE progress
      /\ UNCHANGED << alive, coreVars >>
      /\ StateCheck(switch, Popped)
  BY DEF Recheck, InCall
<1>2. /\ TypeOK /\ calls \in Seq(Frames) /\ Shaped(calls)
      /\ AnswersDue(calls) /\ WaitingAgrees /\ alive
      /\ NotifiedOrAboutTo(calls) /\ ChipIsTrue(calls)
      /\ FramesKnow(calls, current, next, progress)
  BY <1>1 DEF AdapterInv, TypeOK
<1>3. /\ Popped \in Seq(Frames) /\ Shaped(Popped) /\ ~InReset(Popped)
      /\ OnStack(calls) = OnStack(Popped) \cup { "recheck" }
      /\ RequestOn(Popped) = RequestOn(calls)
      /\ CheckAbove(Popped) => CheckAbove(calls)
      /\ OnStack(Popped) \cap { "reset", "recheck" } = {}
  BY <1>1, <1>2, PopFacts DEF Popped, RequestCalls
<1>4. current' \in States /\ next' \in States /\ progress' \in Progress
  BY <1>1, <1>2 DEF TypeOK, Progress, coreVars
<1>5. FramesKnow(Popped, current', next', progress')
  BY <1>1, <1>2, <1>3, EndFacts DEF FramesKnow, coreVars
<1>6. AnswersDue(Popped)
  BY <1>2, <1>3 DEF AnswersDue
<1>7. NotifiedOrAboutTo(Popped) /\ ChipIsTrue(Popped)
  BY <1>2, <1>3 DEF NotifiedOrAboutTo, ChipIsTrue
<1>8. alive' = alive
  BY <1>1
<1>9. QED
  BY <1>1, <1>2, <1>3, <1>4, <1>5, <1>6, <1>7, <1>8, StateCheckStep

-----------------------------------------------------------------------------
(* A call of the core returns, with "frame" on top. *)
LEMMA ReturnFacts ==
  ASSUME AdapterInv, NEW frame \in CoreCalls, InCall({ frame })
  PROVE  /\ TypeOK /\ alive /\ frame \in OnStack(calls)
         /\ Popped \in Seq(Frames) /\ Shaped(Popped) /\ ~InReset(Popped)
         /\ OnStack(calls) = OnStack(Popped) \cup { frame }
         /\ "reset" \notin OnStack(calls) /\ "recheck" \notin OnStack(calls)
         /\ CheckAbove(Popped) => CheckAbove(calls)
         /\ IF frame \in RequestCalls
            THEN /\ RequestOn(calls) = frame /\ RequestOn(Popped) = "none"
                 /\ ~CheckAbove(Popped)
            ELSE /\ RequestOn(Popped) = RequestOn(calls)
                 /\ RequestOn(calls) # "none" => CheckAbove(calls)
         /\ RequestOn(calls) \in RequestCalls \cup { "none" }
         /\ Popped = << >> => OnStack(Popped) = {}
<1>1. /\ calls # << >> /\ calls[Len(calls)] = frame
      /\ TypeOK /\ calls \in Seq(Frames) /\ Shaped(calls) /\ alive
  BY DEF InCall, AdapterInv, TypeOK
<1>2. ~InReset(calls)
  BY <1>1 DEF InReset, CoreCalls, RequestCalls
<1>3. frame \in RequestCalls \/ frame = "check"
  BY DEF CoreCalls
<1>4. /\ Popped \in Seq(Frames) /\ Shaped(Popped) /\ ~InReset(Popped)
      /\ OnStack(calls) = OnStack(Popped) \cup { frame }
      /\ RequestOn(Popped) =
           IF frame \in RequestCalls THEN "none" ELSE RequestOn(calls)
      /\ frame \in RequestCalls => RequestOn(calls) = frame
      /\ CheckAbove(Popped) => CheckAbove(calls) /\ frame \notin RequestCalls
      /\ frame = "check" /\ RequestOn(calls) # "none" => CheckAbove(calls)
  BY <1>1, PopFacts DEF Popped
<1>5. /\ "reset" \notin OnStack(calls) /\ "recheck" \notin OnStack(calls)
      /\ RequestOn(calls) \in RequestCalls \cup { "none" }
      /\ frame \in OnStack(calls)
      /\ Popped = << >> => OnStack(Popped) = {}
  BY <1>1, <1>2, <1>4, EndFacts, RequestFacts
<1>6. QED
  BY <1>1, <1>3, <1>4, <1>5

(* state_check() switches off after its call. *)
LEMMA ReturnCheckStep ==
  ASSUME AdapterInv,
         NEW switch \in Switches, ChipAfter(switch), ReturnCheck(switch)
  PROVE  AdapterInv'
<1>1. /\ InCall({ "check" })
      /\ switch.call = "off"
      /\ powerOn' = FALSE /\ powered' = FALSE /\ told' = Reentrant
      /\ pending' = (pending /\ ~switchPending)
      /\ owed' = IF switchPending THEN owed - 1 ELSE owed
      /\ switchPending' = FALSE
      /\ calls' = Popped
      /\ progress' = IF Popped = << >> THEN "none" ELSE progress
      /\ UNCHANGED << alive, needPower, coreVars >>
  BY DEF ReturnCheck, Pop, PowerOff, Notify
<1>2. /\ TypeOK /\ alive
      /\ AnswersDue(calls) /\ WaitingAgrees
      /\ FramesKnow(calls, current, next, progress)
  BY <1>1, ReturnFacts DEF AdapterInv, CoreCalls
<1>3. /\ Popped \in Seq(Frames) /\ Shaped(Popped) /\ ~InReset(Popped)
      /\ OnStack(calls) = OnStack(Popped) \cup { "check" }
      /\ RequestOn(Popped) = RequestOn(calls)
      /\ RequestOn(calls) # "none" => CheckAbove(calls)
      /\ CheckAbove(Popped) => CheckAbove(calls)
      /\ "reset" \notin OnStack(calls)
      /\ Popped = << >> => OnStack(Popped) = {}
  BY <1>1, ReturnFacts DEF CoreCalls, RequestCalls
<1>4. \/ RequestOn(calls) \in { "none", "off" }
      \/ RequestOn(calls) = "wait" /\ progress = "arrived"
  BY <1>2, <1>3 DEF FramesKnow
<1>5. /\ faults' \in 0 .. MaxFaults /\ chipOn' \in BOOLEAN
      /\ faults' = 0 => ~chipOn'
  BY <1>1, <1>2, ChipFacts
<1>6. pending' = FALSE /\ owed' \in -1 .. 1 /\ AnswersDue(calls)'
  <2>1. pending <=> switchPending
    BY <1>2 DEF WaitingAgrees
  <2>2. CASE switchPending
    <3>1. owed' = owed - 1 /\ pending' = FALSE
      BY <1>1, <2>2
    <3>2. owed = 1 /\ RequestOn(Popped) = "none"
      BY <1>2, <1>3, <2>1, <2>2 DEF AnswersDue
    <3>3. owed' = 0
      BY <3>1, <3>2
    <3>4. QED
      BY <1>1, <3>1, <3>2, <3>3 DEF AnswersDue
  <2>3. CASE ~switchPending
    <3>1. owed' = owed /\ pending' = FALSE /\ ~pending
      BY <1>1, <2>1, <2>3
    <3>2. QED
      BY <1>1, <1>2, <1>3, <3>1 DEF AnswersDue, TypeOK
  <2>4. QED
    BY <2>2, <2>3
<1>7. TypeOK'
  BY <1>1, <1>2, <1>3, <1>5, <1>6, AdapterAssumption
     DEF TypeOK, coreVars, Progress
<1>8. FramesKnow(calls, current, next, progress)'
  <2>1. Popped = << >> => RequestOn(Popped) = "none" /\ ~CheckAbove(Popped)
    BY <1>3, EndFacts
  <2>2. QED
    BY <1>1, <1>2, <1>3, <1>4, <2>1 DEF FramesKnow, coreVars
<1>9. /\ WaitingAgrees' /\ OffIsComing'
      /\ (NotifiedOrAboutTo(calls) /\ ChipIsTrue(calls))'
  BY <1>1, <1>5, <1>6
     DEF WaitingAgrees, OffIsComing, NotifiedOrAboutTo, ChipIsTrue
<1>10. QED
  BY <1>1, <1>2, <1>3, <1>6, <1>7, <1>8, <1>9 DEF AdapterInv, ToldIsOver

(* The three ways a request goes on after its call. *)
LEMMA ReturnOffStep ==
  ASSUME AdapterInv,
         NEW switch \in Switches, ChipAfter(switch), ReturnOff(switch)
  PROVE  AdapterInv'
<1>1. /\ InCall({ "off" })
      /\ switch.call = "off"
      /\ powerOn' = FALSE /\ powered' = FALSE /\ told' = Reentrant
      /\ pending' = FALSE /\ owed' = owed - 1
      /\ calls' = Popped
      /\ progress' = IF Popped = << >> THEN "none" ELSE progress
      /\ UNCHANGED << alive, needPower, switchPending, coreVars >>
  BY DEF ReturnOff, Pop, PowerOff, Notify
<1>2. /\ TypeOK /\ alive
      /\ calls' \in Seq(Frames) /\ Shaped(calls') /\ ~InReset(calls')
      /\ OnStack(calls) = OnStack(calls') \cup { "off" }
      /\ RequestOn(calls) = "off" /\ "reset" \notin OnStack(calls)
      /\ RequestOn(calls') = "none" /\ ~CheckAbove(calls')
      /\ WaitingAgrees /\ AnswersDue(calls)
      /\ FramesKnow(calls, current, next, progress)
  BY <1>1, ReturnFacts DEF AdapterInv, CoreCalls, RequestCalls
<1>3. owed' = 0 /\ owed' \in -1 .. 1 /\ ~pending /\ ~switchPending
  BY <1>1, <1>2 DEF AnswersDue, WaitingAgrees
<1>4. /\ faults' \in 0 .. MaxFaults /\ chipOn' \in BOOLEAN
      /\ faults' = 0 => ~chipOn'
  BY <1>1, <1>2, ChipFacts
<1>5. TypeOK'
  BY <1>1, <1>2, <1>3, <1>4, AdapterAssumption
     DEF TypeOK, coreVars, Progress
<1>6. FramesKnow(calls, current, next, progress)' /\ AnswersDue(calls)'
  BY <1>1, <1>2, <1>3 DEF FramesKnow, AnswersDue, coreVars
<1>7. /\ WaitingAgrees' /\ OffIsComing'
      /\ (NotifiedOrAboutTo(calls) /\ ChipIsTrue(calls))'
  BY <1>1, <1>3, <1>4
     DEF WaitingAgrees, OffIsComing, NotifiedOrAboutTo, ChipIsTrue
<1>8. QED
  BY <1>1, <1>2, <1>5, <1>6, <1>7 DEF AdapterInv, ToldIsOver

LEMMA ReturnWaitStep ==
  ASSUME AdapterInv,
         NEW switch \in Switches, ChipAfter(switch), ReturnWait(switch)
  PROVE  AdapterInv'
<1>1. /\ InCall({ "wait" })
      /\ switch = NoSwitch
      /\ switchPending' = WillBecomeIdle /\ pending' = WillBecomeIdle
      /\ owed' = IF WillBecomeIdle THEN owed ELSE 0
      /\ told' = FALSE
      /\ calls' = Popped
      /\ progress' = IF Popped = << >> THEN "none" ELSE progress
      /\ UNCHANGED << alive, needPower, powerOn, coreVars, powered >>
  BY DEF ReturnWait, Pop
<1>2. /\ TypeOK /\ alive
      /\ calls' \in Seq(Frames) /\ Shaped(calls') /\ ~InReset(calls')
      /\ OnStack(calls) = OnStack(calls') \cup { "wait" }
      /\ RequestOn(calls) = "wait" /\ "reset" \notin OnStack(calls)
      /\ RequestOn(calls') = "none" /\ ~CheckAbove(calls')
      /\ AnswersDue(calls) /\ OffIsComing
      /\ NotifiedOrAboutTo(calls) /\ ChipIsTrue(calls)
      /\ FramesKnow(calls, current, next, progress)
  BY <1>1, ReturnFacts DEF AdapterInv, CoreCalls, RequestCalls
<1>3. owed = 1 /\ ~needPower
  BY <1>2 DEF AnswersDue, FramesKnow
<1>4. WillBecomeIdle => powerOn
  BY <1>2 DEF FramesKnow, WillBecomeIdle
<1>5. powerOn /\ current # "active" =>
        \E frame \in { "check", "off", "reset", "recheck" } :
          frame \in OnStack(calls')
  BY <1>2, <1>3 DEF OffIsComing
<1>6. chipOn' = chipOn /\ faults' = faults
  BY <1>1, <1>2, ChipFacts
<1>7. /\ switchPending' \in BOOLEAN /\ pending' \in BOOLEAN
      /\ pending' <=> switchPending'
      /\ pending' => powerOn /\ owed' = 1
      /\ ~pending' => owed' = 0
  <2>1. WillBecomeIdle \in BOOLEAN
    BY DEF WillBecomeIdle
  <2>2. CASE WillBecomeIdle
    BY <1>1, <1>3, <1>4, <2>1, <2>2
  <2>3. CASE ~WillBecomeIdle
    BY <1>1, <2>1, <2>3
  <2>4. QED
    BY <2>2, <2>3
<1>8. TypeOK'
  <2>1. owed' \in -1 .. 1
    BY <1>7
  <2>2. QED
    BY <1>1, <1>2, <1>6, <1>7, <2>1 DEF TypeOK, coreVars, Progress
<1>9. FramesKnow(calls, current, next, progress)' /\ AnswersDue(calls)'
  BY <1>1, <1>2, <1>7 DEF FramesKnow, AnswersDue, coreVars
<1>10. WaitingAgrees' /\ OffIsComing'
  BY <1>1, <1>2, <1>3, <1>5, <1>7 DEF WaitingAgrees, OffIsComing, coreVars
<1>11. (NotifiedOrAboutTo(calls) /\ ChipIsTrue(calls))'
  BY <1>1, <1>2, <1>6 DEF NotifiedOrAboutTo, ChipIsTrue
<1>12. QED
  BY <1>1, <1>2, <1>8, <1>9, <1>10, <1>11
     DEF AdapterInv, ToldIsOver

LEMMA ReturnOnStep ==
  ASSUME AdapterInv,
         NEW switch \in Switches, ChipAfter(switch), ReturnOn(switch)
  PROVE  AdapterInv'
<1>1. /\ \E frame \in { "on", "restart" } : InCall({ frame })
      /\ switch = NoSwitch
      /\ powered' = TRUE /\ pending' = FALSE /\ owed' = owed - 1
      /\ told' = Reentrant
      /\ calls' = Popped
      /\ progress' = IF Popped = << >> THEN "none" ELSE progress
      /\ UNCHANGED << alive, selfVars, coreVars >>
  BY DEF ReturnOn, Pop, Notify, InCall
<1>2. /\ TypeOK /\ alive
      /\ calls' \in Seq(Frames) /\ Shaped(calls') /\ ~InReset(calls')
      /\ OnStack(calls') \subseteq OnStack(calls)
      /\ RequestOn(calls) \in { "on", "restart" }
      /\ "reset" \notin OnStack(calls)
      /\ RequestOn(calls') = "none" /\ ~CheckAbove(calls')
      /\ AnswersDue(calls) /\ WaitingAgrees /\ ChipIsTrue(calls)
      /\ FramesKnow(calls, current, next, progress)
  BY <1>1, ReturnFacts DEF AdapterInv, CoreCalls, RequestCalls
<1>3. owed' = 0 /\ owed' \in -1 .. 1 /\ ~pending /\ ~switchPending
  BY <1>1, <1>2 DEF AnswersDue, WaitingAgrees
<1>4. needPower /\ powerOn
  BY <1>2 DEF FramesKnow
<1>5. chipOn' = chipOn /\ faults' = faults
  BY <1>1, <1>2, ChipFacts
<1>6. TypeOK'
  BY <1>1, <1>2, <1>3, <1>5, AdapterAssumption
     DEF TypeOK, selfVars, coreVars, Progress
<1>7. FramesKnow(calls, current, next, progress)' /\ AnswersDue(calls)'
  BY <1>1, <1>2, <1>3 DEF FramesKnow, AnswersDue, selfVars, coreVars
<1>8. WaitingAgrees' /\ OffIsComing'
  BY <1>1, <1>3, <1>4 DEF WaitingAgrees, OffIsComing, selfVars
<1>9. (NotifiedOrAboutTo(calls) /\ ChipIsTrue(calls))'
  BY <1>1, <1>2, <1>4, <1>5 DEF TypeOK, NotifiedOrAboutTo, ChipIsTrue, selfVars
<1>10. QED
  BY <1>1, <1>2, <1>6, <1>7, <1>8, <1>9 DEF AdapterInv, ToldIsOver

(***************************************************************************)
(* Between requests nothing is due but to a request that waits, whether    *)
(* there are calls or not.                                                 *)
(***************************************************************************)
LEMMA RestFacts ==
  ASSUME AdapterInv, RequestOn(calls) = "none", ~InReset(calls)
  PROVE  /\ TypeOK /\ Shaped(calls) /\ ~CheckAbove(calls)
         /\ "reset" \notin OnStack(calls) /\ "recheck" \notin OnStack(calls)
         /\ pending <=> owed = 1
         /\ ~pending <=> owed = 0
         /\ WaitingAgrees
         /\ alive => powered = powerOn /\ (faults = 0 => chipOn = powerOn)
<1>1. /\ calls \in Seq(Frames) /\ TypeOK /\ Shaped(calls)
      /\ AnswersDue(calls) /\ WaitingAgrees
      /\ alive => NotifiedOrAboutTo(calls) /\ ChipIsTrue(calls)
  BY DEF AdapterInv, TypeOK
<1>2. /\ "reset" \notin OnStack(calls) /\ "recheck" \notin OnStack(calls)
      /\ ~CheckAbove(calls)
  BY <1>1, EndFacts
<1>3. (pending <=> owed = 1) /\ (~pending <=> owed = 0)
  BY <1>1 DEF AnswersDue
<1>4. alive => powered = powerOn /\ (faults = 0 => chipOn = powerOn)
  BY <1>1, <1>2 DEF NotifiedOrAboutTo, ChipIsTrue
<1>5. QED
  BY <1>1, <1>2, <1>3, <1>4

LEMMA EmptyFacts ==
  ASSUME AdapterInv, calls = << >>
  PROVE  /\ OnStack(calls) = {} /\ RequestOn(calls) = "none"
         /\ ~InReset(calls) /\ progress = "none"
BY EndFacts DEF AdapterInv, TypeOK, FramesKnow

(* The base class calls from the main loop, or from inside a notification. *)
LEMMA MayCallFacts ==
  ASSUME AdapterInv, calls = << >> \/ (told /\ owed = 0)
  PROVE  /\ RequestOn(calls) = "none" /\ ~InReset(calls)
         /\ Reentrant \/ calls = << >>
<1>1. CASE calls = << >>
  BY <1>1, EmptyFacts
<1>2. CASE told /\ owed = 0
  BY <1>2 DEF AdapterInv, ToldIsOver, AnswersDue
<1>3. QED
  BY <1>1, <1>2

(* A request that is decided at once leaves nothing to do. *)
LEMMA DecidedStep ==
  ASSUME AdapterInv, RequestOn(calls) = "none", ~InReset(calls),
         Reentrant \/ calls = << >>,
         calls' = calls, calls # << >> => alive',
         TypeOK', told' => Reentrant, owed' = 0,
         progress' = "none" \/ UNCHANGED << progress, next >>,
         ~pending', ~switchPending' \/ ~alive',
         alive' => /\ powered' = powerOn'
                   /\ needPower' \/ ~powerOn'
                   /\ faults' = 0 => chipOn' = powerOn'
  PROVE  AdapterInv'
<1>1. /\ Shaped(calls) /\ ~CheckAbove(calls)
      /\ "reset" \notin OnStack(calls)
      /\ FramesKnow(calls, current, next, progress)
  BY RestFacts DEF AdapterInv
<1>2. /\ Shaped(calls') /\ ~CheckAbove(calls') /\ ~InReset(calls')
      /\ "reset" \notin OnStack(calls')
      /\ RequestOn(calls') = "none"
      /\ calls' = << >> => OnStack(calls') = {}
      /\ Reentrant \/ calls' = << >>
  BY <1>1, EmptyFacts
<1>3. FramesKnow(calls, current, next, progress)'
  <2>1. /\ calls' = << >> => progress' = "none"
        /\ progress' = "under way" => next' # "active"
    BY <1>1 DEF FramesKnow
  <2>2. QED
    BY <1>2, <2>1 DEF FramesKnow
<1>4. AnswersDue(calls)' /\ WaitingAgrees' /\ OffIsComing'
  BY <1>2 DEF AnswersDue, WaitingAgrees, OffIsComing
<1>5. alive' => (NotifiedOrAboutTo(calls) /\ ChipIsTrue(calls))'
  BY DEF NotifiedOrAboutTo, ChipIsTrue
<1>6. QED
  BY <1>2, <1>3, <1>4, <1>5 DEF AdapterInv, ToldIsOver

(* One that calls the core is a frame on top. *)
LEMMA CallingStep ==
  ASSUME AdapterInv, NEW on \in BOOLEAN, NEW frame \in RequestCalls,
         NEW switch \in Switches, ChipAfter(switch),
         RequestCalling(on, frame),
         powerOn' = TRUE,
         frame \in { "on", "restart" } => on,
         frame \in { "off", "wait" } => ~on,
         frame = "off" => current = "idle",
         frame = "wait" => current = "active",
         powered' = powerOn' \/ frame = "restart",
         faults' = 0 => chipOn' = powerOn'
  PROVE  AdapterInv'
<1>1. /\ alive /\ alive' = alive /\ ~pending
      /\ calls = << >> \/ (told /\ owed = 0)
      /\ needPower' = on /\ progress' = "none"
      /\ UNCHANGED << coreVars, switchPending, pending, powered >>
      /\ owed' = 1 /\ told' = FALSE
      /\ calls' = Append(calls, frame)
  BY DEF RequestCalling, Request, MayRequest
<1>2. /\ RequestOn(calls) = "none" /\ ~InReset(calls)
      /\ Reentrant \/ calls = << >>
  BY <1>1, MayCallFacts
<1>3. /\ TypeOK /\ calls \in Seq(Frames) /\ Shaped(calls) /\ ~CheckAbove(calls)
      /\ "reset" \notin OnStack(calls)
      /\ calls = << >> => OnStack(calls) = {}
      /\ WaitingAgrees /\ ~switchPending
  BY <1>1, <1>2, RestFacts, EmptyFacts DEF WaitingAgrees, TypeOK
<1>4. /\ calls' \in Seq(Frames) /\ calls' # << >> /\ Shaped(calls')
      /\ OnStack(calls') = OnStack(calls) \cup { frame }
      /\ RequestOn(calls') = frame /\ ~CheckAbove(calls')
  <2>1. frame \in Frames /\ frame # "check"
    BY DEF Frames, CoreCalls, RequestCalls
  <2>2. QED
    BY <1>1, <1>2, <1>3, <2>1, PushFacts
<1>5. faults' \in 0 .. MaxFaults /\ chipOn' \in BOOLEAN /\ owed' \in -1 .. 1
  BY <1>1, <1>3, ChipFacts
<1>6. TypeOK'
  BY <1>1, <1>3, <1>4, <1>5 DEF TypeOK, coreVars, Progress
<1>7. FramesKnow(calls, current, next, progress)'
  BY <1>1, <1>2, <1>3, <1>4 DEF FramesKnow, RequestCalls, coreVars
<1>8. AnswersDue(calls)' /\ WaitingAgrees'
  BY <1>1, <1>3, <1>4 DEF AnswersDue, WaitingAgrees, RequestCalls
<1>9. OffIsComing'
  BY <1>1, <1>4 DEF OffIsComing, RequestCalls, coreVars
<1>10. (NotifiedOrAboutTo(calls) /\ ChipIsTrue(calls))'
  BY <1>1, <1>4 DEF NotifiedOrAboutTo, ChipIsTrue
<1>11. QED
  BY <1>1, <1>4, <1>6, <1>7, <1>8, <1>9, <1>10 DEF AdapterInv, ToldIsOver

(* Every way a request may go *)
LEMMA SubmitStep ==
  ASSUME AdapterInv,
         NEW switch \in Switches, ChipAfter(switch), Submit(switch)
  PROVE  AdapterInv'
<1>1. /\ alive /\ ~pending
      /\ RequestOn(calls) = "none" /\ ~InReset(calls)
      /\ Reentrant \/ calls = << >>
  <2>1. MayRequest
    BY DEF Submit, SubmitOnAlready, SubmitOn, SubmitOnFails, SubmitOffNow,
           SubmitOffIdle, SubmitOffWait, SubmitOffAlready, RequestCalling,
           Request
  <2>2. QED
    BY <2>1, MayCallFacts DEF MayRequest
<1>2. /\ TypeOK /\ WaitingAgrees /\ ~switchPending /\ owed = 0
      /\ powered = powerOn /\ (faults = 0 => chipOn = powerOn)
  BY <1>1, RestFacts DEF WaitingAgrees
<1>3. /\ faults' \in 0 .. MaxFaults /\ chipOn' \in BOOLEAN
      /\ faults' = 0 => faults = 0 /\ switch.works
      /\ switch = NoSwitch => chipOn' = chipOn /\ faults' = faults
      /\ faults' = 0 /\ switch.call = "off" => ~chipOn'
      /\ switch.works /\ switch.call = "on" => chipOn'
  BY <1>2, ChipFacts
<1>4. CASE SubmitOnAlready(switch)
  BY <1>1, <1>2, <1>3, <1>4, CallingStep
     DEF SubmitOnAlready, RequestCalling, RequestCalls, TypeOK
<1>5. CASE SubmitOn(switch)
  BY <1>1, <1>2, <1>3, <1>5, CallingStep
     DEF SubmitOn, RequestCalling, RequestCalls, TypeOK
<1>6. CASE SubmitOffIdle(switch)
  BY <1>1, <1>2, <1>3, <1>6, CallingStep
     DEF SubmitOffIdle, RequestCalling, RequestCalls, TypeOK
<1>7. CASE SubmitOffWait(switch)
  BY <1>1, <1>2, <1>3, <1>7, CallingStep
     DEF SubmitOffWait, RequestCalling, RequestCalls, TypeOK, AtMostIdle
<1>8. CASE SubmitOnFails(switch)
  <2>1. /\ needPower' = TRUE /\ ~powerOn /\ progress' = "none"
        /\ UNCHANGED << alive, coreVars, switchPending, powerOn, calls >>
        /\ UNCHANGED << pending, powered, owed >> /\ told' = FALSE
        /\ ~switch.works
    BY <1>8 DEF SubmitOnFails, Request, NotNotified
  <2>2. TypeOK'
    BY <1>2, <1>3, <2>1 DEF TypeOK, coreVars, Progress
  <2>3. QED
    BY <1>1, <1>2, <1>3, <2>1, <2>2, DecidedStep
<1>9. CASE SubmitOffNow(switch)
  <2>1. /\ needPower' = FALSE /\ progress' = "none" /\ switch.call = "off"
        /\ UNCHANGED << alive, coreVars, switchPending, calls, pending >>
        /\ powerOn' = FALSE
        /\ powered' = FALSE /\ owed' = 0 /\ told' = Reentrant
    BY <1>9 DEF SubmitOffNow, Request
  <2>2. TypeOK'
    BY <1>2, <1>3, <2>1, AdapterAssumption DEF TypeOK, coreVars, Progress
  <2>3. QED
    BY <1>1, <1>2, <1>3, <2>1, <2>2, DecidedStep
<1>10. CASE SubmitOffAlready(switch)
  <2>1. /\ needPower' = FALSE /\ progress' = "none" /\ switch = NoSwitch
        /\ UNCHANGED << alive, coreVars, switchPending, powerOn >>
        /\ UNCHANGED << calls, pending >>
        /\ ~powerOn
        /\ powered' = FALSE /\ owed' = 0 /\ told' = Reentrant
    BY <1>10 DEF SubmitOffAlready, Request
  <2>2. TypeOK'
    BY <1>2, <1>3, <2>1, AdapterAssumption DEF TypeOK, coreVars, Progress
  <2>3. powered' = powerOn' /\ (faults' = 0 => chipOn' = powerOn')
    BY <1>2, <1>3, <2>1 DEF TypeOK
  <2>4. QED
    BY <1>1, <1>2, <2>1, <2>2, <2>3, DecidedStep
<1>11. QED
  BY <1>4, <1>5, <1>6, <1>7, <1>8, <1>9, <1>10 DEF Submit

-----------------------------------------------------------------------------
(***************************************************************************)
(* The invariant of the adapter: the types, and what every frame on its    *)
(* stack relies on.  Power that is not needed is on only while something   *)
(* is under way that will find out.                                        *)
(***************************************************************************)
THEOREM AdapterInvariant == Safety => []AdapterInv
<1>1. Init => AdapterInv
  <2> SUFFICES ASSUME Init PROVE AdapterInv
    OBVIOUS
  <2>1. TypeOK /\ calls = << >> /\ ~told
    <3>1. 0 \in 0 .. MaxFaults /\ 0 \in -1 .. 1
      BY AdapterAssumption
    <3>2. << >> \in Seq(Frames)
      OBVIOUS
    <3>3. QED
      BY <3>1, <3>2 DEF Init, TypeOK, Progress, States
  <2>2. /\ OnStack(calls) = {} /\ RequestOn(calls) = "none"
        /\ Shaped(calls) /\ ~CheckAbove(calls)
    BY <2>1, EndFacts DEF TypeOK
  <2>3. QED
    BY <2>1, <2>2
       DEF Init, AdapterInv, ToldIsOver, FramesKnow, AnswersDue,
           WaitingAgrees, OffIsComing
<1>2. AdapterInv /\ [Next]_vars => AdapterInv'
  <2> SUFFICES ASSUME AdapterInv, [Next]_vars PROVE AdapterInv'
    OBVIOUS
  <2>1. CASE UNCHANGED vars
    <3>1. /\ UNCHANGED << alive, needPower, powerOn, switchPending, calls >>
          /\ UNCHANGED << progress, current, next, chipOn, faults >>
          /\ UNCHANGED << pending, powered, told, owed >>
      BY <2>1 DEF vars, selfVars, coreVars, chipVars, baseVars, callVars
    <3>2. TypeOK' /\ ToldIsOver(calls)' /\ Shaped(calls')
      BY <3>1 DEF AdapterInv, TypeOK, ToldIsOver
    <3>3. FramesKnow(calls, current, next, progress)' /\ AnswersDue(calls)'
      BY <3>1 DEF AdapterInv, FramesKnow, AnswersDue
    <3>4. WaitingAgrees' /\ OffIsComing'
      BY <3>1 DEF AdapterInv, WaitingAgrees, OffIsComing
    <3>5. alive' => (NotifiedOrAboutTo(calls) /\ ChipIsTrue(calls))'
      BY <3>1 DEF AdapterInv, NotifiedOrAboutTo, ChipIsTrue
    <3>6. calls' # << >> => alive'
      BY <3>1 DEF AdapterInv
    <3>7. QED
      BY <3>2, <3>3, <3>4, <3>5, <3>6 DEF AdapterInv
  <2>2. ASSUME NEW switch \in Switches, ChipAfter(switch), Step(switch)
        PROVE  AdapterInv'
    <3>1. CASE New(switch)
      <4>1. /\ ~alive /\ switch.call = "off" /\ switch.works
            /\ alive' = TRUE
            /\ needPower' = FALSE /\ powerOn' = FALSE /\ switchPending' = FALSE
            /\ current' = "init" /\ next' = "init"
            /\ pending' = FALSE /\ powered' = FALSE
            /\ owed' = 0 /\ told' = FALSE
            /\ UNCHANGED callVars
        BY <3>1 DEF New
      <4>2. calls = << >> /\ TypeOK
        BY <4>1 DEF AdapterInv
      <4>3. progress = "none"
        BY <4>2, EmptyFacts
      <4>4. /\ faults' \in 0 .. MaxFaults /\ chipOn' \in BOOLEAN
            /\ ~chipOn' /\ owed' \in -1 .. 1
        BY <2>2, <4>1, <4>2, ChipFacts
      <4>5. TypeOK'
        BY <4>1, <4>2, <4>4 DEF TypeOK, callVars, States
      <4>6. QED
        BY <4>1, <4>2, <4>3, <4>4, <4>5, EmptyFacts, DecidedStep DEF callVars
    <3>2. CASE Finalize(switch)
      <4>1. /\ calls = << >> /\ switch = NoSwitch
            /\ alive' = FALSE
            /\ pending' = FALSE /\ owed' = 0 /\ told' = FALSE
            /\ UNCHANGED << selfVars, callVars, coreVars, powered >>
        BY <3>2 DEF Finalize, AtRest
      <4>2. TypeOK /\ progress = "none"
        BY <4>1, EmptyFacts DEF AdapterInv
      <4>3. /\ faults' \in 0 .. MaxFaults /\ chipOn' \in BOOLEAN
            /\ owed' \in -1 .. 1
        BY <2>2, <4>1, <4>2, ChipFacts
      <4>4. TypeOK'
        BY <4>1, <4>2, <4>3 DEF TypeOK, selfVars, callVars, coreVars
      <4>5. QED
        BY <4>1, <4>2, <4>4, EmptyFacts, DecidedStep DEF callVars
    <3>3. CASE CancelPowerRequest(switch)
      <4>1. /\ alive /\ switch = NoSwitch
            /\ calls = << >> \/ (told /\ owed = 0)
            /\ needPower' = powerOn /\ switchPending' = FALSE
            /\ pending' = FALSE /\ owed' = 0 /\ told' = FALSE
            /\ UNCHANGED << alive, powerOn, callVars, coreVars, powered >>
        BY <3>3 DEF CancelPowerRequest
      <4>2. /\ RequestOn(calls) = "none" /\ ~InReset(calls)
            /\ Reentrant \/ calls = << >>
            /\ TypeOK /\ powered = powerOn /\ (faults = 0 => chipOn = powerOn)
        BY <4>1, MayCallFacts, RestFacts
      <4>3. chipOn' = chipOn /\ faults' = faults /\ owed' \in -1 .. 1
        BY <2>2, <4>1, <4>2, ChipFacts
      <4>4. TypeOK'
        BY <4>1, <4>2, <4>3 DEF TypeOK, callVars, coreVars
      <4>5. QED
        <5>1. powered' = powerOn' /\ (faults' = 0 => chipOn' = powerOn')
          BY <4>1, <4>2, <4>3
        <5>2. needPower' \/ ~powerOn'
          BY <4>1, <4>2 DEF TypeOK
        <5>3. calls' = calls /\ UNCHANGED << progress, next >>
          BY <4>1 DEF callVars, coreVars
        <5>4. QED
          BY <4>1, <4>2, <4>4, <5>1, <5>2, <5>3, DecidedStep
    <3>4. CASE Submit(switch)
      BY <2>2, <3>4, SubmitStep
    <3>5. CASE CurrentStateChanged(switch)
      BY <2>2, <3>5, CurrentStateChangedStep
    <3>6. CASE SetsOut(switch)
      BY <2>2, <3>6, NextStateChangedStep DEF SetsOut
    <3>7. CASE Returns(switch)
      BY <2>2, <3>7, ResetOnStep, RecheckStep, ReturnCheckStep,
         ReturnOffStep, ReturnWaitStep, ReturnOnStep DEF Returns
    <3>8. QED
      BY <2>2, <3>1, <3>2, <3>3, <3>4, <3>5, <3>6, <3>7 DEF Step
  <2>3. QED
    BY <2>1, <2>2 DEF Next
<1>3. QED
  BY <1>1, <1>2, PTL DEF Safety

(* Types and bounds, the answers due to the base class among them *)
THEOREM AdapterTyped == Safety => []TypeOK
<1>1. AdapterInv => TypeOK
  BY DEF AdapterInv
<1>2. QED
  BY <1>1, AdapterInvariant, PTL

(* Power nobody needs is on only while the core is beyond RFST_IDLE. *)
THEOREM UnneededIsOffAlways == Safety => []UnneededIsOff
<1>1. AdapterInv => UnneededIsOff
  BY EmptyFacts DEF AdapterInv, UnneededIsOff, AtRest, OffIsComing
<1>2. QED
  BY <1>1, AdapterInvariant, PTL

(* The adapter and the base class agree on what is waiting. *)
THEOREM PendingAgreesAlways == Safety => []PendingAgrees
<1>1. AdapterInv => PendingAgrees
  BY DEF AdapterInv, PendingAgrees, AtRest, WaitingAgrees
<1>2. QED
  BY <1>1, AdapterInvariant, PTL

(***************************************************************************)
(* GASSERT(!self->power_switch_pending) holds for a base class that has    *)
(* one request at a time, and makes it from inside a notification or not.  *)
(***************************************************************************)
THEOREM RequestAssertedAlways == Safety => []RequestAsserted
<1>1. AdapterInv => RequestAsserted
  BY DEF AdapterInv, WaitingAgrees, RequestAsserted, MayRequest
<1>2. QED
  BY <1>1, AdapterInvariant, PTL

(* The base class has been notified of the power state at rest. *)
THEOREM NotifiedMatchesAlways == Safety => []NotifiedMatches
<1>1. AdapterInv => NotifiedMatches
  BY EmptyFacts, RestFacts DEF NotifiedMatches, AtRest
<1>2. QED
  BY <1>1, AdapterInvariant, PTL

(* power_on is the truth about the chip while the power ioctl works. *)
THEOREM ChipFollowsAlways == Safety => []ChipFollows
<1>1. AdapterInv => ChipFollows
  <2> SUFFICES ASSUME AdapterInv, alive, faults = 0, ~InCall({ "reset" })
               PROVE  chipOn = powerOn
    BY DEF ChipFollows
  <2>1. calls \in Seq(Frames) /\ Shaped(calls) /\ ChipIsTrue(calls)
    BY DEF AdapterInv, TypeOK
  <2>2. "reset" \notin OnStack(calls)
    <3>1. Len(calls) \in Nat /\ (calls = << >> <=> Len(calls) = 0)
      BY <2>1, EmptySeq, LenProperties
    <3>2. \A i \in 1 .. Len(calls) : calls[i] # "reset"
      BY <2>1, <3>1 DEF Shaped, InCall
    <3>3. QED
      BY <3>2 DEF OnStack
  <2>3. QED
    BY <2>1, <2>2 DEF ChipIsTrue
<1>2. QED
  BY <1>1, AdapterInvariant, PTL

(* No request is answered twice, or after it was called off. *)
THEOREM AnsweredOnceAlways == Safety => []AnsweredOnce
<1>1. AdapterInv => AnsweredOnce
  BY DEF AdapterInv, AnswersDue, AnsweredOnce
<1>2. QED
  BY <1>1, AdapterInvariant, PTL

(***************************************************************************)
(* Whatever the core does inside the calls of the adapter, and whatever is *)
(* asked meanwhile: power goes off only if it is not needed and the core   *)
(* is not beyond RFST_IDLE when it goes.                                   *)
(***************************************************************************)
THEOREM OffOnlyWhenUnusedAlways ==
  ASSUME ~Reentrant
  PROVE  Safety => OffOnlyWhenUnused
<1> DEFINE Off == powerOn /\ ~powerOn' /\ alive
           Unused == ~needPower' /\ AtMostIdle(current')
<1>1. ASSUME AdapterInv, [Next]_vars, Off
      PROVE  Unused
  <2>1. ~UNCHANGED vars
    BY <1>1 DEF vars, selfVars
  <2>2. PICK switch \in Switches : Step(switch)
    BY <1>1, <2>1 DEF Next
  <2>3. ASSUME NEW s, StateCheck(switch, s)
        PROVE  Unused
    <3>1. CASE UNCHANGED selfVars
      BY <1>1, <3>1 DEF selfVars
    <3>2. CASE CanPowerOff /\ UNCHANGED needPower
      BY <3>2 DEF CanPowerOff
    <3>3. QED
      BY <2>3, <3>1, <3>2 DEF StateCheck
  <2>4. CASE CurrentStateChanged(switch) \/ SetsOut(switch) \/ Recheck(switch)
    BY <1>1, <2>3, <2>4
       DEF CurrentStateChanged, SetsOut, NextStateChanged, Recheck, selfVars
  <2>5. CASE ReturnCheck(switch) \/ ReturnOff(switch)
    <3>1. /\ UNCHANGED << needPower, current >>
          /\ InCall({ "check" }) \/ InCall({ "off" })
      BY <2>5 DEF ReturnCheck, ReturnOff, coreVars
    <3>2. "check" \in OnStack(calls) \/ RequestOn(calls) = "off"
      BY <1>1, <3>1, ReturnFacts DEF CoreCalls, RequestCalls
    <3>3. QED
      BY <1>1, <3>1, <3>2 DEF AdapterInv, FramesKnow, AtMostIdle
  <2>6. CASE Submit(switch)
    BY <1>1, <2>6
       DEF Submit, SubmitOnAlready, SubmitOn, SubmitOnFails, SubmitOffNow,
           SubmitOffIdle, SubmitOffWait, SubmitOffAlready, Request,
           coreVars, AtMostIdle
  <2>7. CASE \/ New(switch) \/ Finalize(switch) \/ CancelPowerRequest(switch)
             \/ ResetOn(switch) \/ ReturnWait(switch) \/ ReturnOn(switch)
    BY <1>1, <2>7
       DEF New, Finalize, CancelPowerRequest, ResetOn, ReturnWait, ReturnOn,
           selfVars
  <2>8. QED
    BY <2>2, <2>4, <2>5, <2>6, <2>7 DEF Step, Returns
<1>2. AdapterInv /\ [Next]_vars => [Off => Unused]_vars
  BY <1>1
<1>3. QED
  BY <1>2, AdapterInvariant, PTL DEF Safety, OffOnlyWhenUnused

-----------------------------------------------------------------------------
(***************************************************************************)
(* The adapter keeps the contract: every step is one of the contract, or   *)
(* is none of the base class's business.                                   *)
(***************************************************************************)
Kept == PC!Next \/ UNCHANGED PC!contractVars

(* Power nobody needs goes off: an answer to a request that waits, or not. *)
LEMMA SwitchOffKept ==
  ASSUME AdapterInv, alive, ~needPower, needPower' = needPower,
         NEW switch, PowerOff(switch, switchPending)
  PROVE  Kept
<1>1. /\ powered' = FALSE
      /\ pending' = (pending /\ ~switchPending)
      /\ owed' = IF switchPending THEN owed - 1 ELSE owed
  BY DEF PowerOff, Notify
<1>2. (pending <=> switchPending) /\ (pending => owed = 1)
  BY DEF AdapterInv, WaitingAgrees, AnswersDue
<1>3. powered \in BOOLEAN /\ pending \in BOOLEAN
  BY DEF AdapterInv, TypeOK
<1>4. CASE switchPending
  <2>1. owed = 1 /\ owed' = owed - 1 /\ pending' = FALSE
    BY <1>1, <1>2, <1>4
  <2>2. OpenRequest = "off" /\ OpenRequest' = "none"
    BY <2>1 DEF OpenRequest
  <2>3. PC!Answer
    BY <1>1, <2>1, <2>2 DEF PC!Answer
  <2>4. QED
    BY <2>3 DEF Kept, PC!Next
<1>5. CASE ~switchPending
  <2>1. owed' = owed /\ pending' = pending
    BY <1>1, <1>2, <1>3, <1>5
  <2>2. OpenRequest' = OpenRequest
    BY <2>1 DEF OpenRequest
  <2>3. CASE powered
    <3>1. PC!GoOff
      BY <1>1, <2>1, <2>2, <2>3 DEF PC!GoOff
    <3>2. QED
      BY <3>1 DEF Kept, PC!Next
  <2>4. CASE ~powered
    BY <1>1, <1>3, <2>1, <2>2, <2>4 DEF Kept, PC!contractVars
  <2>5. QED
    BY <2>3, <2>4
<1>6. QED
  BY <1>4, <1>5

(* state_check() finds nothing to do, has a call to make, or switches off. *)
LEMMA StateCheckKept ==
  ASSUME AdapterInv, alive, NEW switch, NEW s, StateCheck(switch, s)
  PROVE  Kept
<1>1. CASE UNCHANGED selfVars /\ NotNotified
  BY <1>1 DEF Kept, PC!contractVars, OpenRequest, selfVars, NotNotified
<1>2. CASE CanPowerOff /\ PowerOff(switch, switchPending) /\ UNCHANGED needPower
  BY <1>2, SwitchOffKept DEF CanPowerOff
<1>3. QED
  BY <1>1, <1>2 DEF StateCheck

(* A request is left open, or is decided at once. *)
LEMMA SubmitKept ==
  ASSUME AdapterInv, NEW switch, Submit(switch)
  PROVE  Kept
<1>1. MayRequest /\ alive /\ ~pending
  BY DEF Submit, SubmitOnAlready, SubmitOn, SubmitOnFails, SubmitOffNow,
         SubmitOffIdle, SubmitOffWait, SubmitOffAlready, RequestCalling,
         Request, MayRequest
<1>2. owed = 0 /\ OpenRequest = "none"
  BY <1>1, MayCallFacts, RestFacts DEF MayRequest, OpenRequest
<1>3. ASSUME NEW on \in BOOLEAN, needPower' = on,
             UNCHANGED pending,
             \/ owed' = 1 /\ UNCHANGED powered
             \/ owed' = 0 /\ powered' = on
             \/ owed' = 0 /\ UNCHANGED powered
      PROVE  Kept
  <2>1. OpenRequest' = IF owed' = 1 THEN PC!Asks(on) ELSE "none"
    BY <1>3 DEF OpenRequest, PC!Asks
  <2>2. CASE owed' = 1 /\ UNCHANGED powered
    BY <1>1, <1>2, <1>3, <2>1, <2>2 DEF Kept, PC!Next, PC!Submit
  <2>3. CASE owed' = 0 /\ (powered' = on \/ UNCHANGED powered)
    <3>1. OpenRequest' = "none"
      BY <2>1, <2>3
    <3>2. QED
      BY <1>1, <1>2, <1>3, <2>3, <3>1 DEF Kept, PC!Next, PC!Submit
  <2>4. QED
    BY <1>3, <2>2, <2>3
<1>4. CASE SubmitOnAlready(switch) \/ SubmitOn(switch)
  BY <1>3, <1>4 DEF SubmitOnAlready, SubmitOn, RequestCalling, Request
<1>5. CASE SubmitOffIdle(switch) \/ SubmitOffWait(switch)
  BY <1>3, <1>5 DEF SubmitOffIdle, SubmitOffWait, RequestCalling, Request
<1>6. CASE SubmitOnFails(switch)
  BY <1>2, <1>3, <1>6 DEF SubmitOnFails, Request, NotNotified
<1>7. CASE SubmitOffNow(switch) \/ SubmitOffAlready(switch)
  BY <1>3, <1>7 DEF SubmitOffNow, SubmitOffAlready, Request
<1>8. QED
  BY <1>4, <1>5, <1>6, <1>7 DEF Submit

(* Calls of the core that return answer, refuse or leave the request waiting. *)
LEMMA ReturnsKept ==
  ASSUME ~Reentrant, AdapterInv, NEW switch, Returns(switch)
  PROVE  Kept
<1>1. CASE ResetOn(switch)
  BY <1>1 DEF ResetOn, Kept, PC!contractVars, OpenRequest, selfVars, NotNotified
<1>2. CASE Recheck(switch)
  BY <1>2, StateCheckKept DEF Recheck, InCall, AdapterInv
<1>3. CASE ReturnCheck(switch)
  <2>1. "check" \in OnStack(calls) /\ alive
    BY <1>3, ReturnFacts DEF ReturnCheck, CoreCalls
  <2>2. ~needPower
    BY <2>1 DEF AdapterInv, FramesKnow
  <2>3. QED
    BY <1>3, <2>1, <2>2, SwitchOffKept DEF ReturnCheck
<1>4. CASE ReturnOff(switch)
  <2>1. RequestOn(calls) = "off"
    BY <1>4, ReturnFacts DEF ReturnOff, CoreCalls, RequestCalls
  <2>2. ~needPower /\ owed = 1
    BY <2>1 DEF AdapterInv, FramesKnow, AnswersDue, RequestCalls
  <2>3. /\ needPower' = needPower /\ powered' = FALSE
        /\ pending' = FALSE /\ owed' = owed - 1
    BY <1>4 DEF ReturnOff, PowerOff, Notify
  <2>4. OpenRequest = "off" /\ OpenRequest' = "none"
    BY <2>2, <2>3 DEF OpenRequest
  <2>5. PC!Answer
    BY <2>3, <2>4 DEF PC!Answer
  <2>6. QED
    BY <2>5 DEF Kept, PC!Next
<1>5. CASE ReturnWait(switch)
  <2>1. RequestOn(calls) = "wait"
    BY <1>5, ReturnFacts DEF ReturnWait, CoreCalls, RequestCalls
  <2>2. ~needPower /\ owed = 1 /\ ~pending /\ pending \in BOOLEAN
    BY <2>1 DEF AdapterInv, TypeOK, FramesKnow, AnswersDue, RequestCalls
  <2>3. /\ UNCHANGED << needPower, powered >>
        /\ pending' = WillBecomeIdle
        /\ owed' = IF WillBecomeIdle THEN owed ELSE 0
    BY <1>5 DEF ReturnWait
  <2>4. OpenRequest = "off" /\ WillBecomeIdle \in BOOLEAN
    BY <2>2 DEF OpenRequest, WillBecomeIdle
  <2>5. CASE WillBecomeIdle
    <3>1. OpenRequest' = "off" /\ pending' = TRUE
      BY <2>2, <2>3, <2>4, <2>5 DEF OpenRequest
    <3>2. PC!Wait
      BY <2>2, <2>3, <2>4, <3>1 DEF PC!Wait
    <3>3. QED
      BY <3>2 DEF Kept, PC!Next
  <2>6. CASE ~WillBecomeIdle
    <3>1. OpenRequest' = "none" /\ pending' = FALSE
      BY <2>2, <2>3, <2>4, <2>6 DEF OpenRequest
    <3>2. PC!Refuse
      BY <2>2, <2>3, <2>4, <3>1 DEF PC!Refuse
    <3>3. QED
      BY <3>2 DEF Kept, PC!Next
  <2>7. QED
    BY <2>5, <2>6
<1>6. CASE ReturnOn(switch)
  <2>1. RequestOn(calls) \in { "on", "restart" }
    <3>1. \E frame \in { "on", "restart" } : InCall({ frame })
      BY <1>6 DEF ReturnOn, InCall
    <3>2. QED
      BY <3>1, ReturnFacts DEF CoreCalls, RequestCalls
  <2>2. needPower /\ owed = 1
    BY <2>1 DEF AdapterInv, FramesKnow, AnswersDue, RequestCalls
  <2>3. /\ needPower' = needPower /\ powered' = TRUE
        /\ pending' = FALSE /\ owed' = owed - 1
    BY <1>6 DEF ReturnOn, Notify, selfVars
  <2>4. OpenRequest = "on" /\ OpenRequest' = "none"
    BY <2>2, <2>3 DEF OpenRequest
  <2>5. PC!Answer
    BY <2>3, <2>4 DEF PC!Answer
  <2>6. QED
    BY <2>5 DEF Kept, PC!Next
<1>7. QED
  BY <1>1, <1>2, <1>3, <1>4, <1>5, <1>6 DEF Returns

(***************************************************************************)
(* What the base class may rely on, whatever the core does and however the *)
(* chip fails (the part of PowerContract.tla that is not liveness)         *)
(***************************************************************************)
THEOREM KeepsPowerContract ==
  ASSUME ~Reentrant
  PROVE  Safety => PC!Safety
<1>1. Init => PC!Init
  BY DEF Init, PC!Init, OpenRequest
<1>2. ASSUME AdapterInv, [Next]_vars
      PROVE  Kept
  <2>1. CASE UNCHANGED vars
    BY <2>1 DEF Kept, PC!contractVars, OpenRequest, vars, selfVars, baseVars
  <2>2. ASSUME NEW switch, Step(switch)
        PROVE  Kept
    <3>1. CASE New(switch)
      <4>1. ~alive /\ ~pending /\ calls = << >>
        BY <1>2, <3>1 DEF New, AdapterInv, WaitingAgrees
      <4>2. OpenRequest = "none" /\ pending \in BOOLEAN
        BY <1>2, <4>1, EmptyFacts, RestFacts DEF OpenRequest, TypeOK
      <4>3. OpenRequest' = "none" /\ ~needPower' /\ ~powered' /\ ~pending'
        BY <3>1 DEF New, OpenRequest
      <4>4. PC!Appear
        BY <3>1, <4>1, <4>2, <4>3 DEF New, PC!Appear
      <4>5. QED
        BY <4>4 DEF Kept, PC!Next
    <3>2. CASE Finalize(switch)
      BY <3>2 DEF Finalize, selfVars, OpenRequest, Kept, PC!Next, PC!Vanish
    <3>3. CASE CancelPowerRequest(switch)
      <4>1. alive /\ (calls = << >> \/ (told /\ owed = 0))
        BY <3>3 DEF CancelPowerRequest
      <4>2. powered = powerOn
        BY <1>2, <4>1, MayCallFacts, RestFacts
      <4>3. QED
        BY <3>3, <4>2
           DEF CancelPowerRequest, OpenRequest, Kept, PC!Next, PC!Cancel
    <3>4. CASE Submit(switch)
      BY <1>2, <3>4, SubmitKept
    <3>5. CASE CurrentStateChanged(switch)
      BY <1>2, <3>5, StateCheckKept DEF CurrentStateChanged, MayArrive
    <3>6. CASE SetsOut(switch)
      <4>1. PICK state \in States : NextStateChanged(switch, state)
        BY <3>6 DEF SetsOut
      <4>2. CASE ResetsChip(state)
        BY <4>1, <4>2
           DEF NextStateChanged, Kept, PC!contractVars, OpenRequest, selfVars,
               NotNotified
      <4>3. CASE ~ResetsChip(state)
        BY <1>2, <4>1, <4>3, StateCheckKept DEF NextStateChanged, MaySetOut
      <4>4. QED
        BY <4>2, <4>3
    <3>7. CASE Returns(switch)
      BY <1>2, <3>7, ReturnsKept
    <3>8. QED
      BY <2>2, <3>1, <3>2, <3>3, <3>4, <3>5, <3>6, <3>7 DEF Step
  <2>3. QED
    BY <1>2, <2>1, <2>2 DEF Next
<1>3. AdapterInv /\ [Next]_vars => [PC!Next]_(PC!contractVars)
  BY <1>2 DEF Kept
<1>4. QED
  BY <1>1, <1>3, AdapterInvariant, PTL DEF Safety, PC!Safety
=============================================================================
