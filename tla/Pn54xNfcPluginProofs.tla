------------------------ MODULE Pn54xNfcPluginProofs ------------------------
(***************************************************************************)
(* The references of Pn54xNfcPlugin.tla, for every number of adapters and  *)
(* of references that others hold.                                         *)
(***************************************************************************)
EXTENDS Pn54xNfcPlugin, TLAPS

(***************************************************************************)
(* The inductive invariant: stop() finds its adapter because only a plugin *)
(* that was started has one.                                               *)
(***************************************************************************)
PluginInv ==
  /\ TypeOK /\ HeldByItsUsers /\ ListsOurs
  /\ ~started => adapter = NULL

LEMMA CountIsNat == \A b \in BOOLEAN : Count(b) = (IF b THEN 1 ELSE 0)
BY DEF Count

(* start(): the new adapter, if there is one, was nobody's. *)
LEMMA StartKeepsRefs ==
  ASSUME PluginInv, NEW a \in Adapters \cup { NULL }, Start(a)
  PROVE  PluginInv'
<1>1. /\ adapter = NULL /\ ~started /\ running /\ started' = TRUE
      /\ manager' = TRUE /\ managerRefs' = managerRefs + 1
      /\ adapter' = a /\ listed' = listed \cup ({ a } \ { NULL })
      /\ refs' = [b \in Adapters |-> IF b = a THEN 2 ELSE refs[b]]
      /\ running' = running /\ held' = held
      /\ a \in Adapters => refs[a] = 0
  BY DEF Start, AddAdapter, PluginInv
<1>2. /\ refs \in [Adapters -> Nat] /\ held \in [Adapters -> 0 .. MaxHolds]
      /\ managerRefs \in Nat /\ managerRefs = Count(running) + Count(started)
      /\ listed \subseteq Adapters /\ listed = {}
      /\ \A b \in Adapters :
           refs[b] = Count(adapter = b) + Count(b \in listed) + held[b]
  BY <1>1 DEF PluginInv, TypeOK, HeldByItsUsers, ListsOurs
<1>3. TypeOK'
  <2>1. refs' \in [Adapters -> Nat]
    BY <1>1, <1>2
  <2>2. adapter' \in Adapters \cup { NULL } /\ listed' \subseteq Adapters
    BY <1>1, <1>2
  <2>3. managerRefs' \in Nat
    <3>1. managerRefs' = managerRefs + 1 /\ managerRefs \in Nat
      BY <1>1, <1>2, Zenon
    <3>2. QED
      BY <3>1
  <2>4. running' \in BOOLEAN
    BY <1>1 DEF PluginInv, TypeOK
  <2>5. QED
    BY <1>1, <1>2, <2>1, <2>2, <2>3, <2>4, Zenon DEF TypeOK
<1>4. ListsOurs' /\ (started' \/ adapter' = NULL)
  BY <1>1, <1>2 DEF ListsOurs
<1>5. managerRefs' = Count(running') + Count(started')
  BY <1>1, <1>2 DEF Count
<1>6. ASSUME NEW b \in Adapters
      PROVE  refs'[b] = Count(adapter' = b) + Count(b \in listed') + held'[b]
  <2>1. /\ held[b] \in Nat /\ refs[b] \in Nat /\ b # NULL
        /\ refs[b] = Count(adapter = b) + Count(b \in listed) + held[b]
        /\ refs'[b] = IF b = a THEN 2 ELSE refs[b]
    BY <1>1, <1>2, PluginAssumption
  <2>2. CASE b = a
    BY <1>1, <1>2, <2>1, <2>2 DEF Count
  <2>3. CASE b # a
    BY <1>1, <1>2, <2>1, <2>3 DEF Count
  <2>4. QED
    BY <2>2, <2>3
<1>7. QED
  BY <1>1, <1>3, <1>4, <1>5, <1>6 DEF PluginInv, HeldByItsUsers

(* stop() with an adapter: two of its references go. *)
LEMMA StopWithAdapterKeepsRefs ==
  ASSUME PluginInv, StopWithAdapter
  PROVE  PluginInv'
<1>1. /\ adapter # NULL /\ started /\ started' = FALSE /\ manager' = FALSE
      /\ managerRefs' = managerRefs - 1
      /\ running' = running /\ held' = held
      /\ listed' = listed \ { adapter }
      /\ refs' = [refs EXCEPT ![adapter] = @ - 2]
      /\ adapter' = NULL
  BY DEF StopWithAdapter, ReleaseManager, DroppedRefs
<1>2. /\ adapter \in Adapters /\ listed = { adapter }
      /\ refs \in [Adapters -> Nat] /\ held \in [Adapters -> 0 .. MaxHolds]
      /\ managerRefs = Count(running) + Count(started)
      /\ running \in BOOLEAN
      /\ \A b \in Adapters :
           refs[b] = Count(adapter = b) + Count(b \in listed) + held[b]
  BY <1>1 DEF PluginInv, TypeOK, HeldByItsUsers, ListsOurs
<1>3. managerRefs' = Count(running') + Count(started') /\ managerRefs' \in Nat
  BY <1>1, <1>2 DEF Count
<1>4. ASSUME NEW b \in Adapters
      PROVE  /\ refs'[b] = Count(adapter' = b) + Count(b \in listed') + held'[b]
             /\ refs'[b] \in Nat
  <2>1. /\ held[b] \in Nat /\ refs[b] \in Nat /\ b # NULL
        /\ refs[b] = Count(adapter = b) + Count(b \in listed) + held[b]
        /\ refs'[b] = IF b = adapter THEN refs[b] - 2 ELSE refs[b]
    BY <1>1, <1>2, PluginAssumption
  <2>2. QED
    BY <1>1, <1>2, <2>1 DEF Count
<1>5. refs' \in [Adapters -> Nat]
  BY <1>1, <1>2, <1>4
<1>6. TypeOK' /\ ListsOurs'
  BY <1>1, <1>2, <1>3, <1>5 DEF PluginInv, TypeOK, ListsOurs
<1>7. QED
  BY <1>1, <1>3, <1>4, <1>6 DEF PluginInv, HeldByItsUsers

(* Others take one reference, or drop one. *)
LEMMA HoldersKeepRefs ==
  ASSUME PluginInv, NEW a \in Adapters, Hold(a) \/ Release(a)
  PROVE  PluginInv'
<1>1. /\ refs \in [Adapters -> Nat] /\ held \in [Adapters -> 0 .. MaxHolds]
      /\ \A b \in Adapters :
           refs[b] = Count(adapter = b) + Count(b \in listed) + held[b]
      /\ MaxHolds \in Nat
  BY PluginAssumption DEF PluginInv, TypeOK, HeldByItsUsers
<1>2. UNCHANGED << manager, adapter, started, managerRefs, running, listed >>
  BY DEF Hold, Release, pluginVars
<1>3. PICK d \in { 1, -1 } :
        /\ held' = [held EXCEPT ![a] = @ + d]
        /\ refs' = [refs EXCEPT ![a] = @ + d]
        /\ held[a] + d \in 0 .. MaxHolds
  <2>1. CASE Hold(a)
    <3>1. /\ held' = [held EXCEPT ![a] = @ + 1]
          /\ refs' = [refs EXCEPT ![a] = @ + 1]
          /\ held[a] < MaxHolds
      BY <2>1 DEF Hold
    <3>2. held[a] \in 0 .. MaxHolds
      BY <1>1
    <3>3. held[a] + 1 \in 0 .. MaxHolds
      BY <1>1, <3>1, <3>2
    <3>4. QED
      BY <3>1, <3>3
  <2>2. CASE Release(a)
    <3>1. /\ held' = [held EXCEPT ![a] = @ - 1]
          /\ refs' = [refs EXCEPT ![a] = @ - 1]
          /\ held[a] > 0
      BY <2>2 DEF Release
    <3>2. held[a] \in 0 .. MaxHolds /\ refs[a] \in Nat
      BY <1>1
    <3>3. held[a] - 1 = held[a] + (-1) /\ refs[a] - 1 = refs[a] + (-1)
      BY <3>2
    <3>4. /\ held' = [held EXCEPT ![a] = @ + (-1)]
          /\ refs' = [refs EXCEPT ![a] = @ + (-1)]
      BY <3>1, <3>3
    <3>5. held[a] + (-1) \in 0 .. MaxHolds
      BY <1>1, <3>1, <3>2
    <3>6. WITNESS -1 \in { 1, -1 }
    <3>7. QED
      BY <3>4, <3>5
  <2>3. QED
    BY <2>1, <2>2
<1>4. held' \in [Adapters -> 0 .. MaxHolds]
  BY <1>1, <1>3
<1>5. ASSUME NEW b \in Adapters
      PROVE  /\ refs'[b] = Count(adapter' = b) + Count(b \in listed') + held'[b]
             /\ refs'[b] \in Nat
  <2>1. /\ held[b] \in Nat /\ held'[b] \in Nat
        /\ refs[b] = Count(adapter = b) + Count(b \in listed) + held[b]
        /\ refs'[b] = IF b = a THEN refs[b] + d ELSE refs[b]
        /\ held'[b] = IF b = a THEN held[b] + d ELSE held[b]
    BY <1>1, <1>3, <1>4
  <2>2. d \in Int
    OBVIOUS
  <2>3. QED
    BY <1>2, <2>1, <2>2 DEF Count
<1>6. refs' \in [Adapters -> Nat]
  BY <1>1, <1>3, <1>5
<1>7. TypeOK' /\ ListsOurs'
  BY <1>2, <1>4, <1>6 DEF PluginInv, TypeOK, ListsOurs
<1>8. QED
  BY <1>2, <1>5, <1>7 DEF PluginInv, HeldByItsUsers

(* The steps that touch no adapter *)
LEMMA ManagerKeepsRefs ==
  ASSUME PluginInv,
         UNCHANGED << adapter, refs, listed, held >>,
         \/ StopWithoutAdapter \/ NfcdExits \/ NfcdComesBack
         \/ UNCHANGED vars
  PROVE  PluginInv'
<1>1. /\ managerRefs \in Nat
      /\ managerRefs = Count(running) + Count(started)
      /\ running \in BOOLEAN /\ started \in BOOLEAN
  BY DEF PluginInv, TypeOK, HeldByItsUsers
<1>2. /\ managerRefs' = Count(running') + Count(started')
      /\ running' \in BOOLEAN /\ started' \in BOOLEAN
      /\ manager' \in BOOLEAN /\ (manager' <=> started')
      /\ started' \/ adapter = NULL
  <2>0. /\ manager \in BOOLEAN /\ (manager <=> started)
        /\ started \/ adapter = NULL
    BY DEF PluginInv, TypeOK, HeldByItsUsers
  <2>1. CASE StopWithoutAdapter
    <3>1. /\ adapter = NULL /\ started = TRUE /\ started' = FALSE
          /\ managerRefs' = managerRefs - 1
          /\ manager' = FALSE /\ running' = running
      BY <2>1, <1>1 DEF StopWithoutAdapter, ReleaseManager
    <3>2. managerRefs' = Count(running') + Count(started')
      BY <1>1, <3>1 DEF Count
    <3>3. QED
      BY <1>1, <3>1, <3>2
  <2>2. CASE NfcdExits
    <3>1. /\ running = TRUE /\ running' = FALSE
          /\ managerRefs' = managerRefs - 1
          /\ started' = started /\ manager' = manager
      BY <2>2, <1>1 DEF NfcdExits, pluginVars
    <3>2. managerRefs' = Count(running') + Count(started')
      BY <1>1, <3>1 DEF Count
    <3>3. started' \in BOOLEAN /\ manager' \in BOOLEAN /\ (manager' <=> started')
      BY <1>1, <2>0, <3>1, Zenon
    <3>4. QED
      BY <2>0, <3>1, <3>2, <3>3
  <2>3. CASE NfcdComesBack
    <3>1. /\ managerRefs = 0 /\ running' = TRUE /\ managerRefs' = 1
          /\ started' = started /\ manager' = manager
      BY <2>3 DEF NfcdComesBack, pluginVars
    <3>2. started = FALSE
      BY <1>1, <3>1 DEF Count
    <3>3. QED
      BY <1>1, <2>0, <3>1, <3>2 DEF Count
  <2>4. CASE UNCHANGED vars
    BY <1>1, <2>0, <2>4 DEF vars, pluginVars
  <2>5. QED
    BY <2>1, <2>2, <2>3, <2>4
<1>3. managerRefs' \in Nat
  BY <1>2 DEF Count
<1>4. TypeOK' /\ ListsOurs'
  BY <1>2, <1>3 DEF PluginInv, TypeOK, ListsOurs
<1>5. QED
  BY <1>2, <1>4 DEF PluginInv, HeldByItsUsers

THEOREM PluginInvariant == Spec => []PluginInv
<1>1. Init => PluginInv
  <2> SUFFICES ASSUME Init
               PROVE  PluginInv
    OBVIOUS
  <2>1. /\ manager = FALSE /\ adapter = NULL /\ started = FALSE
        /\ refs = [a \in Adapters |-> 0] /\ managerRefs = 1
        /\ running = TRUE /\ listed = {} /\ held = [a \in Adapters |-> 0]
    BY DEF Init
  <2>2. TypeOK
    <3>1. 0 \in 0 .. MaxHolds /\ 1 \in Nat
      BY PluginAssumption
    <3>2. /\ refs \in [Adapters -> Nat]
          /\ held \in [Adapters -> 0 .. MaxHolds]
      BY <2>1, <3>1
    <3>3. QED
      BY <2>1, <3>1, <3>2 DEF TypeOK
  <2>3. HeldByItsUsers
    BY <2>1, PluginAssumption DEF HeldByItsUsers, Count
  <2>4. QED
    BY <2>1, <2>2, <2>3 DEF PluginInv, ListsOurs
<1>2. PluginInv /\ [Next]_vars => PluginInv'
  <2> SUFFICES ASSUME PluginInv, [Next]_vars
               PROVE  PluginInv'
    OBVIOUS
  <2>1. ASSUME NEW a \in Adapters \cup { NULL }, Start(a)
        PROVE  PluginInv'
    BY <2>1, StartKeepsRefs
  <2>2. CASE StopWithAdapter
    BY <2>2, StopWithAdapterKeepsRefs
  <2>3. ASSUME NEW a \in Adapters, Hold(a) \/ Release(a)
        PROVE  PluginInv'
    BY <2>3, HoldersKeepRefs
  <2>4. CASE \/ StopWithoutAdapter \/ NfcdExits \/ NfcdComesBack
             \/ UNCHANGED vars
    <3>1. UNCHANGED << adapter, refs, listed, held >>
      BY <2>4 DEF StopWithoutAdapter, ReleaseManager, NfcdExits,
                  NfcdComesBack, vars, pluginVars
    <3>2. QED
      BY <2>4, <3>1, ManagerKeepsRefs
  <2>5. QED
    BY <2>1, <2>2, <2>3, <2>4 DEF Next
<1>3. QED
  BY <1>1, <1>2, PTL DEF Spec

(* What is referenced is there, once for each of those who use it. *)
THEOREM HeldByItsUsersAlways == Spec => []HeldByItsUsers
<1>1. PluginInv => HeldByItsUsers
  BY DEF PluginInv
<1>2. QED
  BY <1>1, PluginInvariant, PTL

(* The manager lists the plugin's adapter and no other. *)
THEOREM ListsOursAlways == Spec => []ListsOurs
<1>1. PluginInv => ListsOurs
  BY DEF PluginInv
<1>2. QED
  BY <1>1, PluginInvariant, PTL

(* Type correctness: no reference count ever falls below zero. *)
THEOREM PluginTyped == Spec => []TypeOK
<1>1. PluginInv => TypeOK
  BY DEF PluginInv
<1>2. QED
  BY <1>1, PluginInvariant, PTL
=============================================================================
