--------------------------- MODULE Pn54xNfcPlugin ---------------------------
(***************************************************************************)
(* The life cycle of the plugin in src/src/pn54x_nfc_plugin.c: what it     *)
(* starts and stops, and who holds a reference to what.  The manager, nfcd *)
(* and those who use the adapters of the manager are not in the repository.*)
(***************************************************************************)
EXTENDS Integers

CONSTANTS
  Adapters,       \* the adapters there may be at a time
  NULL,           \* no adapter
  MaxHolds        \* bound: references of others to one adapter

ASSUME PluginAssumption ==
  /\ NULL \notin Adapters
  /\ MaxHolds \in Nat

VARIABLES
  manager,        \* self->manager # NULL
  adapter,        \* self->adapter
  started,        \* nfcd has started the plugin, and not stopped it
  \* the manager, nfcd and the others
  refs,           \* the reference count of each adapter; 0: not there
  managerRefs,    \* the reference count of the manager
  running,        \* nfcd has its reference to the manager
  listed,         \* the adapters of the manager
  held            \* the references that others have to each adapter

pluginVars == << manager, adapter, started >>
vars == << pluginVars, refs, managerRefs, running, listed, held >>

Existing == { a \in Adapters : refs[a] > 0 }

TypeOK ==
  /\ manager \in BOOLEAN /\ started \in BOOLEAN /\ running \in BOOLEAN
  /\ adapter \in Adapters \cup { NULL }
  /\ refs \in [Adapters -> Nat] /\ held \in [Adapters -> 0 .. MaxHolds]
  /\ managerRefs \in Nat
  /\ listed \subseteq Adapters

Init ==
  /\ manager = FALSE /\ adapter = NULL /\ started = FALSE
  /\ refs = [a \in Adapters |-> 0]
  /\ managerRefs = 1 /\ running = TRUE
  /\ listed = {}
  /\ held = [a \in Adapters |-> 0]

-----------------------------------------------------------------------------
(* nfc_manager_add_adapter(), which ignores NULL, takes a reference. *)
AddAdapter(a) == listed' = listed \cup ({ a } \ { NULL })

(***************************************************************************)
(* pn54x_nfc_plugin_start(): pn54x_nfc_adapter_new() may return NULL, when *)
(* the device cannot be opened or does not work; start() returns TRUE in   *)
(* any case.  The new adapter has the reference of its creator and that of *)
(* the manager.                                                            *)
(***************************************************************************)
Start(a) ==
  /\ running /\ ~started
  /\ a \in Adapters => refs[a] = 0
  /\ started' = TRUE
  /\ manager' = TRUE
  /\ managerRefs' = managerRefs + 1
  /\ adapter' = a
  /\ AddAdapter(a)
  /\ refs' = [b \in Adapters |-> IF b = a THEN 2 ELSE refs[b]]
  /\ UNCHANGED << running, held >>

(* Faults: only the manager gives its reference back; one more is given. *)
DroppedRefs_OwnKept(a) == [refs EXCEPT ![a] = @ - 1]
DroppedRefs_OneTooMany(a) == [refs EXCEPT ![a] = @ - 3]

(* What stop() gives back: nfc_manager_remove_adapter() and its own *)
DroppedRefs(a) == [refs EXCEPT ![a] = @ - 2]

(* A fault: without an adapter, nothing is given back. *)
StopWithoutAdapter_ManagerKept ==
  /\ started
  /\ adapter = NULL
  /\ started' = FALSE
  /\ UNCHANGED << manager, adapter, managerRefs, refs, listed, running, held >>

ReleaseManager ==
  /\ started
  /\ started' = FALSE
  /\ manager' = FALSE
  /\ managerRefs' = managerRefs - 1
  /\ UNCHANGED << running, held >>

(* A fault: the manager keeps the adapter. *)
StopWithAdapter_StillListed ==
  /\ adapter # NULL
  /\ refs' = DroppedRefs(adapter)
  /\ adapter' = NULL
  /\ ReleaseManager
  /\ UNCHANGED listed

(* pn54x_nfc_plugin_stop(), with an adapter and without *)
StopWithAdapter ==
  /\ adapter # NULL
  /\ listed' = listed \ { adapter }
  /\ refs' = DroppedRefs(adapter)
  /\ adapter' = NULL
  /\ ReleaseManager

StopWithoutAdapter ==
  /\ adapter = NULL
  /\ ReleaseManager
  /\ UNCHANGED << adapter, refs, listed >>

-----------------------------------------------------------------------------
(* Others take references to the adapters of the manager, and drop them. *)
Hold(a) ==
  /\ a \in listed
  /\ held[a] < MaxHolds
  /\ held' = [held EXCEPT ![a] = @ + 1]
  /\ refs' = [refs EXCEPT ![a] = @ + 1]
  /\ UNCHANGED << pluginVars, managerRefs, running, listed >>

Release(a) ==
  /\ held[a] > 0
  /\ held' = [held EXCEPT ![a] = @ - 1]
  /\ refs' = [refs EXCEPT ![a] = @ - 1]
  /\ UNCHANGED << pluginVars, managerRefs, running, listed >>

(* nfcd drops the manager, with the plugin stopped or not, and comes back. *)
NfcdExits ==
  /\ running
  /\ running' = FALSE
  /\ managerRefs' = managerRefs - 1
  /\ UNCHANGED << pluginVars, refs, listed, held >>

NfcdComesBack ==
  /\ managerRefs = 0
  /\ running' = TRUE
  /\ managerRefs' = 1
  /\ UNCHANGED << pluginVars, refs, listed, held >>

Next ==
  \/ \E a \in Adapters \cup { NULL } : Start(a)
  \/ StopWithAdapter \/ StopWithoutAdapter
  \/ \E a \in Adapters : Hold(a) \/ Release(a)
  \/ NfcdExits \/ NfcdComesBack

(* The others let go of an adapter that the manager has removed. *)
Spec ==
  /\ Init /\ [][Next]_vars
  /\ \A a \in Adapters : WF_vars(a \notin listed /\ Release(a))

-----------------------------------------------------------------------------
Count(b) == IF b THEN 1 ELSE 0

(***************************************************************************)
(* What stop() calls is there: the manager, whoever else has dropped it,   *)
(* and the adapter, with a reference for each of those that use it.  An    *)
(* adapter that is not the plugin's, and may still have the chip that a    *)
(* new one has switched off, is one that others hold on to.                *)
(***************************************************************************)
HeldByItsUsers ==
  /\ managerRefs = Count(running) + Count(started)
  /\ manager <=> started
  /\ \A a \in Adapters :
       refs[a] = Count(adapter = a) + Count(a \in listed) + held[a]

(***************************************************************************)
(* The manager lists the adapter of the plugin and no other, also when it  *)
(* was started without its driver, and none of a plugin that is stopped.   *)
(***************************************************************************)
ListsOurs == listed = { adapter } \ { NULL }

(***************************************************************************)
(* An adapter the plugin has stopped using is finalized, and with it the   *)
(* reader process and the descriptors of its HAL I/O object.               *)
(***************************************************************************)
StoppedIsFinalized ==
  \A a \in Adapters : (refs[a] > 0 /\ adapter # a) ~> refs[a] = 0
=============================================================================
