-------------------------- MODULE Pn54xNfcAdapter --------------------------
(***************************************************************************)
(* The power logic of src/src/pn54x_nfc_adapter.c, between three parties   *)
(* that are not in the repository: the NfcAdapter base class, which asks   *)
(* for power and is notified; NciCore, whose current and next states decide*)
(* when power may go off; and the chip behind pn54x_io_set_power().        *)
(*                                                                         *)
(* nci_core_set_state() and nci_core_restart() may change the states of    *)
(* the core before they return, and then call the adapter back while one   *)
(* of its own functions is on the stack.  Every such call is a frame of    *)
(* "calls": the function is split there, what the core does inside the     *)
(* call are steps of their own, and a Return step is the rest of the       *)
(* function.  The rest always works on what it decided before the call.    *)
(*                                                                         *)
(* Every action has a parameter "switch", the call of pn54x_io_set_power() *)
(* it makes, at most one per step; what it does to the chip is ChipAfter,  *)
(* and what it does to the HAL I/O object is the business of Pn54xSystem.  *)
(***************************************************************************)
EXTENDS Integers, Sequences

CONSTANTS
  MaxFaults,      \* bound: failures of pn54x_io_set_power()
  Reentrant       \* the base class calls back from nfc_adapter_power_notify()

ASSUME AdapterAssumption == MaxFaults \in Nat /\ Reentrant \in BOOLEAN

VARIABLES
  alive,          \* the adapter exists
  needPower,      \* need_power
  powerOn,        \* power_on
  switchPending,  \* power_switch_pending
  calls,          \* the calls that have not returned
  progress,       \* how far the core has got inside them
  \* outside the adapter
  current,        \* nci->current_state
  next,           \* nci->next_state
  chipOn,         \* the chip has power
  faults,         \* how often pn54x_io_set_power() failed
  \* the base class
  pending,        \* the last request was answered "wait"
  powered,        \* the power state it was last notified of
  told,           \* it is being notified, and may call back
  owed            \* answers due to the last request, see Notify

selfVars == << needPower, powerOn, switchPending >>
coreVars == << current, next >>
chipVars == << chipOn, faults >>
baseVars == << pending, powered, owed, told >>
callVars == << calls, progress >>
vars == << alive, selfVars, callVars, coreVars, chipVars, baseVars >>

(***************************************************************************)
(* The states of the core that the adapter tells apart: below RFST_IDLE,   *)
(* RFST_IDLE itself, and all those beyond it.                              *)
(***************************************************************************)
States == { "init", "error", "idle", "active" }

AtMostIdle(s) == s # "active"

(***************************************************************************)
(* Where the core was called: by can_power_off() for state_check() or for  *)
(* a request, by a request that has to wait, by a request for power that   *)
(* is on already, and to restart after switching on.                       *)
(***************************************************************************)
RequestCalls == { "off", "wait", "on", "restart" }
CoreCalls == RequestCalls \cup { "check" }

(* next_state_changed() between and after the two halves of a chip reset *)
Frames == CoreCalls \cup { "reset", "recheck" }

(* nothing has changed yet; the core has set out; it has arrived *)
Progress == { "none", "under way", "arrived" }

(* The calls of pn54x_io_set_power(), and whether they work *)
NoSwitch == [call |-> "none", works |-> TRUE]

Switches == { NoSwitch } \cup [call : { "on", "off" }, works : BOOLEAN]

TypeOK ==
  /\ alive \in BOOLEAN
  /\ needPower \in BOOLEAN /\ powerOn \in BOOLEAN /\ switchPending \in BOOLEAN
  /\ calls \in Seq(Frames) /\ progress \in Progress
  /\ current \in States /\ next \in States
  /\ chipOn \in BOOLEAN /\ faults \in 0 .. MaxFaults
  /\ pending \in BOOLEAN /\ powered \in BOOLEAN /\ told \in BOOLEAN
  /\ owed \in -1 .. 1

Init ==
  /\ alive = FALSE
  /\ needPower = FALSE /\ powerOn = FALSE /\ switchPending = FALSE
  /\ calls = << >> /\ progress = "none"
  /\ current = "init" /\ next = "init"
  /\ chipOn \in BOOLEAN /\ faults = 0
  /\ pending = FALSE /\ powered = FALSE /\ told = FALSE /\ owed = 0

AtRest == alive /\ calls = << >>

InCall(frames) == calls # << >> /\ calls[Len(calls)] \in frames

Popped == SubSeq(calls, 1, Len(calls) - 1)

(* The frame on top returns, or becomes another one. *)
Pop ==
  /\ calls' = Popped
  /\ progress' = IF Popped = << >> THEN "none" ELSE progress

GoOnTo(frame) == calls' = Append(Popped, frame) /\ UNCHANGED progress

-----------------------------------------------------------------------------
(* pn54x_io_set_power(): when it does not work the chip stays as it is. *)
ChipAfter(switch) ==
  /\ chipOn' = IF switch.works /\ switch.call # "none"
               THEN switch.call = "on"
               ELSE chipOn
  /\ faults' = IF switch.works THEN faults ELSE faults + 1
  /\ faults' <= MaxFaults

(***************************************************************************)
(* nfc_adapter_power_notify().  An answer to a request is due once, from   *)
(* the request until the answer or until it fails or is called off.        *)
(***************************************************************************)
Notify(on, requested) ==
  /\ powered' = on
  /\ pending' = (pending /\ ~requested)
  /\ owed' = IF requested THEN owed - 1 ELSE owed
  /\ told' = Reentrant

NotNotified == UNCHANGED << pending, powered, owed >> /\ told' = FALSE

(* A fault: power goes off unasked and nobody is told. *)
PowerOff_Quietly(switch, requested) ==
  /\ switch.call = "off"
  /\ powerOn' = FALSE
  /\ IF requested THEN Notify(FALSE, TRUE) ELSE NotNotified

(* A fault: a request that waits is answered twice. *)
PowerOff_AnswersTwice(switch, requested) ==
  /\ switch.call = "off"
  /\ powerOn' = FALSE
  /\ powered' = FALSE /\ pending' = FALSE /\ told' = Reentrant
  /\ owed' = owed - 1

(* Switch off without looking at the result, and tell the base class. *)
PowerOff(switch, requested) ==
  /\ switch.call = "off"
  /\ powerOn' = FALSE
  /\ Notify(FALSE, requested)

(* A fault: power goes off whether or not it is needed. *)
CanPowerOff_NeedIgnored == powerOn /\ AtMostIdle(current')

(* The condition of state_check(), can_power_off() included *)
CanPowerOff == powerOn /\ ~needPower /\ AtMostIdle(current')

(***************************************************************************)
(* pn54x_nfc_adapter_state_check(), in the state the core has just got     *)
(* into, called with "frames" on the stack: it does nothing, or calls      *)
(* nci_core_set_state() in can_power_off(), or switches off.               *)
(***************************************************************************)
StateCheck(switch, frames) ==
  \/ /\ ~CanPowerOff
     /\ switch = NoSwitch
     /\ calls' = frames
     /\ UNCHANGED selfVars /\ NotNotified
  \/ /\ CanPowerOff
     /\ current' = "idle"
     /\ switch = NoSwitch
     /\ calls' = Append(frames, "check")
     /\ UNCHANGED selfVars /\ NotNotified
  \/ /\ CanPowerOff
     /\ current' # "idle"
     /\ PowerOff(switch, switchPending)
     /\ switchPending' = FALSE
     /\ calls' = frames
     /\ UNCHANGED needPower

-----------------------------------------------------------------------------
(***************************************************************************)
(* What the core may do: from the main loop it sets out for any state and  *)
(* arrives; inside a call it sets out at most once, for RFST_IDLE or, when *)
(* that fails, for the error state (a restart begins with the initial      *)
(* state), and may arrive before the call returns.                         *)
(***************************************************************************)
MaySetOut(s) ==
  /\ alive
  /\ s # next
  /\ calls # << >> =>
       /\ InCall(CoreCalls)
       /\ progress = "none"
       /\ s # "active"
       /\ s = "init" => InCall({ "restart" })
  /\ progress' = IF calls = << >> THEN "none" ELSE "under way"

MayArrive ==
  /\ alive
  /\ current # next
  /\ calls # << >> => InCall(CoreCalls) /\ progress = "under way"
  /\ progress' = IF calls = << >> THEN "none" ELSE "arrived"

(* A fault: only the next state is watched. *)
CurrentStateChanged_Unchecked(switch) ==
  /\ MayArrive
  /\ current' = next
  /\ switch = NoSwitch
  /\ NotNotified
  /\ UNCHANGED << alive, selfVars, next, calls >>

(* The core gets where it was going: current_state_changed() *)
CurrentStateChanged(switch) ==
  /\ MayArrive
  /\ current' = next
  /\ StateCheck(switch, calls)
  /\ UNCHANGED << alive, next >>

ResetsChip(s) == s = "error" /\ powerOn

(***************************************************************************)
(* The core sets out for another state: next_state_changed(), which resets *)
(* the chip on the way to an error.                                        *)
(***************************************************************************)
NextStateChanged(switch, s) ==
  /\ MaySetOut(s)
  /\ next' = s
  /\ UNCHANGED << alive, current >>
  /\ IF ResetsChip(s)
     THEN /\ switch.call = "off"
          /\ calls' = Append(calls, "reset")
          /\ UNCHANGED selfVars /\ NotNotified
     ELSE StateCheck(switch, calls)

(* A fault: the reset switches the chip off and leaves it so. *)
ResetOn_Forgotten(switch) ==
  /\ InCall({ "reset" })
  /\ switch = NoSwitch
  /\ GoOnTo("recheck")
  /\ NotNotified
  /\ UNCHANGED << alive, selfVars, coreVars >>

(* The second half of the reset, whatever became of the first *)
ResetOn(switch) ==
  /\ InCall({ "reset" })
  /\ switch.call = "on"
  /\ GoOnTo("recheck")
  /\ NotNotified
  /\ UNCHANGED << alive, selfVars, coreVars >>

(* next_state_changed() ends with state_check(). *)
Recheck(switch) ==
  /\ InCall({ "recheck" })
  /\ progress' = IF Popped = << >> THEN "none" ELSE progress
  /\ UNCHANGED << alive, coreVars >>
  /\ StateCheck(switch, Popped)

-----------------------------------------------------------------------------
(***************************************************************************)
(* pn54x_nfc_adapter_submit_power_request().  The base class has one       *)
(* request at a time.  It makes the next one from the main loop, or, if it *)
(* is of that kind, from inside the notification that the last one is over.*)
(***************************************************************************)
MayRequest ==
  /\ alive
  /\ ~pending
  /\ calls = << >> \/ (told /\ owed = 0)

Request(on) ==
  /\ MayRequest
  /\ needPower' = on
  /\ progress' = "none"
  /\ UNCHANGED << alive, coreVars, switchPending >>

(* It calls the core: the answer is still due. *)
RequestCalling(on, frame) ==
  /\ Request(on)
  /\ owed' = 1
  /\ calls' = Append(calls, frame)
  /\ told' = FALSE
  /\ UNCHANGED << pending, powered >>

SubmitOnAlready(switch) ==
  /\ powerOn
  /\ switch = NoSwitch
  /\ RequestCalling(TRUE, "on")
  /\ UNCHANGED powerOn

(* A fault: a core that was left in RFST_IDLE is not restarted. *)
SubmitOn_IdleKept(switch) ==
  /\ ~powerOn
  /\ switch.call = "on" /\ switch.works
  /\ powerOn' = TRUE
  /\ RequestCalling(TRUE, IF current = "idle" THEN "on" ELSE "restart")

SubmitOn(switch) ==
  /\ ~powerOn
  /\ switch.call = "on" /\ switch.works
  /\ powerOn' = TRUE
  /\ RequestCalling(TRUE, "restart")

(* The request fails, and need_power stays: FALSE is all the caller gets. *)
SubmitOnFails(switch) ==
  /\ ~powerOn
  /\ switch.call = "on" /\ ~switch.works
  /\ Request(TRUE)
  /\ NotNotified
  /\ UNCHANGED << powerOn, calls >>

(* can_power_off() is TRUE, at once or after nci_core_set_state() *)
SubmitOffNow(switch) ==
  /\ powerOn
  /\ AtMostIdle(current) /\ current # "idle"
  /\ switch.call = "off"
  /\ Request(FALSE)
  /\ powerOn' = FALSE
  /\ powered' = FALSE /\ owed' = 0 /\ told' = Reentrant
  /\ UNCHANGED << calls, pending >>

SubmitOffIdle(switch) ==
  /\ powerOn
  /\ current = "idle"
  /\ switch = NoSwitch
  /\ RequestCalling(FALSE, "off")
  /\ UNCHANGED powerOn

SubmitOffWait(switch) ==
  /\ powerOn
  /\ ~AtMostIdle(current)
  /\ switch = NoSwitch
  /\ RequestCalling(FALSE, "wait")
  /\ UNCHANGED powerOn

(* "Power stays off, we are done" *)
SubmitOffAlready(switch) ==
  /\ ~powerOn
  /\ switch = NoSwitch
  /\ Request(FALSE)
  /\ powered' = FALSE /\ owed' = 0 /\ told' = Reentrant
  /\ UNCHANGED << powerOn, calls, pending >>

(* pn54x_nfc_adapter_cancel_power_request() *)
CancelPowerRequest(switch) ==
  /\ alive /\ (calls = << >> \/ (told /\ owed = 0))
  /\ switch = NoSwitch
  /\ needPower' = powerOn
  /\ switchPending' = FALSE
  /\ pending' = FALSE /\ owed' = 0 /\ told' = FALSE
  /\ UNCHANGED << alive, powerOn, callVars, coreVars, powered >>

-----------------------------------------------------------------------------
(* A fault: the flag is not cleared before the base class is notified. *)
ReturnCheck_FlagKept(switch) ==
  /\ InCall({ "check" })
  /\ PowerOff(switch, switchPending)
  /\ Pop
  /\ UNCHANGED << alive, needPower, switchPending, coreVars >>

(* state_check() goes on after can_power_off() *)
ReturnCheck(switch) ==
  /\ InCall({ "check" })
  /\ PowerOff(switch, switchPending)
  /\ switchPending' = FALSE
  /\ Pop
  /\ UNCHANGED << alive, needPower, coreVars >>

(* submit_power_request() goes on after can_power_off() *)
ReturnOff(switch) ==
  /\ InCall({ "off" })
  /\ PowerOff(switch, TRUE)
  /\ Pop
  /\ UNCHANGED << alive, needPower, switchPending, coreVars >>

(* A fault: the request waits although the core will not become idle. *)
WillBecomeIdle_Always == TRUE

WillBecomeIdle == current # "idle" /\ next = "idle"

(***************************************************************************)
(* The request waits if the core is on its way to RFST_IDLE, or has failed.*)
(***************************************************************************)
ReturnWait(switch) ==
  /\ InCall({ "wait" })
  /\ switch = NoSwitch
  /\ switchPending' = WillBecomeIdle
  /\ pending' = WillBecomeIdle
  /\ owed' = IF WillBecomeIdle THEN owed ELSE 0
  /\ told' = FALSE
  /\ Pop
  /\ UNCHANGED << alive, needPower, powerOn, coreVars, powered >>

(* "Power stays on, we are done", and the answer after a restart *)
ReturnOn(switch) ==
  /\ InCall({ "on", "restart" })
  /\ switch = NoSwitch
  /\ Notify(TRUE, TRUE)
  /\ Pop
  /\ UNCHANGED << alive, selfVars, coreVars >>

-----------------------------------------------------------------------------
(***************************************************************************)
(* pn54x_nfc_adapter_new(): pn54x_io_new() switches the chip off, and      *)
(* there is an adapter only if that works.                                 *)
(***************************************************************************)
New(switch) ==
  /\ ~alive
  /\ switch.call = "off" /\ switch.works
  /\ alive' = TRUE
  /\ needPower' = FALSE /\ powerOn' = FALSE /\ switchPending' = FALSE
  /\ current' = "init" /\ next' = "init"
  /\ pending' = FALSE /\ powered' = FALSE /\ owed' = 0 /\ told' = FALSE
  /\ UNCHANGED callVars

(* pn54x_nfc_adapter_finalize(): the chip is left as it is. *)
Finalize(switch) ==
  /\ AtRest
  /\ switch = NoSwitch
  /\ alive' = FALSE
  /\ pending' = FALSE /\ owed' = 0 /\ told' = FALSE
  /\ UNCHANGED << selfVars, callVars, coreVars, powered >>

Submit(switch) ==
  \/ SubmitOnAlready(switch) \/ SubmitOn(switch) \/ SubmitOnFails(switch)
  \/ SubmitOffNow(switch) \/ SubmitOffIdle(switch) \/ SubmitOffWait(switch)
  \/ SubmitOffAlready(switch)

SetsOut(switch) == \E s \in States : NextStateChanged(switch, s)

Returns(switch) ==
  \/ ResetOn(switch) \/ Recheck(switch)
  \/ ReturnCheck(switch) \/ ReturnOff(switch)
  \/ ReturnWait(switch) \/ ReturnOn(switch)

Step(switch) ==
  \/ New(switch) \/ Finalize(switch)
  \/ Submit(switch) \/ CancelPowerRequest(switch)
  \/ CurrentStateChanged(switch) \/ SetsOut(switch)
  \/ Returns(switch)

Next == \E switch \in Switches : ChipAfter(switch) /\ Step(switch)

Safety == Init /\ [][Next]_vars

(***************************************************************************)
(* Calls return, and a core that is on its way gets somewhere: NciCore has *)
(* a timeout for each of its commands.  The fairness is strong because a   *)
(* chip reset keeps the core waiting for a moment.  Nothing is assumed of  *)
(* the base class.                                                         *)
(***************************************************************************)
Spec ==
  /\ Safety
  /\ WF_vars(\E switch \in Switches : ChipAfter(switch) /\ Returns(switch))
  /\ SF_vars(\E switch \in Switches :
               ChipAfter(switch) /\ CurrentStateChanged(switch))

-----------------------------------------------------------------------------
(***************************************************************************)
(* No wake-up is lost: an adapter at rest that has power nobody needs is   *)
(* one whose core is still busy.  Whichever of the callbacks, requests and *)
(* cancellations came last, it found out.                                  *)
(***************************************************************************)
UnneededIsOff ==
  AtRest /\ powerOn /\ ~needPower => current = "active"

(***************************************************************************)
(* The adapter and the base class agree on whether a request is waiting,   *)
(* and only a request to switch off power that is on ever waits.           *)
(***************************************************************************)
PendingAgrees ==
  AtRest =>
    /\ pending <=> switchPending
    /\ switchPending => powerOn /\ ~needPower

(***************************************************************************)
(* GASSERT(!self->power_switch_pending) holds whenever a base class that   *)
(* has one request at a time may make its next, from inside a notification *)
(* too: state_check() clears the flag before it notifies.                  *)
(***************************************************************************)
RequestAsserted == MayRequest => ~switchPending

(***************************************************************************)
(* The base class has been notified of every switch the adapter made, also *)
(* when callbacks nested in its calls made it switch twice.                *)
(***************************************************************************)
NotifiedMatches == AtRest => powered = powerOn

(***************************************************************************)
(* While pn54x_io_set_power() works, power_on is the truth, at rest and    *)
(* inside every callback.                                                  *)
(***************************************************************************)
ChipFollows ==
  alive /\ faults = 0 /\ ~InCall({ "reset" }) => chipOn = powerOn

(* A request is answered at most once, and not after it was called off. *)
AnsweredOnce == owed >= 0

(***************************************************************************)
(* Power that is needed is never switched off, and none goes off while the *)
(* core is beyond RFST_IDLE, whatever happened since can_power_off() was   *)
(* asked.                                                                  *)
(***************************************************************************)
OffOnlyWhenUnused ==
  [][powerOn /\ ~powerOn' /\ alive =>
       ~needPower' /\ AtMostIdle(current')]_vars

(***************************************************************************)
(* A request that waits is answered or called off, unless the core is sent *)
(* off to another state than the one the adapter asked for.                *)
(***************************************************************************)
RequestResolved == pending ~> (~pending \/ next = "active" \/ next = "init")

(***************************************************************************)
(* The adapter keeps the promises of PowerContract.tla: what the base class*)
(* has asked for is needPower, and a request is open while an answer is due*)
(* to it.                                                                  *)
(***************************************************************************)
OpenRequest ==
  IF owed # 1 THEN "none" ELSE IF needPower THEN "on" ELSE "off"

PC == INSTANCE PowerContract WITH wanted <- needPower, request <- OpenRequest

ImplementsPowerContract == PC!Spec

(***************************************************************************)
(* A comment in submit_power_request(), where power_on is FALSE: "Power    *)
(* stays off, we are done".  It speaks of the power, so of the chip.       *)
(***************************************************************************)
PowerStaysOff ==
  [][SubmitOffAlready(NoSwitch) => ~chipOn']_vars

(***************************************************************************)
(* A comment in submit_power_request(), where power_on is TRUE: "Power     *)
(* stays on, we are done".                                                 *)
(***************************************************************************)
PowerStaysOn ==
  [][ReturnOn(NoSwitch) /\ InCall({ "on" }) => chipOn']_vars
=============================================================================
