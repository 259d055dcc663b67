--------------------------- MODULE PowerContract ---------------------------
(***************************************************************************)
(* What an adapter promises the NfcAdapter base class about power, and all *)
(* the base class may rely on.  A request is answered once, with what was  *)
(* asked for, before submit_power_request() returns or, if that returned   *)
(* TRUE, later; or it is refused when that returns FALSE, and not later.   *)
(* Only a request to switch off may have to wait.  Power that was not asked*)
(* to stay may go off at any time, never come on, and the base class is    *)
(* told.  There are no states of a core here, no callbacks and no chip.    *)
(***************************************************************************)
VARIABLES
  wanted,      \* what the base class asked for last
  request,     \* the request that has not been answered: see Requests
  pending,     \* it was told to wait
  powered      \* the power state the base class was notified of

contractVars == << wanted, request, pending, powered >>

Requests == { "none", "on", "off" }

Asks(on) == IF on THEN "on" ELSE "off"

Init ==
  /\ wanted = FALSE
  /\ request = "none"
  /\ pending = FALSE
  /\ powered = FALSE

(* A new request is left open, is answered at once, or is refused at once. *)
Submit(on) ==
  /\ request = "none"
  /\ ~pending
  /\ wanted' = on
  /\ \/ request' = Asks(on) /\ UNCHANGED powered
     \/ request' = "none" /\ powered' = on
     \/ request' = "none" /\ UNCHANGED powered
  /\ UNCHANGED pending

Answer ==
  /\ request # "none"
  /\ powered' = (request = "on")
  /\ request' = "none"
  /\ pending' = FALSE
  /\ UNCHANGED wanted

Wait ==
  /\ request = "off"
  /\ ~pending
  /\ pending' = TRUE
  /\ UNCHANGED << wanted, request, powered >>

Refuse ==
  /\ request # "none"
  /\ ~pending
  /\ request' = "none"
  /\ UNCHANGED << wanted, pending, powered >>

(* The request is called off, and power is to stay as it is. *)
Cancel ==
  /\ wanted' = powered
  /\ request' = "none"
  /\ pending' = FALSE
  /\ UNCHANGED powered

GoOff ==
  /\ ~wanted
  /\ powered
  /\ powered' = FALSE
  /\ UNCHANGED << wanted, request, pending >>

(* The adapter goes, and another one comes. *)
Vanish ==
  /\ request' = "none"
  /\ pending' = FALSE
  /\ UNCHANGED << wanted, powered >>

Appear ==
  /\ request = "none"
  /\ wanted' = FALSE
  /\ powered' = FALSE
  /\ UNCHANGED << request, pending >>

Next ==
  \/ \E on \in BOOLEAN : Submit(on)
  \/ Answer \/ Wait \/ Refuse \/ Cancel \/ GoOff
  \/ Vanish \/ Appear

Safety == Init /\ [][Next]_contractVars

(* submit_power_request() returns: a request does not stay undecided. *)
Decide == ~pending /\ (Answer \/ Wait \/ Refuse)

Spec == Safety /\ WF_contractVars(Decide)
=============================================================================
