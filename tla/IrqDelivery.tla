---------------------------- MODULE IrqDelivery -----------------------------
(***************************************************************************)
(* What an IRQ pin promises its sinks, without sinks, drivers or masks.    *)
(*                                                                         *)
(* The pin numbers every raise.  A raise of a pin that is not in service   *)
(* is handed to the sinks at once, and the pin stays in service unless a   *)
(* sink answered it on the spot.  A raise of a pin in service is only      *)
(* counted.  When service ends, every raise counted meanwhile is handed    *)
(* over in one delivery, and the pin is out of service.  So a raise is     *)
(* never handed over twice, never skipped, and never left undelivered      *)
(* while the pin is idle.                                                  *)
(***************************************************************************)
EXTENDS Naturals

VARIABLES
  raised,   \* how many raises the pin has seen
  handed,   \* the number of the last raise handed to the sinks
  busy      \* whether the pin is in service

vars == <<raised, handed, busy>>

Init == raised = 0 /\ handed = 0 /\ busy = FALSE

RaiseIdle ==
  /\ ~busy
  /\ raised' = raised + 1
  /\ handed' = raised + 1
  /\ busy' \in BOOLEAN

RaiseBusy ==
  /\ busy
  /\ raised' = raised + 1
  /\ UNCHANGED <<handed, busy>>

EndService ==
  /\ busy
  /\ handed' = raised
  /\ busy' = FALSE
  /\ UNCHANGED raised

Next == RaiseIdle \/ RaiseBusy \/ EndService

Spec == Init /\ [][Next]_vars
=============================================================================
