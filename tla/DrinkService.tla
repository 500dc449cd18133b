---------------------------- MODULE DrinkService ----------------------------
(***************************************************************************)
(* What the app server promises its operator and its guests (the platform  *)
(* design document, docs/superpowers/specs/2026-09-13-distributed-robot-   *)
(* platform-design.md, and the comments of src/app/state_machine.py): one  *)
(* guest at a time; a guest's cycle ends with PF told that the drink is    *)
(* placed, or in an error that stays until an operator resets the server   *)
(* or, at load-drink, moves past the step.                                 *)
(***************************************************************************)
CONSTANTS Guests, None

VARIABLES service, guest

vars == <<service, guest>>

Init == service = "idle" /\ guest = None

CheckIn ==
    /\ service = "idle" /\ service' = "serving"
    /\ guest' \in Guests

Place  == service = "serving" /\ service' = "served" /\ UNCHANGED guest
Finish == service = "served" /\ service' = "idle" /\ guest' = None
Break  == service = "serving" /\ service' = "failed" /\ UNCHANGED guest
Resume == service = "failed" /\ service' = "serving" /\ UNCHANGED guest
Reset  == service = "failed" /\ service' = "idle" /\ guest' = None

Next == CheckIn \/ Place \/ Finish \/ Break \/ Resume \/ Reset

Spec == Init /\ [][Next]_vars
=============================================================================
