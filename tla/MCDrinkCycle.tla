---------------------------- MODULE MCDrinkCycle ----------------------------
(***************************************************************************)
(* Two cycles (three ids, one of them R2's initial "none"), one request    *)
(* thread: the races of two are StateMachine's.                            *)
(***************************************************************************)
EXTENDS DrinkCycle
=============================================================================
