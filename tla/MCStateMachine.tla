--------------------------- MODULE MCStateMachine ---------------------------
(***************************************************************************)
(* TLC's instances of StateMachine.  Two request threads are enough for    *)
(* every pair of requests to race; two request ids for R2 to answer about  *)
(* the right and about a wrong one.  A reset that lands in a cycle lets    *)
(* cycles pile up in the queue without limit: MaxQueue bounds them.        *)
(***************************************************************************)
EXTENDS StateMachine, TLC

Symmetry == Permutations(Handlers) \cup Permutations(RequestIds)

MaxQueue == 2
QueueBound == Len(queue) <= MaxQueue
=============================================================================
