--------------------------- MODULE MCModelQueue ---------------------------
(* Instances of ModelQueue for TLC. *)
EXTENDS ModelQueue, TLC

CONSTANTS c1, c2, c3, big

\* A small request, one of most of the budget and one larger than all of it.
Estimates == c1 :> 1 @@ c2 :> 2 @@ c3 :> 5

\* All calls wait equally long, as in the shipped configuration.
SameLimits == [c \in Calls |-> 2]

=============================================================================
