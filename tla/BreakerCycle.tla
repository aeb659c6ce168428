---------------------------- MODULE BreakerCycle ----------------------------
(***************************************************************************)
(* What CircuitBreaker promises of one model (llm/resilience.py): failures *)
(* open it, only the end of the cooldown lets trials through, and from     *)
(* there it closes on a success or opens again.  No model is tried between *)
(* opening and the end of the cooldown, unless a success arrives that was  *)
(* asked for before.                                                       *)
(***************************************************************************)
VARIABLE state    \* CircuitBreaker.state

Init == state = "closed"

Opens       == state \in {"closed", "half_open"} /\ state' = "open"
CooldownEnds == state = "open" /\ state' = "half_open"
Closes      == state \in {"open", "half_open"} /\ state' = "closed"

Next == Opens \/ CooldownEnds \/ Closes

Spec == Init /\ [][Next]_state
=============================================================================
