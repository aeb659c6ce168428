--------------------------- MODULE MCLlmFailover ---------------------------
(* Instances of LlmFailover for TLC. *)
EXTENDS LlmFailover, TLC

CONSTANTS c1, c2, c3, big, small

\* plan and synthesize have a fallback, router's tier shares it as its primary.
TwoTiers == c1 :> <<big, small>> @@ c2 :> <<big, small>> @@ c3 :> <<small>>

\* Two calls of a tier without a fallback.
TwoOfOneModel == c1 :> <<big>> @@ c2 :> <<big>>

Alike == Permutations({c1, c2})

\* The breaker of `big` implements BreakerCycle.
BigBreaker == INSTANCE BreakerCycle WITH state <- State(breaker[big])
CycleOfBig == BigBreaker!Spec
=============================================================================
