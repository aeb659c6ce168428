----------------------------- MODULE CaseChecks ------------------------------
(***************************************************************************)
(* What a turn did, read twice: by the checks of a golden case             *)
(* (evaluation/deterministic.py) and, from the row the turn leaves, by the *)
(* triage of flagged answers (feedback/signature.py); and the case that a  *)
(* reviewer makes of one (feedback/promote.py).                            *)
(*                                                                         *)
(* A turn is the final state of the graph: domains, query type, vehicle,   *)
(* the planned calls, the evidence, and of the answer the phrases and the  *)
(* numbers in it and the evidence it cites.  A phrase stands for itself    *)
(* after _norm, an argument for a fragment of a call's arguments.          *)
(***************************************************************************)
EXTENDS Integers, Sequences, FiniteSets, FiniteSetsExt, SequencesExt

CONSTANTS
    AbstainMarkers,     \* phrases that say an answer does not know
    SlowMs              \* slow_ms

NoVehicle == "-"
AnyTool == "any"
Limits == {"cap_reached", "timeout"}

-----------------------------------------------------------------------------
(* The checks of a case *)

\* outcome_from_state.
Outcome(turn) ==
    [domains |-> turn.domains, vehicle |-> turn.vehicle, calls |-> ToSet(turn.calls),
     iterations |-> turn.iterations, stop |-> turn.stop, partial |-> turn.partial,
     grounded |-> turn.grounded, says |-> turn.says, numbers |-> turn.numbers,
     cited |-> turn.cited, evidence |-> 1..Len(turn.evidence)]

\* check_entity.
EntityIs(o, id) == o.vehicle = (IF id = "not_found" THEN NoVehicle ELSE id)

\* Mutant: the fragments are looked for in all calls together.
MutCarried(o, spec) ==
    spec.contains \subseteq UNION {c.args : c \in {d \in o.calls : d.tool = spec.tool}}

\* check_key_args: some single call carries them all.
Carried(o, spec) == \E c \in o.calls : c.tool = spec.tool /\ spec.contains \subseteq c.args

\* check_forbidden_args.
Forbidden(o, spec) == \E c \in o.calls : spec.tool \in {AnyTool, c.tool} /\ spec.contains \subseteq c.args

Abs(n) == IF n < 0 THEN -n ELSE n

\* check_facts: the sign does not count.
Near(o, fact) == \E n \in o.numbers : Abs(Abs(n) - Abs(fact.value)) <= fact.tolerance

\* says_it_cannot_tell.
SaysItCannotTell(o) == o.partial \/ o.says \cap AbstainMarkers # {}

Passes(check, o, want) ==
    CASE check = "domains" -> o.domains = want
      [] check = "vehicle_id" -> EntityIs(o, want)
      [] check = "tools" -> want \subseteq {c.tool : c \in o.calls}
      [] check = "key_args" -> \A spec \in want : Carried(o, spec)
      [] check = "forbidden_args" -> \A spec \in want : ~Forbidden(o, spec)
      [] check = "max_iterations" -> o.iterations <= want
      [] check = "stop_reasons" -> o.stop \in want
      [] check = "facts" -> \A fact \in want : Near(o, fact)
      [] check = "must_contain" -> \A anyOf \in want : anyOf \cap o.says # {}
      [] check = "must_not_contain" -> want \cap o.says = {}
      [] check = "abstain" -> SaysItCannotTell(o)
      [] check = "grounded" -> o.grounded = "passed"

\* run_checks: what the case asks for, and the citations of every answer.
Failing(o, expected) ==
    {check \in DOMAIN expected : ~Passes(check, o, expected[check])}
        \cup (IF o.cited \subseteq o.evidence THEN {} ELSE {"citations"})

-----------------------------------------------------------------------------
(* Triage *)

\* turn.outcome, as conversation_turns keeps it.
TurnRow(turn, latency) ==
    [domains |-> turn.domains, type |-> turn.type, stop |-> turn.stop, grounded |-> turn.grounded,
     tools |-> {e.tool : e \in ToSet(turn.evidence)} \ {"entity_resolution"},
     evidence |-> turn.evidence, nodeErrors |-> turn.nodeErrors, latency |-> latency]

Order == <<"wrong_domain", "wrong_tool", "step_failed", "sql_failed", "empty_retrieval",
           "grounding_failure", "hit_limit", "slow", "no_signal">>

StatusesOf(row, tool) == {e.status : e \in {f \in ToSet(row.evidence) : f.tool = tool}}

\* What a row shows by itself.
Shows(row, vehicle) ==
    [wrong_domain |-> "router" \in row.nodeErrors \/ (vehicle # NoVehicle /\ row.domains = {"business"}),
     wrong_tool |-> row.tools = {} \/ (row.type = "lookup" /\ "structured_query_tool" \notin row.tools),
     step_failed |-> row.nodeErrors \ {"router"} # {},
     sql_failed |-> StatusesOf(row, "structured_query_tool") = {"failed"},
     empty_retrieval |-> StatusesOf(row, "rag_retrieval_tool") # {}
                         /\ "ok" \notin StatusesOf(row, "rag_retrieval_tool"),
     grounding_failure |-> row.grounded = "failed",
     hit_limit |-> row.stop \in Limits]

\* signature: what it finds wrong, or that nothing was.
Signals(row, vehicle) ==
    LET hits == {s \in DOMAIN Shows(row, vehicle) : Shows(row, vehicle)[s]}
    IN  IF hits # {} THEN hits ELSE IF row.latency > SlowMs THEN {"slow"} ELSE {"no_signal"}

\* The first signal, in this order, names the cluster.
Cluster(row, vehicle) ==
    LET signals == Signals(row, vehicle)
    IN  CHOOSE s \in signals : \E i \in 1..Len(Order) :
            Order[i] = s /\ \A j \in 1..i - 1 : Order[j] \notin signals

\* Mutant: what the reviewer says of the domain is lost.
MutBuildCase(review) ==
    [k \in (DOMAIN review \ {"domains"}) \cup {"max_iterations"} |-> IF k = "max_iterations" THEN 3 ELSE review[k]]

\* build_case: what is expected is what the reviewer wrote.
BuildCase(review) ==
    [k \in DOMAIN review \cup {"max_iterations"} |-> IF k = "max_iterations" THEN 3 ELSE review[k]]

-----------------------------------------------------------------------------
(* Properties of one turn *)

\* The turn contradicts something its reviewer wrote.
Contradicts(turn, review) ==
    \/ "domains" \in DOMAIN review /\ review.domains # turn.domains
    \/ "vehicle_id" \in DOMAIN review /\ review.vehicle_id # turn.vehicle
       /\ ~(review.vehicle_id = "not_found" /\ turn.vehicle = NoVehicle)
    \/ "must_contain" \in DOMAIN review /\ \E words \in review.must_contain : words \cap turn.says = {}
    \/ "must_not_contain" \in DOMAIN review /\ \E words \in review.must_not_contain : words \in turn.says
    \/ "abstain" \in DOMAIN review /\ ~turn.partial /\ turn.says \cap AbstainMarkers = {}

\* Whatever the reviewer says the flagged turn got wrong, the case made of it
\* does not pass when the same turn happens again; and a turn that did all of
\* it within the laps passes, if its citations are real.
CaseCatchesItsTurn(turn, review) ==
    LET failing == Failing(Outcome(turn), BuildCase(review))
    IN  /\ Contradicts(turn, review) => failing \ {"citations", "max_iterations"} # {}
        /\ ~Contradicts(turn, review) => failing \subseteq {"citations", "max_iterations"}

\* The two readings agree: a turn whose row shows nothing wrong passes the
\* checks on what the row is read for, and one that fails its grounding check
\* or hits a limit is in a cluster of what went wrong.
ReadingsAgree(turn, latency) ==
    LET row == TurnRow(turn, latency)
        signals == Signals(row, turn.vehicle)
        want == [grounded |-> TRUE, stop_reasons |-> {"complete", "exhausted", "no_new_evidence"},
                 tools |-> {"structured_query_tool"}]
        checks == {"grounded", "stop_reasons"} \cup (IF turn.type = "lookup" THEN {"tools"} ELSE {})
        failing == Failing(Outcome(turn), [check \in checks |-> want[check]])
    IN  /\ signals \subseteq {"slow", "no_signal"} =>
            failing \subseteq {"citations"} \cup (IF turn.grounded = "none" THEN {"grounded"} ELSE {})
        /\ "stop_reasons" \in failing \/ turn.grounded = "failed" =>
            Cluster(row, turn.vehicle) \notin {"slow", "no_signal"}
        /\ Cardinality(signals) > 1 => "slow" \notin signals

\* A lookup more never fails the checks of the calls that must be there, nor
\* lifts a ban; and what is carried is carried by one call of the turn.
LookupsOnlyAdd(turn, specs) ==
    LET o == Outcome(turn)
        fewer == {[o EXCEPT !.calls = @ \ {c}] : c \in o.calls}
    IN  /\ \A spec \in specs, p \in fewer :
            /\ Carried(p, spec) => Carried(o, spec)
            /\ Forbidden(p, spec) => Forbidden(o, spec)
        /\ \A spec \in specs : Carried(o, spec) => \E c \in o.calls : Carried([o EXCEPT !.calls = {c}], spec)

\* A number is found by its size: a fact of an answer that rises is one of an
\* answer that falls, and a wider tolerance finds no fewer.
FactsBySize(turn, fact) ==
    LET o == Outcome(turn)
    IN  /\ Near(o, fact) = Near([o EXCEPT !.numbers = {-n : n \in @}], fact)
        /\ Near(o, fact) => Near(o, [fact EXCEPT !.tolerance = @ + 1])
=============================================================================
