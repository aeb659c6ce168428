----------------------------- MODULE AgentTurn -----------------------------
(***************************************************************************)
(* One turn of the agent: the graph of agent/graph.py, its nodes, and the  *)
(* ceiling run_turn puts over them (agent/turn.py).                        *)
(*                                                                         *)
(*   router -> plan -> execute -> observe -> reflect -> synthesize         *)
(*               ^------------------------------'    -> grounding -> done  *)
(*                                                                         *)
(* A step of the graph is one action: the node's update and the edge that  *)
(* leaves it.  What models and tools reply is nondeterministic; every node *)
(* that is `guarded` may instead raise and leave its fallback update.  The *)
(* time limit may fall anywhere.                                           *)
(*                                                                         *)
(* A tool call is its fingerprint (call_key).  Evidence is counted, not    *)
(* written out: entries that are OK and entries that record an absence.    *)
(***************************************************************************)
EXTENDS Integers, FiniteSets

CONSTANTS
    ToolCalls,          \* fingerprints Plan may ask for
    MaxIterations,      \* agent.max_iterations
    MaxCallsPerLap,     \* agent.max_tool_calls_per_lap
    MaxEntries,         \* evidence entries one result may become
    MaxEvidence,        \* agent.max_evidence_entries: entries shown to a model
    RecursionLimit      \* RECURSION_LIMIT, node runs LangGraph allows a turn

ASSUME LimitsAssumption ==
    /\ IsFiniteSet(ToolCalls)
    /\ MaxIterations \in Nat \ {0}
    /\ MaxCallsPerLap \in Nat \ {0}
    /\ MaxEntries \in Nat \ {0}
    /\ MaxEvidence \in Nat
    /\ RecursionLimit \in Nat

\* What the configuration promises: 3 laps of 4 calls against a cap of 20
\* entries and a limit of 60 node runs ("well under this", agent/turn.py).
ASSUME ConfigAssumption ==
    /\ 1 + MaxIterations * MaxCallsPerLap <= MaxEvidence
    /\ 5 + 4 * MaxIterations <= RecursionLimit

VARIABLES
    node,       \* the node to run next; "done" once the turn is over
    steps,      \* node runs so far, as LangGraph counts them
    lookup,     \* complexity_hint is one that skips Reflect
    iteration,  \* the lap
    pending,    \* pending_tool_calls
    results,    \* calls whose raw_results wait for Observe
    history,    \* tool_history
    evidence,   \* entries of the turn: [ok, absent]
    lap,        \* entries of this lap: [ok, absent]
    stop,       \* stop_reason
    partial,
    next,       \* whether there is a next_question
    answer,     \* see Answer
    grounded,   \* groundedness: "none", or its `passed`
    retried,    \* _grounding_retried
    runs        \* how often each call was sent to its tool (history variable)

loop == <<lookup, iteration, pending, results, history, evidence, lap, stop, partial, next, runs>>
output == <<answer, grounded, retried>>
vars == <<node, steps, loop, output>>

Nodes == {"router", "plan", "execute", "observe", "reflect", "synthesize", "grounding"}

StopReason == {"complete", "exhausted", "cap_reached", "no_new_evidence"}

\* `kind`: nothing yet, a model's draft, or the evidence listed by code.
\* `cited`: distinct usable entries a draft cites, 2 standing for more.
\* `resolved`: every id it cites exists.  `hedged`: _hedge was appended.
Answer == [kind : {"none", "draft", "evidence"}, cited : 0..2, resolved : BOOLEAN,
           hedged : BOOLEAN, confidence : {"low", "medium", "high"}]

Nothing == [ok |-> 0, absent |-> 0]

Least(a, b) == IF a <= b THEN a ELSE b

Init ==
    /\ node = "router" /\ steps = 0
    /\ lookup = FALSE
    /\ iteration = 0
    /\ pending = {} /\ results = {} /\ history = {}
    /\ evidence = Nothing /\ lap = Nothing
    /\ stop = "none" /\ partial = FALSE /\ next = FALSE
    /\ answer = [kind |-> "none", cited |-> 0, resolved |-> TRUE, hedged |-> FALSE,
                 confidence |-> "low"]
    /\ grounded = "none" /\ retried = FALSE
    /\ runs = [c \in ToolCalls |-> 0]

\* Run this node, then go to `to`.  Counting stops one past the limit.
Step(from, to) ==
    /\ node = from
    /\ node' = to
    /\ steps' = IF steps <= RecursionLimit THEN steps + 1 ELSE steps

-----------------------------------------------------------------------------
(* The nodes *)

\* An entity the router resolved with a note, or failed to resolve, is an
\* entry of lap 0.  The fallback calls the question "explain".
Router ==
    /\ Step("router", "plan")
    /\ \/ \E found \in {Nothing, [Nothing EXCEPT !.ok = 1], [Nothing EXCEPT !.absent = 1]} :
            /\ evidence' = found
            /\ lookup' \in BOOLEAN
       \/ UNCHANGED <<evidence, lookup>>
    /\ UNCHANGED <<iteration, pending, results, history, lap, stop, partial, next, runs, output>>

\* dedupe(): of what was asked for, the first MaxCallsPerLap calls that are
\* neither in the history nor twice in the list.
Deduped(asked, seen) ==
    {out \in SUBSET (asked \ seen) :
        Cardinality(out) = Least(MaxCallsPerLap, Cardinality(asked \ seen))}

\* A lap begins here and nowhere else.  Planning that fails plans no call.
Plan ==
    /\ Step("plan", "execute")
    /\ iteration' = iteration + 1
    /\ lap' = Nothing
    /\ stop' = "none"
    /\ \/ \E asked \in SUBSET ToolCalls : pending' \in Deduped(asked, history)
       \/ pending' = {}
    /\ UNCHANGED <<lookup, results, history, evidence, partial, next, runs, output>>

Sent(calls) == [c \in ToolCalls |-> IF c \in calls THEN runs[c] + 1 ELSE runs[c]]

\* The calls run in parallel; each comes back with a result, a failure being
\* one.  If the node itself raises, before or after, the results are lost.
Execute ==
    /\ Step("execute", "observe")
    /\ pending' = {}
    /\ \E ran \in {{}, pending} :
        /\ runs' = Sent(ran)
        /\ results' \in {{}, ran}
    /\ UNCHANGED <<lookup, iteration, history, evidence, lap, stop, partial, next, output>>

\* A result that is empty, too weak, rejected or failed becomes one entry
\* that says so; any other becomes one entry or several.  If shaping raises,
\* neither evidence nor history hears of the lap.
Observe ==
    /\ Step("observe", "reflect")
    /\ results' = {}
    /\ \/ \E misses \in SUBSET results :
            LET hits == Cardinality(results \ misses) IN
            \E ok \in hits..(hits * MaxEntries) :
                /\ lap' = [ok |-> ok, absent |-> Cardinality(misses)]
                /\ evidence' = [ok |-> evidence.ok + ok,
                                absent |-> evidence.absent + Cardinality(misses)]
                /\ history' = history \cup results
       \/ UNCHANGED <<lap, evidence, history>>
    /\ UNCHANGED <<lookup, iteration, pending, stop, partial, next, runs, output>>

-----------------------------------------------------------------------------
(* Reflect and the edge after it *)

Verdict(s, p, n) == [stop |-> s, partial |-> p, next |-> n]

\* What the model may judge.
Judgement == [sufficient : BOOLEAN, partial : BOOLEAN, exhausted : BOOLEAN, next : BOOLEAN]

\* Not sufficient and no direction for another lap is exhausted too.
Exhausted(j) == j.exhausted \/ (~j.sufficient /\ ~j.next)

\* Mutant: at the cap an insufficient verdict stays undecided.
MutDecideNoCap(j) ==
    IF j.sufficient /\ ~j.partial /\ ~Exhausted(j) THEN Verdict("complete", FALSE, FALSE)
    ELSE IF j.sufficient \/ Exhausted(j) THEN Verdict("exhausted", TRUE, FALSE)
    ELSE Verdict("none", FALSE, j.next)

\* decide(): the model's judgement as loop control.
Decide(j) ==
    IF j.sufficient /\ ~j.partial /\ ~Exhausted(j) THEN Verdict("complete", FALSE, FALSE)
    ELSE IF j.sufficient \/ Exhausted(j) THEN Verdict("exhausted", TRUE, FALSE)
    ELSE IF iteration >= MaxIterations THEN Verdict("cap_reached", TRUE, FALSE)
    ELSE Verdict("none", FALSE, j.next)

\* Mutant: a lap that added nothing is judged like any other.
MutVerdictsNoGuard ==
    IF lookup /\ iteration = 1 /\ lap.ok > 0 THEN {Verdict("complete", FALSE, FALSE)}
    ELSE {Decide(j) : j \in Judgement}

\* The verdicts Reflect may come to without falling back.
Verdicts ==
    IF lookup /\ iteration = 1 /\ lap.ok > 0 THEN {Verdict("complete", FALSE, FALSE)}
    ELSE IF lap = Nothing THEN {Verdict("no_new_evidence", TRUE, FALSE)}
    ELSE {Decide(j) : j \in Judgement}

ReviewFailed == Verdict("exhausted", TRUE, FALSE)

\* route_after_reflect.
AfterReflect(reason, i) ==
    IF reason \in {"complete", "exhausted", "no_new_evidence"} \/ i >= MaxIterations
    THEN "synthesize" ELSE "plan"

Reflect ==
    \E v \in Verdicts \cup {ReviewFailed} :
        /\ Step("reflect", AfterReflect(v.stop, iteration))
        /\ stop' = v.stop
        /\ partial' = v.partial
        /\ next' = v.next
        /\ UNCHANGED <<lookup, iteration, pending, results, history, evidence, lap, runs, output>>

-----------------------------------------------------------------------------
(* Synthesize, grounding and the edge after it *)

\* derive_confidence.
Confidence(cited) ==
    IF partial \/ cited = 0 THEN "low"
    ELSE IF stop = "complete" /\ cited >= 2 THEN "high" ELSE "medium"

Draft(cited, resolved) ==
    [kind |-> "draft", cited |-> cited, resolved |-> resolved, hedged |-> FALSE,
     confidence |-> Confidence(cited)]

\* evidence_answer: every entry listed under its own id, by code.
EvidenceAnswer ==
    [kind |-> "evidence", cited |-> 0, resolved |-> TRUE, hedged |-> FALSE, confidence |-> "low"]

\* Mutant: the rewrite does not say it was one.
MutSynthesizeNoFlag ==
    /\ Step("synthesize", "grounding")
    /\ \/ \E cited \in 0..2, resolved \in BOOLEAN :
            /\ cited <= evidence.ok
            /\ answer' = Draft(cited, resolved)
            /\ retried' = retried
       \/ answer' = EvidenceAnswer /\ retried' = TRUE
    /\ UNCHANGED <<loop, grounded>>

\* A draft written on the feedback of a failed check is the one retry; an
\* answer listed by code is not retried at all.
Synthesize ==
    /\ Step("synthesize", "grounding")
    /\ \/ \E cited \in 0..2, resolved \in BOOLEAN :
            /\ cited <= evidence.ok
            /\ answer' = Draft(cited, resolved)
            /\ retried' = (retried \/ grounded = "failed")
       \/ answer' = EvidenceAnswer /\ retried' = TRUE
    /\ UNCHANGED <<loop, grounded>>

\* route_after_groundedness.
AfterGrounding(result) == IF result = "failed" /\ ~retried THEN "synthesize" ELSE "done"

\* Mutant: the second failure is shipped without its note.
MutGroundingSilent ==
    \E result \in {"passed", "failed"} :
        /\ result = "passed" => answer.resolved
        /\ Step("grounding", AfterGrounding(result))
        /\ grounded' = result
        /\ UNCHANGED <<loop, retried, answer>>

\* Tiers 1 to 3 and, for what a model may still vouch for, tier 4: an id that
\* does not exist is never passed.
Grounding ==
    \E result \in {"passed", "failed"} :
        /\ result = "passed" => answer.resolved
        /\ Step("grounding", AfterGrounding(result))
        /\ grounded' = result
        /\ answer' = IF result = "failed" /\ retried
                     THEN [answer EXCEPT !.hedged = TRUE, !.confidence = "low"] ELSE answer
        /\ UNCHANGED <<loop, retried>>

-----------------------------------------------------------------------------
(* The ceiling *)

\* The node that is running is dropped, with calls it may have sent; the
\* answer is listed from the state the last finished node left.
Timeout ==
    /\ node \in Nodes
    /\ node' = "done"
    /\ \E ran \in {{}, IF node = "execute" THEN pending ELSE {}} : runs' = Sent(ran)
    /\ answer' = EvidenceAnswer
    /\ retried' = TRUE
    /\ stop' = "timeout"
    /\ partial' = TRUE
    /\ UNCHANGED <<steps, lookup, iteration, pending, results, history, evidence, lap, next,
                   grounded>>

RunNode == Router \/ Plan \/ Execute \/ Observe \/ Reflect \/ Synthesize \/ Grounding

Next == RunNode \/ Timeout

Spec == Init /\ [][Next]_vars

\* Every await of a node is bounded, so a node always ends; that the ceiling
\* is ever reached is not assumed.
FairSpec == Spec /\ WF_vars(RunNode)

-----------------------------------------------------------------------------
(* Properties *)

Counts == [ok : Nat, absent : Nat]

\* Every variable keeps its type; a lap never has more calls than allowed.
TypeOK ==
    /\ node \in Nodes \cup {"done"}
    /\ steps \in 0..(RecursionLimit + 1)
    /\ lookup \in BOOLEAN
    /\ iteration \in Nat
    /\ pending \in SUBSET ToolCalls /\ Cardinality(pending) <= MaxCallsPerLap
    /\ results \in SUBSET ToolCalls /\ Cardinality(results) <= MaxCallsPerLap
    /\ history \in SUBSET ToolCalls
    /\ evidence \in Counts /\ lap \in Counts
    /\ stop \in StopReason \cup {"none", "timeout"}
    /\ partial \in BOOLEAN /\ next \in BOOLEAN
    /\ answer \in Answer
    /\ grounded \in {"none", "passed", "failed"}
    /\ retried \in BOOLEAN
    /\ runs \in [ToolCalls -> Nat]

\* No tool call is made twice in a turn.  The history is written by Observe,
\* so a lap whose results were lost leaves no trace of what it ran: only the
\* end of the loop after a lap without evidence keeps it from running again.
NoCallTwice == \A c \in ToolCalls : runs[c] <= 1

\* The graph comes to its end well within the recursion limit: one router, at
\* most MaxIterations laps, at most two drafts, whatever falls back.
WithinRecursionLimit == steps <= RecursionLimit

\* A lap after the first has a direction, and starts undecided: whoever goes
\* back to plan wants another lap and says what for.
LapsHaveDirection ==
    node = "plan" /\ iteration > 0 => next /\ stop = "none" /\ ~partial

\* A turn ends with an answer and a reason, and calls itself partial exactly
\* when that reason is not that everything needed was found.
PartialUnlessComplete ==
    node = "done" => /\ answer.kind # "none"
                     /\ stop # "none"
                     /\ partial <=> stop # "complete"

\* An answer the check did not pass is never shipped as if it had: it carries
\* the note and low confidence.  An answer listed at the time limit was not
\* checked, and has low confidence too.
ShippedAsChecked ==
    node = "done" => \/ grounded = "passed"
                     \/ answer.hedged /\ answer.confidence = "low"
                     \/ stop = "timeout" /\ answer.kind = "evidence" /\ answer.confidence = "low"

\* High confidence needs all three: the loop completed, the answer as shipped
\* passed the check, and it cites two usable pieces of evidence.
HighConfidenceEarned ==
    node = "done" /\ answer.confidence = "high" =>
        stop = "complete" /\ grounded = "passed" /\ answer.cited = 2 /\ evidence.ok >= 2

\* What evidence_block keeps of the evidence for a model to read.
Kept ==
    LET absent == Least(MaxEvidence, evidence.absent)
    IN  [ok |-> Least(MaxEvidence - absent, evidence.ok), absent |-> absent]

\* However much is found, no absence is cut from what the models are shown,
\* and the cap holds.
AbsencesShown == Kept.absent = evidence.absent /\ Kept.ok + Kept.absent <= MaxEvidence

\* Every turn ends.
TurnEnds == <>(node = "done")
=============================================================================
