----------------------------- MODULE TurnTrace ------------------------------
(***************************************************************************)
(* The recording of a turn (observability/tracing.py): each node as it     *)
(* runs, under the span of its lap, each call of a model under the node    *)
(* that makes it, and what is sent of it when the turn is over, if it is.  *)
(* Time is the number of things that have happened.                        *)
(***************************************************************************)
EXTENDS Integers, Sequences, FiniteSets, FiniteSetsExt, SequencesExt

CONSTANT FailureStops   \* failure_stop_reasons

LoopNodes == {"plan", "execute", "observe", "reflect"}

\* A node that ran: the iteration its state said, the calls of models it
\* made, and how it ended ("fellback": its guard answered for it; "error": it
\* raised; "cut": dropped at the time limit or with the request).
NodeRun == [node : LoopNodes \cup {"router", "synthesize", "grounding"}, iteration : Nat,
            calls : Nat, end : {"ok", "fellback", "error", "cut"}]

\* An observation; parent is its place in the recording, 0 for the turn.
Obs(kind, of, parent, start, level) ==
    [kind |-> kind, of |-> of, parent |-> parent, start |-> start, end |-> start, level |-> level]

Empty == [obs |-> <<>>, laps |-> <<>>, time |-> 0, nodeErrors |-> {}]

\* Mutant: plan runs under the lap that is over.
MutLapOf(run) == run.iteration

\* The lap of a node: plan runs before it is counted.
LapOf(run) == run.iteration + (IF run.node = "plan" THEN 1 ELSE 0)

\* lap_span: the lap's observation, made when it is asked for first.
WithLap(rec, lap) ==
    IF lap \in DOMAIN rec.laps THEN rec
    ELSE [rec EXCEPT !.obs = Append(@, Obs("lap", lap, 0, rec.time, "DEFAULT")),
                     !.laps = [l \in DOMAIN @ \cup {lap} |->
                                  IF l = lap THEN Len(rec.obs) + 1 ELSE rec.laps[l]]]

\* record_generation, for each call under the span of its node.
WithCalls(rec, node, n) ==
    [rec EXCEPT !.time = @ + n,
                !.obs = @ \o [k \in 1..n |-> Obs("generation", node, node, rec.time + k, "DEFAULT")]]

Ended(rec, i) == [rec EXCEPT !.obs[i].end = rec.time]

\* traced: the node's span in its lap's, its calls in it; both end with it,
\* however it ends.  What a guard caught was recorded (record_node_error).
Traced(rec, run, i) ==
    LET looped == run.node \in LoopNodes
        open == IF looped THEN WithLap(rec, LapOf(run)) ELSE rec
        me == Len(open.obs) + 1
        level == IF run.end = "error" THEN "ERROR" ELSE "DEFAULT"
        running == [open EXCEPT !.obs = Append(@, Obs("node", i,
                        IF looped THEN open.laps[LapOf(run)] ELSE 0, open.time, level))]
        done == Ended([WithCalls(running, me, run.calls) EXCEPT !.time = @ + 1,
                           !.nodeErrors = @ \cup (IF run.end = "fellback" THEN {run.node} ELSE {})], me)
    IN  IF looped THEN Ended(done, open.laps[LapOf(run)]) ELSE done

\* After each number of nodes, and at the end.
Recordings(runs) ==
    LET rec[n \in 0..Len(runs)] == IF n = 0 THEN Empty ELSE Traced(rec[n - 1], runs[n], n)
    IN  rec

Recording(runs) == Recordings(runs)[Len(runs)]

\* _export: every observation under the span of its parent, which has to be
\* among the spans by then; without one it goes to the turn's.
Sent(rec) ==
    [k \in 1..Len(rec.obs) |-> [rec.obs[k] EXCEPT !.parent = IF @ \in 1..k - 1 THEN @ ELSE 0]]

\* The outcome of a turn, as update_turn hands it over: a turn that raised or
\* lost its request has an error, the time limit makes an answer partial, and
\* so does every other end than "complete".
Ending(runs, stop, grounded, limit) ==
    LET cut == runs[Len(runs)].end = "cut"
    IN  [stop |-> IF cut /\ limit THEN "timeout" ELSE stop,
         error |-> runs[Len(runs)].end = "error" \/ (cut /\ ~limit),
         partial |-> (cut /\ limit) \/ stop \notin {"complete", "none"},
         grounded |-> grounded]

\* Mutant: the summary of the state alone decides.
MutIsFailure(rec, ending) ==
    ending.error \/ ending.grounded = "failed" \/ ending.partial \/ ending.stop \in FailureStops

\* is_failure.
IsFailure(rec, ending) ==
    \/ rec.nodeErrors # {}
    \/ ending.error
    \/ ending.grounded = "failed"
    \/ ending.partial
    \/ ending.stop \in FailureStops

\* _finish; drawn: the sample takes this turn.
Finished(rec, ending, drawn) == IF IsFailure(rec, ending) \/ drawn THEN Sent(rec) ELSE <<>>

-----------------------------------------------------------------------------
(* Properties of one turn *)

\* The turn can be read from what is sent: every node is there once, the
\* nodes of a lap and no others under one span that opens with its plan, a
\* call under the node that made it, and everything within the time of what
\* it stands under.
TraceShowsTurn(runs) ==
    LET sent == Sent(Recording(runs))
        at(kind) == {k \in 1..Len(sent) : sent[k].kind = kind}
        span(i) == CHOOSE k \in at("node") : sent[k].of = i
        plansTo(i) == Cardinality({j \in 1..i : runs[j].node = "plan"})
    IN  /\ \A i \in 1..Len(runs) :
            /\ Cardinality({k \in at("node") : sent[k].of = i}) = 1
            /\ Cardinality({k \in at("generation") : sent[k].parent = span(i)}) = runs[i].calls
            /\ runs[i].node \in LoopNodes =>
                /\ sent[span(i)].parent \in at("lap")
                /\ sent[sent[span(i)].parent].of = plansTo(i)
            /\ runs[i].node \notin LoopNodes => sent[span(i)].parent = 0
        /\ Cardinality(at("lap")) = plansTo(Len(runs))
        /\ \A k \in 1..Len(sent) : sent[k].parent # 0 =>
            /\ sent[sent[k].parent].start <= sent[k].start
            /\ sent[k].end <= sent[sent[k].parent].end

\* Whatever the sample rate, a turn in which anything went wrong is sent: one
\* of its steps fell back, raised or was cut, or its answer is partial or did
\* not pass the check ("Failures are ALWAYS sent").
FailuresAreSent(runs, ending) ==
    Finished(Recording(runs), ending, FALSE) = <<>> =>
        /\ \A i \in 1..Len(runs) : runs[i].end = "ok"
        /\ ending.stop = "complete" /\ ending.grounded # "failed"
=============================================================================
