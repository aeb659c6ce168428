-------------------------- MODULE AgentTurnProofs --------------------------
(***************************************************************************)
(* What holds of every turn, for any configuration that meets the          *)
(* assumptions of AgentTurn.                                               *)
(***************************************************************************)
EXTENDS AgentTurn, FiniteSetTheorems, TLAPS

-----------------------------------------------------------------------------
(* Types *)

\* What dedupe() returns is a set of calls asked for, new, and few enough.
LEMMA DedupedBounds ==
    ASSUME NEW asked \in SUBSET ToolCalls, NEW seen, NEW out \in Deduped(asked, seen)
    PROVE  /\ out \subseteq ToolCalls
           /\ out \cap seen = {}
           /\ Cardinality(out) <= MaxCallsPerLap
<1>1. IsFiniteSet(asked \ seen)
  BY FS_Subset, LimitsAssumption, asked \ seen \subseteq ToolCalls DEF LimitsAssumption
<1> QED BY <1>1, FS_CardinalityType, LimitsAssumption DEF Deduped, Least, LimitsAssumption

\* The results of a lap, shaped: between none and MaxEntries entries for each.
LEMMA EntriesAreCounts ==
    ASSUME TypeOK, NEW misses \in SUBSET results
    PROVE  /\ Cardinality(misses) \in Nat
           /\ Cardinality(misses) <= MaxCallsPerLap
           /\ Cardinality(results \ misses) \in Nat
           /\ \A ok \in Cardinality(results \ misses)..(Cardinality(results \ misses) * MaxEntries) :
                ok \in Nat
<1>1. IsFiniteSet(results)
  BY FS_Subset, LimitsAssumption DEF LimitsAssumption, TypeOK
<1>2. IsFiniteSet(misses) /\ Cardinality(misses) <= Cardinality(results)
  BY <1>1, FS_Subset
<1>3. IsFiniteSet(results \ misses)
  BY <1>1, FS_Subset, results \ misses \subseteq results
<1>4. Cardinality(results) \in Nat /\ Cardinality(misses) \in Nat /\ Cardinality(results \ misses) \in Nat
  BY <1>1, <1>2, <1>3, FS_CardinalityType
<1>5. Cardinality(results) <= MaxCallsPerLap
  BY DEF TypeOK
<1>6. MaxCallsPerLap \in Nat /\ MaxEntries \in Nat
  BY LimitsAssumption DEF LimitsAssumption
<1>7. Cardinality(results \ misses) * MaxEntries \in Int
  BY <1>4, <1>6
<1> QED BY <1>2, <1>4, <1>5, <1>6, <1>7

LEMMA StepIsCounted ==
    ASSUME TypeOK, NEW from, NEW to \in Nodes \cup {"done"}, Step(from, to)
    PROVE  node' \in Nodes \cup {"done"} /\ steps' \in 0..(RecursionLimit + 1)
BY LimitsAssumption DEF TypeOK, Step, LimitsAssumption

LEMMA VerdictTypes ==
    ASSUME NEW v \in Verdicts \cup {ReviewFailed}
    PROVE  /\ v.stop \in StopReason \cup {"none"}
           /\ v.partial \in BOOLEAN /\ v.next \in BOOLEAN
<1>1. ASSUME NEW j \in Judgement, v = Decide(j)
      PROVE  /\ v.stop \in StopReason \cup {"none"}
             /\ v.partial \in BOOLEAN /\ v.next \in BOOLEAN
  BY <1>1 DEF Decide, Verdict, StopReason, Judgement
<1>2. \/ v = Verdict("complete", FALSE, FALSE)
      \/ v = Verdict("no_new_evidence", TRUE, FALSE)
      \/ v = Verdict("exhausted", TRUE, FALSE)
      \/ \E j \in Judgement : v = Decide(j)
  BY DEF Verdicts, ReviewFailed
<1>3. CASE \E j \in Judgement : v = Decide(j)
  BY <1>1, <1>3
<1>4. CASE v = Verdict("complete", FALSE, FALSE)
  BY <1>4 DEF Verdict, StopReason
<1>5. CASE v = Verdict("no_new_evidence", TRUE, FALSE)
  BY <1>5 DEF Verdict, StopReason
<1>6. CASE v = Verdict("exhausted", TRUE, FALSE)
  BY <1>6 DEF Verdict, StopReason
<1> QED BY <1>2, <1>3, <1>4, <1>5, <1>6

\* Every variable keeps its type, and no lap plans or runs more than
\* MaxCallsPerLap tool calls (plan.dedupe).
THEOREM Typing == Spec => []TypeOK
<1>1. Init => TypeOK
  <2> SUFFICES ASSUME Init PROVE TypeOK
    OBVIOUS
  <2>1. Cardinality({}) = 0
    BY FS_EmptySet
  <2>2. answer \in Answer
    BY DEF Init, Answer
  <2>3. evidence \in Counts /\ lap \in Counts
    BY DEF Init, Counts, Nothing
  <2>4. steps \in 0..(RecursionLimit + 1) /\ 0 <= MaxCallsPerLap /\ iteration \in Nat
    BY LimitsAssumption DEF Init, LimitsAssumption
  <2>5. runs \in [ToolCalls -> Nat]
    BY DEF Init
  <2> QED BY <2>1, <2>2, <2>3, <2>4, <2>5 DEF Init, TypeOK, Nodes, StopReason
<1>2. TypeOK /\ [Next]_vars => TypeOK'
  <2> SUFFICES ASSUME TypeOK, [Next]_vars PROVE TypeOK'
    OBVIOUS
  <2> USE LimitsAssumption DEF LimitsAssumption
  <2>0. Cardinality({}) = 0 /\ {} \in SUBSET ToolCalls /\ 0 <= MaxCallsPerLap
    BY FS_EmptySet
  <2>1. CASE Router
    <3>1. node' \in Nodes \cup {"done"} /\ steps' \in 0..(RecursionLimit + 1)
      BY <2>1, StepIsCounted DEF Router, Nodes
    <3> QED BY <2>1, <3>1 DEF Router, TypeOK, Counts, Nothing, output
  <2>2. CASE Plan
    <3>1. node' \in Nodes \cup {"done"} /\ steps' \in 0..(RecursionLimit + 1)
      BY <2>2, StepIsCounted DEF Plan, Nodes
    <3>2. pending' \in SUBSET ToolCalls /\ Cardinality(pending') <= MaxCallsPerLap
      BY <2>2, <2>0, DedupedBounds DEF Plan
    <3> QED BY <2>2, <3>1, <3>2 DEF Plan, TypeOK, Counts, Nothing, output
  <2>3. CASE Execute
    <3>1. node' \in Nodes \cup {"done"} /\ steps' \in 0..(RecursionLimit + 1)
      BY <2>3, StepIsCounted DEF Execute, Nodes
    <3>2. runs' \in [ToolCalls -> Nat]
      BY <2>3 DEF Execute, TypeOK, Sent
    <3>3. results' \in SUBSET ToolCalls /\ Cardinality(results') <= MaxCallsPerLap
      BY <2>3, <2>0 DEF Execute, TypeOK
    <3> QED BY <2>3, <2>0, <3>1, <3>2, <3>3 DEF Execute, TypeOK, output
  <2>4. CASE Observe
    <3>1. node' \in Nodes \cup {"done"} /\ steps' \in 0..(RecursionLimit + 1)
      BY <2>4, StepIsCounted DEF Observe, Nodes
    <3>2. lap' \in Counts /\ evidence' \in Counts /\ history' \in SUBSET ToolCalls
      <4>1. CASE UNCHANGED <<lap, evidence, history>>
        BY <4>1 DEF TypeOK
      <4>2. ASSUME NEW misses \in SUBSET results,
                   NEW ok \in Cardinality(results \ misses)..(Cardinality(results \ misses) * MaxEntries),
                   lap' = [ok |-> ok, absent |-> Cardinality(misses)],
                   evidence' = [ok |-> evidence.ok + ok,
                                absent |-> evidence.absent + Cardinality(misses)],
                   history' = history \cup results
            PROVE  lap' \in Counts /\ evidence' \in Counts /\ history' \in SUBSET ToolCalls
        <5>1. ok \in Nat /\ Cardinality(misses) \in Nat
          BY EntriesAreCounts
        <5>2. evidence.ok \in Nat /\ evidence.absent \in Nat
          BY DEF TypeOK, Counts
        <5>3. lap' \in Counts /\ evidence' \in Counts
          BY <4>2, <5>1, <5>2 DEF Counts
        <5> QED BY <4>2, <5>3 DEF TypeOK
      <4> QED BY <2>4, <4>1, <4>2 DEF Observe
    <3> QED BY <2>4, <2>0, <3>1, <3>2 DEF Observe, TypeOK, output
  <2>5. CASE Reflect
    <3>1. PICK v \in Verdicts \cup {ReviewFailed} :
            /\ Step("reflect", AfterReflect(v.stop, iteration))
            /\ stop' = v.stop /\ partial' = v.partial /\ next' = v.next
            /\ UNCHANGED <<lookup, iteration, pending, results, history, evidence, lap, runs, output>>
      BY <2>5 DEF Reflect
    <3>2. node' \in Nodes \cup {"done"} /\ steps' \in 0..(RecursionLimit + 1)
      BY <3>1, StepIsCounted DEF AfterReflect, Nodes
    <3> QED BY <3>1, <3>2, VerdictTypes DEF TypeOK, output
  <2>6. CASE Synthesize
    <3>1. node' \in Nodes \cup {"done"} /\ steps' \in 0..(RecursionLimit + 1)
      BY <2>6, StepIsCounted DEF Synthesize, Nodes
    <3>2. ASSUME NEW cited \in 0..2, NEW resolved \in BOOLEAN PROVE Draft(cited, resolved) \in Answer
      <4>1. Confidence(cited) \in {"low", "medium", "high"}
        BY DEF Confidence
      <4> QED BY <4>1 DEF Draft, Answer
    <3>3. EvidenceAnswer \in Answer
      BY DEF EvidenceAnswer, Answer
    <3>4. answer' \in Answer
      BY <2>6, <3>2, <3>3 DEF Synthesize
    <3>5. retried' \in BOOLEAN
      BY <2>6, Zenon DEF Synthesize
    <3> QED BY <2>6, <3>1, <3>4, <3>5 DEF Synthesize, TypeOK, loop
  <2>7. CASE Grounding
    <3>1. PICK result \in {"passed", "failed"} :
            /\ Step("grounding", AfterGrounding(result))
            /\ grounded' = result
            /\ answer' = IF result = "failed" /\ retried
                         THEN [answer EXCEPT !.hedged = TRUE, !.confidence = "low"] ELSE answer
            /\ UNCHANGED <<loop, retried>>
      BY <2>7 DEF Grounding
    <3>2. node' \in Nodes \cup {"done"} /\ steps' \in 0..(RecursionLimit + 1)
      BY <3>1, StepIsCounted DEF AfterGrounding, Nodes
    <3>3. answer' \in Answer
      BY <3>1 DEF TypeOK, Answer
    <3> QED BY <3>1, <3>2, <3>3 DEF TypeOK, loop
  <2>8. CASE Timeout
    <3>1. runs' \in [ToolCalls -> Nat]
      BY <2>8 DEF Timeout, TypeOK, Sent
    <3>2. answer' \in Answer
      BY <2>8 DEF Timeout, EvidenceAnswer, Answer
    <3> QED BY <2>8, <3>1, <3>2 DEF Timeout, TypeOK
  <2>9. CASE UNCHANGED vars
    BY <2>9 DEF vars, loop, output, TypeOK
  <2> QED BY <2>1, <2>2, <2>3, <2>4, <2>5, <2>6, <2>7, <2>8, <2>9 DEF Next, RunNode
<1> QED BY <1>1, <1>2, PTL DEF Spec

-----------------------------------------------------------------------------
(* Progress: how many nodes have run when a given one is next *)

Progress ==
    /\ node = "router" => iteration = 0 /\ steps = 0
    /\ node = "plan" => iteration < MaxIterations /\ steps = 4 * iteration + 1
    /\ node \in {"execute", "observe", "reflect", "synthesize", "grounding"} =>
           1 <= iteration /\ iteration <= MaxIterations
    /\ node = "execute" => steps = 4 * iteration - 2
    /\ node = "observe" => steps = 4 * iteration - 1
    /\ node = "reflect" => steps = 4 * iteration
    /\ node = "synthesize" => \/ grounded # "failed" /\ steps = 4 * iteration + 1
                              \/ grounded = "failed" /\ steps = 4 * iteration + 3
    /\ node = "grounding" => \/ steps = 4 * iteration + 2
                             \/ retried /\ steps = 4 * iteration + 4
    /\ node \in Nodes \ {"synthesize", "grounding"} => grounded # "failed"
    /\ steps <= 4 * MaxIterations + 5

\* A lap is four nodes, a draft and its check two, and each happens at most
\* as often as its guard allows.
LEMMA Progresses == Spec => [](TypeOK /\ Progress)
<1>1. Init => Progress
  BY LimitsAssumption DEF Init, Progress, LimitsAssumption, Nodes
<1>2. TypeOK /\ Progress /\ [Next]_vars => Progress'
  <2> SUFFICES ASSUME TypeOK, Progress, [Next]_vars PROVE Progress'
    OBVIOUS
  <2>0. /\ MaxIterations \in Nat /\ RecursionLimit \in Nat /\ 5 + 4 * MaxIterations <= RecursionLimit
        /\ iteration \in Nat /\ steps \in Nat
    BY LimitsAssumption, ConfigAssumption DEF LimitsAssumption, ConfigAssumption, TypeOK
  <2>a. ASSUME NEW from, NEW to, Step(from, to)
        PROVE  node = from /\ node' = to /\ steps' = steps + 1
    BY <2>0, <2>a DEF Step, Progress
  <2>1. CASE Router
    <3>1. node = "router" /\ node' = "plan" /\ steps' = steps + 1 /\ iteration' = iteration
          /\ grounded' = grounded
      BY <2>1, <2>a DEF Router, output
    <3> QED BY <3>1, <2>0, LimitsAssumption DEF Progress, Nodes, LimitsAssumption
  <2>2. CASE Plan
    <3>1. node = "plan" /\ node' = "execute" /\ steps' = steps + 1 /\ iteration' = iteration + 1
          /\ grounded' = grounded
      BY <2>2, <2>a DEF Plan, output
    <3> QED BY <3>1, <2>0 DEF Progress, Nodes
  <2>3. CASE Execute
    <3>1. node = "execute" /\ node' = "observe" /\ steps' = steps + 1 /\ iteration' = iteration
          /\ grounded' = grounded
      BY <2>3, <2>a DEF Execute, output
    <3> QED BY <3>1, <2>0 DEF Progress, Nodes
  <2>4. CASE Observe
    <3>1. node = "observe" /\ node' = "reflect" /\ steps' = steps + 1 /\ iteration' = iteration
          /\ grounded' = grounded
      BY <2>4, <2>a DEF Observe, output
    <3> QED BY <3>1, <2>0 DEF Progress, Nodes
  <2>5. CASE Reflect
    <3>1. PICK v \in Verdicts \cup {ReviewFailed} :
            /\ Step("reflect", AfterReflect(v.stop, iteration))
            /\ UNCHANGED <<iteration, output>>
      BY <2>5 DEF Reflect
    <3>2. node = "reflect" /\ node' = AfterReflect(v.stop, iteration) /\ steps' = steps + 1
          /\ iteration' = iteration /\ grounded' = grounded
      BY <3>1, <2>a DEF output
    <3>3. \/ node' = "synthesize"
          \/ node' = "plan" /\ iteration < MaxIterations
      BY <3>2, <2>0 DEF AfterReflect
    <3> QED BY <3>2, <3>3, <2>0 DEF Progress, Nodes
  <2>6. CASE Synthesize
    <3>1. node = "synthesize" /\ node' = "grounding" /\ steps' = steps + 1 /\ iteration' = iteration
          /\ grounded' = grounded
      BY <2>6, <2>a DEF Synthesize, loop
    <3>2. grounded = "failed" => retried'
      BY <2>6 DEF Synthesize
    <3> QED BY <3>1, <3>2, <2>0 DEF Progress, Nodes
  <2>7. CASE Grounding
    <3>1. PICK result \in {"passed", "failed"} :
            /\ Step("grounding", AfterGrounding(result))
            /\ grounded' = result
            /\ UNCHANGED <<loop, retried>>
      BY <2>7 DEF Grounding
    <3>2. node = "grounding" /\ node' = AfterGrounding(result) /\ steps' = steps + 1
          /\ iteration' = iteration
      BY <3>1, <2>a DEF loop
    <3>3. \/ node' = "done"
          \/ node' = "synthesize" /\ ~retried /\ grounded' = "failed"
      BY <3>1, <3>2 DEF AfterGrounding
    <3> QED BY <3>2, <3>3, <2>0 DEF Progress, Nodes
  <2>8. CASE Timeout
    BY <2>8, <2>0 DEF Timeout, Progress, Nodes
  <2>9. CASE UNCHANGED vars
    BY <2>9 DEF vars, loop, output, Progress, Nodes
  <2> QED BY <2>1, <2>2, <2>3, <2>4, <2>5, <2>6, <2>7, <2>8, <2>9 DEF Next, RunNode
<1> QED BY <1>1, <1>2, Typing, PTL DEF Spec

\* No turn runs more than 5 + 4 * MaxIterations nodes, whatever models and
\* tools reply and whichever nodes fall back: RECURSION_LIMIT is never met.
THEOREM NeverLoopsOn == Spec => []WithinRecursionLimit
<1>1. TypeOK /\ Progress => WithinRecursionLimit
  BY LimitsAssumption, ConfigAssumption
  DEF LimitsAssumption, ConfigAssumption, TypeOK, Progress, WithinRecursionLimit
<1> QED BY <1>1, Progresses, PTL

-----------------------------------------------------------------------------
(* Tool calls: what the history knows of them, node by node *)

\* Every call sent is in the history or in `more`.
Known(more) == \A c \in ToolCalls : runs[c] > 0 => c \in history \cup more

\* A lap whose results were lost is the one case where a call was sent and the
\* history does not know; the lap has no evidence then.
Traces ==
    /\ NoCallTwice
    /\ node \in {"router", "plan", "execute"} => Known({})
    /\ node = "execute" => pending \cap history = {}
    /\ node \in {"execute", "observe"} => lap = Nothing
    /\ node = "observe" => Known(results) \/ results = {}
    /\ node = "reflect" => Known({}) \/ lap = Nothing

\* No tool call is made twice in a turn, although the history that Plan's calls
\* are compared with is written only two nodes later (NoCallTwice).
THEOREM NoCallRunsTwice == Spec => []NoCallTwice
<1>1. Init => Traces
  <2> SUFFICES ASSUME Init PROVE Traces
    OBVIOUS
  <2>1. \A c \in ToolCalls : runs[c] = 0
    BY DEF Init
  <2> QED BY <2>1 DEF Init, Traces, NoCallTwice, Known
<1>2. TypeOK /\ Traces /\ [Next]_vars => Traces'
  <2> SUFFICES ASSUME TypeOK, Traces, [Next]_vars PROVE Traces'
    OBVIOUS
  <2>0. \A c \in ToolCalls : runs[c] \in Nat /\ runs[c] <= 1
    BY DEF TypeOK, Traces, NoCallTwice
  <2>a. ASSUME UNCHANGED runs PROVE NoCallTwice'
    BY <2>a DEF Traces, NoCallTwice
  <2>1. CASE Router
    <3>1. node = "router" /\ node' = "plan" /\ UNCHANGED <<runs, history>>
      BY <2>1 DEF Router, Step
    <3>2. Known({})'
      BY <3>1 DEF Traces, Known
    <3> QED BY <3>1, <3>2, <2>a DEF Traces
  <2>2. CASE Plan
    <3>1. node = "plan" /\ node' = "execute" /\ UNCHANGED <<runs, history>> /\ lap' = Nothing
      BY <2>2 DEF Plan, Step
    <3>2. Known({})'
      BY <3>1 DEF Traces, Known
    <3>3. pending' \cap history' = {}
      BY <2>2, <3>1, DedupedBounds DEF Plan
    <3> QED BY <3>1, <3>2, <3>3, <2>a DEF Traces
  <2>3. CASE Execute
    <3>1. PICK ran \in {{}, pending} : runs' = Sent(ran) /\ results' \in {{}, ran}
      BY <2>3 DEF Execute
    <3>2. node = "execute" /\ node' = "observe" /\ UNCHANGED <<history, lap>>
      BY <2>3 DEF Execute, Step
    <3>3. \A c \in ToolCalls : c \in ran => runs[c] = 0
      BY <3>1, <3>2, <2>0 DEF Traces, Known
    <3>4. \A c \in ToolCalls : runs'[c] = IF c \in ran THEN runs[c] + 1 ELSE runs[c]
      BY <3>1 DEF Sent
    <3>5. NoCallTwice'
      BY <3>3, <3>4, <2>0 DEF NoCallTwice
    <3>6. Known(ran)'
      BY <3>2, <3>4 DEF Traces, Known
    <3> QED BY <3>1, <3>2, <3>5, <3>6 DEF Traces
  <2>4. CASE Observe
    <3>1. node = "observe" /\ node' = "reflect" /\ UNCHANGED runs
      BY <2>4 DEF Observe, Step
    <3>2. CASE UNCHANGED <<lap, evidence, history>>
      BY <3>1, <3>2, <2>a DEF Traces
    <3>3. CASE history' = history \cup results /\ Known(results)
      <4>1. Known({})'
        BY <3>1, <3>3 DEF Known
      <4> QED BY <3>1, <4>1, <2>a DEF Traces
    <3>4. ASSUME results = {}, NEW misses \in SUBSET results,
                 NEW ok \in Cardinality(results \ misses)..(Cardinality(results \ misses) * MaxEntries),
                 lap' = [ok |-> ok, absent |-> Cardinality(misses)]
          PROVE  lap' = Nothing
      <4>1. misses = {} /\ results \ misses = {}
        BY <3>4
      <4>2. Cardinality(misses) = 0 /\ Cardinality(results \ misses) = 0
        BY <4>1, FS_EmptySet
      <4>3. ok = 0
        BY <4>2, LimitsAssumption DEF LimitsAssumption
      <4> QED BY <3>4, <4>2, <4>3 DEF Nothing
    <3>5. CASE lap' = Nothing
      BY <3>1, <3>5, <2>a DEF Traces
    <3>6. Known(results) \/ results = {}
      BY <3>1 DEF Traces
    <3> QED BY <2>4, <3>2, <3>3, <3>4, <3>5, <3>6 DEF Observe
  <2>5. CASE Reflect
    <3>1. PICK v \in Verdicts \cup {ReviewFailed} :
            /\ Step("reflect", AfterReflect(v.stop, iteration))
            /\ UNCHANGED <<history, lap, runs>>
      BY <2>5 DEF Reflect
    <3>2. node = "reflect" /\ node' = AfterReflect(v.stop, iteration)
      BY <3>1 DEF Step
    <3>3. CASE node' = "synthesize"
      BY <3>1, <3>3, <2>a DEF Traces
    <3>4. CASE node' = "plan"
      <4>1. v.stop \notin {"complete", "exhausted", "no_new_evidence"}
        BY <3>2, <3>4 DEF AfterReflect
      <4>2. lap # Nothing
        <5> SUFFICES ASSUME lap = Nothing PROVE FALSE
          OBVIOUS
        <5>1. ~(lap.ok > 0)
          BY DEF Nothing
        <5>2. Verdicts = {Verdict("no_new_evidence", TRUE, FALSE)}
          BY <5>1 DEF Verdicts
        <5> QED BY <3>1, <4>1, <5>2 DEF Verdict, ReviewFailed
      <4>3. Known({})'
        BY <3>1, <3>2, <4>2 DEF Traces, Known
      <4> QED BY <3>1, <3>4, <4>3, <2>a DEF Traces
    <3> QED BY <3>2, <3>3, <3>4 DEF AfterReflect
  <2>6. CASE Synthesize
    <3>1. node' = "grounding" /\ UNCHANGED runs
      BY <2>6 DEF Synthesize, Step, loop
    <3> QED BY <3>1, <2>a DEF Traces
  <2>7. CASE Grounding
    <3>1. node' \in {"synthesize", "done"} /\ UNCHANGED runs
      BY <2>7 DEF Grounding, Step, AfterGrounding, loop
    <3> QED BY <3>1, <2>a DEF Traces
  <2>8. CASE Timeout
    <3>1. PICK ran \in {{}, IF node = "execute" THEN pending ELSE {}} : runs' = Sent(ran)
      BY <2>8 DEF Timeout
    <3>2. \A c \in ToolCalls : c \in ran => runs[c] = 0
      BY <3>1, <2>0 DEF Traces, Known
    <3>3. \A c \in ToolCalls : runs'[c] = IF c \in ran THEN runs[c] + 1 ELSE runs[c]
      BY <3>1 DEF Sent
    <3>4. NoCallTwice'
      BY <3>2, <3>3, <2>0 DEF NoCallTwice
    <3>5. node' = "done"
      BY <2>8 DEF Timeout
    <3> QED BY <3>4, <3>5 DEF Traces
  <2>9. CASE UNCHANGED vars
    BY <2>9 DEF vars, loop, Traces, NoCallTwice, Known
  <2> QED BY <2>1, <2>2, <2>3, <2>4, <2>5, <2>6, <2>7, <2>8, <2>9 DEF Next, RunNode
<1>3. Traces => NoCallTwice
  BY DEF Traces
<1> QED BY <1>1, <1>2, <1>3, Typing, PTL DEF Spec

-----------------------------------------------------------------------------
(* The answer: what the loop's verdict and the check make of it *)

\* What is written after the loop is written on a verdict.
Decided == stop \in StopReason /\ (partial <=> stop # "complete")

\* High confidence in an answer as written, before the check.
Earned == answer.confidence = "high" =>
              stop = "complete" /\ answer.cited = 2 /\ evidence.ok >= 2

Outcome ==
    /\ node = "plan" /\ iteration > 0 => next /\ stop = "none" /\ ~partial
    /\ node \in {"synthesize", "grounding"} => Decided
    /\ node = "grounding" => answer.kind # "none" /\ Earned
    /\ PartialUnlessComplete
    /\ ShippedAsChecked
    /\ HighConfidenceEarned

LEMMA EdgeMatchesVerdict ==
    ASSUME NEW v \in Verdicts \cup {ReviewFailed}
    PROVE  \/ /\ AfterReflect(v.stop, iteration) = "synthesize"
              /\ v.stop \in StopReason
              /\ v.partial <=> v.stop # "complete"
           \/ /\ AfterReflect(v.stop, iteration) = "plan"
              /\ v.next /\ v.stop = "none" /\ ~v.partial
<1>1. ASSUME NEW j \in Judgement, v = Decide(j)
      PROVE  \/ v.stop \in {"complete", "exhausted"} /\ (v.partial <=> v.stop # "complete")
             \/ v.stop = "cap_reached" /\ v.partial /\ iteration >= MaxIterations
             \/ v.stop = "none" /\ ~v.partial /\ v.next /\ ~(iteration >= MaxIterations)
  BY <1>1 DEF Decide, Verdict, Judgement, Exhausted
<1>2. \/ v = Verdict("complete", FALSE, FALSE)
      \/ v = Verdict("no_new_evidence", TRUE, FALSE)
      \/ v = Verdict("exhausted", TRUE, FALSE)
      \/ \E j \in Judgement : v = Decide(j)
  BY DEF Verdicts, ReviewFailed
<1>3. CASE \E j \in Judgement : v = Decide(j)
  BY <1>1, <1>3 DEF AfterReflect, StopReason
<1>4. CASE v = Verdict("complete", FALSE, FALSE)
  BY <1>4 DEF Verdict, StopReason, AfterReflect
<1>5. CASE v = Verdict("no_new_evidence", TRUE, FALSE)
  BY <1>5 DEF Verdict, StopReason, AfterReflect
<1>6. CASE v = Verdict("exhausted", TRUE, FALSE)
  BY <1>6 DEF Verdict, StopReason, AfterReflect
<1> QED BY <1>2, <1>3, <1>4, <1>5, <1>6

\* How a turn may end.  It has an answer and a reason, and is partial unless the
\* reason is "complete" (PartialUnlessComplete).  A draft that did not pass the
\* check carries the note and low confidence (ShippedAsChecked).  High
\* confidence is kept for a complete loop, a passed check and two usable
\* citations (HighConfidenceEarned).  A lap after the first was asked for
\* (LapsHaveDirection).
THEOREM HonestEnding ==
    Spec => [](/\ LapsHaveDirection /\ PartialUnlessComplete
               /\ ShippedAsChecked /\ HighConfidenceEarned)
<1>1. Init => Outcome
  BY DEF Init, Outcome, PartialUnlessComplete, ShippedAsChecked, HighConfidenceEarned
<1>2. TypeOK /\ Progress /\ Outcome /\ [Next]_vars => Outcome'
  <2> SUFFICES ASSUME TypeOK, Progress, Outcome, [Next]_vars PROVE Outcome'
    OBVIOUS
  <2> USE DEF Outcome, PartialUnlessComplete, ShippedAsChecked, HighConfidenceEarned
  <2>1. CASE Router
    <3>1. node' = "plan" /\ iteration' = 0
      BY <2>1 DEF Router, Step, Progress
    <3> QED BY <3>1
  <2>2. CASE Plan
    BY <2>2 DEF Plan, Step
  <2>3. CASE Execute
    BY <2>3 DEF Execute, Step
  <2>4. CASE Observe
    BY <2>4 DEF Observe, Step
  <2>5. CASE Reflect
    <3>1. PICK v \in Verdicts \cup {ReviewFailed} :
            /\ Step("reflect", AfterReflect(v.stop, iteration))
            /\ stop' = v.stop /\ partial' = v.partial /\ next' = v.next
      BY <2>5 DEF Reflect
    <3>2. node' = AfterReflect(v.stop, iteration)
      BY <3>1 DEF Step
    <3> QED BY <3>1, <3>2, EdgeMatchesVerdict DEF Decided
  <2>6. CASE Synthesize
    <3>1. node = "synthesize" /\ node' = "grounding" /\ UNCHANGED <<stop, partial, evidence>>
      BY <2>6 DEF Synthesize, Step, loop
    <3>2. ASSUME NEW cited \in 0..2, NEW resolved \in BOOLEAN,
                 cited <= evidence.ok, answer' = Draft(cited, resolved)
          PROVE  answer'.kind # "none" /\ Earned'
      <4>1. evidence.ok \in Nat
        BY DEF TypeOK, Counts
      <4>2. answer'.kind = "draft" /\ answer'.cited = cited /\ answer'.confidence = Confidence(cited)
        BY <3>2 DEF Draft
      <4> QED BY <3>1, <3>2, <4>1, <4>2 DEF Confidence, Earned
    <3>3. ASSUME answer' = EvidenceAnswer
          PROVE  answer'.kind # "none" /\ Earned'
      BY <3>3 DEF EvidenceAnswer, Earned
    <3>4. answer'.kind # "none" /\ Earned'
      BY <2>6, <3>2, <3>3 DEF Synthesize
    <3> QED BY <3>1, <3>4 DEF Decided
  <2>7. CASE Grounding
    <3>1. PICK result \in {"passed", "failed"} :
            /\ Step("grounding", AfterGrounding(result))
            /\ grounded' = result
            /\ answer' = IF result = "failed" /\ retried
                         THEN [answer EXCEPT !.hedged = TRUE, !.confidence = "low"] ELSE answer
            /\ UNCHANGED <<loop, retried>>
      BY <2>7 DEF Grounding
    <3>2. node = "grounding" /\ node' = AfterGrounding(result) /\ UNCHANGED <<stop, partial, evidence>>
      BY <3>1 DEF Step, loop
    <3>3. CASE result = "failed" /\ retried
      <4>1. answer' = [answer EXCEPT !.hedged = TRUE, !.confidence = "low"]
        BY <3>1, <3>3
      <4>2. answer'.kind = answer.kind /\ answer'.hedged = TRUE /\ answer'.confidence = "low"
        BY <4>1 DEF TypeOK, Answer
      <4> QED BY <3>2, <3>3, <4>2 DEF AfterGrounding, Decided, StopReason
    <3>4. CASE result = "failed" /\ ~retried
      BY <3>1, <3>2, <3>4 DEF AfterGrounding, Decided
    <3>5. CASE result = "passed"
      BY <3>1, <3>2, <3>5 DEF AfterGrounding, Decided, StopReason, Earned
    <3> QED BY <3>1, <3>3, <3>4, <3>5
  <2>8. CASE Timeout
    BY <2>8 DEF Timeout, EvidenceAnswer
  <2>9. CASE UNCHANGED vars
    BY <2>9 DEF vars, loop, output, Decided, Earned
  <2> QED BY <2>1, <2>2, <2>3, <2>4, <2>5, <2>6, <2>7, <2>8, <2>9 DEF Next, RunNode
<1>3. Outcome => LapsHaveDirection /\ PartialUnlessComplete /\ ShippedAsChecked /\ HighConfidenceEarned
  BY DEF Outcome, LapsHaveDirection
<1> QED BY <1>1, <1>2, <1>3, Progresses, PTL DEF Spec

\* The part of it a reader of an answer relies on first: an answer is marked
\* partial exactly when its loop ended for another reason than that everything
\* needed was found.
THEOREM PartialIsTrue == Spec => []PartialUnlessComplete
<1>1. (/\ LapsHaveDirection /\ PartialUnlessComplete
       /\ ShippedAsChecked /\ HighConfidenceEarned) => PartialUnlessComplete
  OBVIOUS
<1> QED BY <1>1, HonestEnding, PTL

-----------------------------------------------------------------------------
(* What the models are shown *)

\* Laps whose results Observe has had its turn at.
Absences ==
    /\ node = "router" => evidence.absent = 0
    /\ node = "plan" => evidence.absent <= 1 + iteration * MaxCallsPerLap
    /\ node \in {"execute", "observe"} => evidence.absent <= 1 + (iteration - 1) * MaxCallsPerLap
    /\ node \in {"reflect", "synthesize", "grounding"} =>
           evidence.absent <= 1 + iteration * MaxCallsPerLap
    /\ evidence.absent <= MaxEvidence

\* Laps that fit the configuration leave room for every absence they can find.
LEMMA LapsFit ==
    ASSUME NEW i \in Nat, i <= MaxIterations
    PROVE  1 + i * MaxCallsPerLap <= MaxEvidence
<1>1. MaxIterations \in Nat /\ MaxCallsPerLap \in Nat /\ MaxEvidence \in Nat
      /\ 1 + MaxIterations * MaxCallsPerLap <= MaxEvidence
  BY LimitsAssumption, ConfigAssumption DEF LimitsAssumption, ConfigAssumption
<1>2. (MaxIterations - i) * MaxCallsPerLap >= 0
  BY <1>1
<1>3. MaxIterations * MaxCallsPerLap = i * MaxCallsPerLap + (MaxIterations - i) * MaxCallsPerLap
  BY <1>1
<1>4. i * MaxCallsPerLap \in Int /\ MaxIterations * MaxCallsPerLap \in Int
      /\ (MaxIterations - i) * MaxCallsPerLap \in Int
  BY <1>1
<1> QED BY <1>1, <1>2, <1>3, <1>4

\* With as many laps and calls as the configuration allows, evidence_block
\* shows every absence and stays under its cap (AbsencesShown).
THEOREM NothingFoundIsShown == Spec => []AbsencesShown
<1>1. Init => Absences
  BY LimitsAssumption DEF Init, Absences, Nothing, LimitsAssumption
<1>2. TypeOK /\ Progress /\ Absences /\ [Next]_vars => Absences'
  <2> SUFFICES ASSUME TypeOK, Progress, Absences, [Next]_vars PROVE Absences'
    OBVIOUS
  <2>0. /\ MaxCallsPerLap \in Nat /\ MaxEvidence \in Nat /\ MaxIterations \in Nat
        /\ iteration \in Nat /\ evidence.absent \in Nat
    BY LimitsAssumption DEF LimitsAssumption, TypeOK, Counts
  <2>1. CASE Router
    <3>1. node' = "plan" /\ iteration' = 0
      BY <2>1 DEF Router, Step, Progress
    <3>2. node = "router" /\ evidence.absent = 0
      BY <2>1 DEF Router, Step, Absences
    <3>3. evidence'.absent <= 1 /\ evidence'.absent \in Nat
      BY <2>1, <3>2 DEF Router, Nothing
    <3>4. 1 + 0 * MaxCallsPerLap <= MaxEvidence
      BY LapsFit, <2>0
    <3> QED BY <3>1, <3>3, <3>4, <2>0 DEF Absences
  <2>2. CASE Plan
    <3>1. node = "plan" /\ node' = "execute" /\ iteration' = iteration + 1 /\ UNCHANGED evidence
      BY <2>2 DEF Plan, Step
    <3>2. (iteration + 1) - 1 = iteration
      BY <2>0
    <3> QED BY <3>1, <3>2 DEF Absences
  <2>3. CASE Execute
    BY <2>3 DEF Execute, Step, Absences
  <2>4. CASE Observe
    <3>1. node = "observe" /\ node' = "reflect" /\ UNCHANGED iteration
      BY <2>4 DEF Observe, Step
    <3>2. evidence'.absent \in Nat /\ evidence'.absent <= evidence.absent + MaxCallsPerLap
      <4>1. CASE UNCHANGED evidence
        BY <4>1, <2>0
      <4>2. ASSUME NEW misses \in SUBSET results, NEW ok,
                   evidence' = [ok |-> evidence.ok + ok,
                                absent |-> evidence.absent + Cardinality(misses)]
            PROVE  evidence'.absent \in Nat /\ evidence'.absent <= evidence.absent + MaxCallsPerLap
        <5>1. Cardinality(misses) \in Nat /\ Cardinality(misses) <= MaxCallsPerLap
          BY EntriesAreCounts
        <5>2. evidence'.absent = evidence.absent + Cardinality(misses)
          BY <4>2
        <5> QED BY <5>1, <5>2, <2>0
      <4> QED BY <2>4, <4>1, <4>2 DEF Observe
    <3>3. evidence.absent <= 1 + (iteration - 1) * MaxCallsPerLap
      BY <3>1 DEF Absences
    <3>4. (iteration - 1) * MaxCallsPerLap + MaxCallsPerLap = iteration * MaxCallsPerLap
      BY <2>0
    <3>5. evidence'.absent <= 1 + iteration * MaxCallsPerLap
      BY <3>2, <3>3, <3>4, <2>0
    <3>6. 1 + iteration * MaxCallsPerLap <= MaxEvidence
      BY <3>1, <2>0, LapsFit DEF Progress
    <3>7. evidence'.absent <= MaxEvidence
      BY <3>2, <3>5, <3>6, <2>0
    <3> QED BY <3>1, <3>5, <3>7 DEF Absences
  <2>5. CASE Reflect
    <3>1. node = "reflect" /\ node' \in {"plan", "synthesize"} /\ UNCHANGED <<iteration, evidence>>
      BY <2>5 DEF Reflect, Step, AfterReflect
    <3> QED BY <3>1 DEF Absences
  <2>6. CASE Synthesize
    BY <2>6 DEF Synthesize, Step, Absences, loop
  <2>7. CASE Grounding
    <3>1. node = "grounding" /\ node' \in {"synthesize", "done"} /\ UNCHANGED <<iteration, evidence>>
      BY <2>7 DEF Grounding, Step, AfterGrounding, loop
    <3> QED BY <3>1 DEF Absences
  <2>8. CASE Timeout
    BY <2>8 DEF Timeout, Absences
  <2>9. CASE UNCHANGED vars
    BY <2>9 DEF vars, loop, Absences
  <2> QED BY <2>1, <2>2, <2>3, <2>4, <2>5, <2>6, <2>7, <2>8, <2>9 DEF Next, RunNode
<1>3. TypeOK /\ Absences => AbsencesShown
  <2> SUFFICES ASSUME TypeOK, Absences PROVE AbsencesShown
    OBVIOUS
  <2>1. /\ MaxEvidence \in Nat /\ evidence.ok \in Nat /\ evidence.absent \in Nat
        /\ evidence.absent <= MaxEvidence
    BY LimitsAssumption DEF LimitsAssumption, TypeOK, Counts, Absences
  <2>2. Kept.absent = evidence.absent
    BY <2>1 DEF Kept, Least
  <2>3. Kept.ok \in Nat /\ Kept.ok <= MaxEvidence - evidence.absent
    BY <2>1 DEF Kept, Least
  <2> QED BY <2>1, <2>2, <2>3 DEF AbsencesShown
<1> QED BY <1>1, <1>2, <1>3, Progresses, PTL DEF Spec
=============================================================================
