-------------------------------- MODULE PureSteps ---------------------------
(***************************************************************************)
(* The functions of the service that only compute, each over its own       *)
(* inputs: a state is one input of one of them, and the properties are     *)
(* those of each module, of its inputs.                                    *)
(***************************************************************************)
EXTENDS Inputs, Grounding, SearchTool, Chunking, Periods, TurnTrace, CaseChecks, RunReport

-----------------------------------------------------------------------------
(* The inputs the functions are called with *)

\* What a turn can have come to: evidence is of a call or of the entity.
JudgedTurn(turn) ==
    /\ turn.evidence \in Seq([tool : STRING, status : STRING])
    /\ turn.calls \in Seq([tool : STRING, args : SUBSET STRING])
    /\ \A e \in ToSet(turn.evidence) : e.tool = "entity_resolution" \/ \E c \in ToSet(turn.calls) : c.tool = e.tool
    /\ turn.stop \in Limits \cup {"complete", "exhausted", "no_new_evidence"}
    /\ turn.grounded \in {"none", "passed", "failed"}
    /\ turn.vehicle # "not_found"
    /\ turn.numbers \subseteq Int

\* What a review can say of a turn: the parts of build_case's expected.
Review(review) ==
    /\ review = [k \in DOMAIN review |-> review[k]]
    /\ DOMAIN review \subseteq {"domains", "vehicle_id", "must_contain", "must_not_contain", "abstain"}
    /\ "domains" \in DOMAIN review => review.domains # {}

\* Nodes as the graph runs them: laps begin with a plan, which counts them,
\* only the last node can be lost, and a turn without a reason to stop was.
TurnOfLaps(runs, stop) ==
    /\ runs \in Seq(NodeRun) /\ runs # <<>>
    /\ \A i \in 1..Len(runs) :
        LET plans == Cardinality({j \in 1..i : runs[j].node = "plan"})
        IN  /\ runs[i].node = "plan" => runs[i].iteration = plans - 1
            /\ runs[i].node \in LoopNodes \ {"plan"} => plans > 0 /\ runs[i].iteration = plans
    /\ \A i \in 1..Len(runs) - 1 : runs[i].end \in {"ok", "fellback"}
    /\ stop = "none" => runs[Len(runs)].end \in {"error", "cut"}

\* What both halves of a search found, each chunk once, by its id.
FoundBy(dense, sparse, length, model) ==
    /\ \A s \in {dense, sparse} : s \in Seq(Nat) /\ \A i, j \in 1..Len(s) : s[i] = s[j] => i = j
    /\ \A c \in ToSet(dense) \cup ToSet(sparse) : length[c] \in Nat /\ model[c] \in Int

TypedId == [letters : Seq(Nat \ 0..9), digits : Seq(0..9)]

\* Ids of the fleet, each once, none without a letter or digit.
Fleet(near) ==
    /\ near \in Seq(TypedId) /\ \A i, j \in 1..Len(near) : near[i] = near[j] => i = j
    /\ \A k \in ToSet(near) : Norm(k) # <<>>

\* One result for a case at most, and of the cases only.
ResultsOf(results, cases) ==
    /\ \A r \in results : r.id \in cases /\ r.pass \in BOOLEAN
    /\ \A r, s \in results : r.id = s.id => r = s

WellFormed ==
    /\ IsInput("answer") =>
        /\ input.answer \in Seq(Sentence)
        /\ \E S \in SUBSET Ids : input.evidence \in [S -> Entry]
    /\ IsInput("search") => FoundBy(input.dense, input.sparse, input.length, input.model)
    /\ IsInput("call") =>
        /\ LET corpus == input.corpus IN FoundBy(corpus.dense, corpus.sparse, corpus.length, corpus.model)
        /\ input.call.entity.kind = "vehicle" => input.call.entity = Vehicle(input.call.entity.id) /\ input.call.entity.id \in TypedId
        /\ input.call = [domain |-> input.call.domain, worded |-> input.call.worded, entity |-> input.call.entity]
        /\ Fleet(input.near)
    /\ IsInput("document") => IsDocument(input.doc)
    /\ IsInput("id") => input.raw \in TypedId /\ Fleet(input.near) /\ input.known = ToSet(input.near)
    /\ IsInput("day") =>
        /\ input.day \in Days /\ MonthAt[input.day] >= 6
        /\ input.cfg.rolling \in BOOLEAN /\ input.cfg.weekStart \in 0..6 /\ input.cfg.yearStart \in 1..12
    /\ IsInput("turn") => TurnOfLaps(input.runs, input.stop) /\ input.limit \in BOOLEAN
    /\ IsInput("calls") =>
        /\ input.times \in Seq(Int)
        /\ \A i, j \in 1..Len(input.times) : i < j => input.times[i] <= input.times[j]
    /\ IsInput("triage") => JudgedTurn(input.turn)
    /\ IsInput("review") => JudgedTurn(input.turn) /\ Review(input.review)
    /\ IsInput("specs") => JudgedTurn(input.turn) /\ input.fact \in [value : Int, tolerance : Nat]
    /\ IsInput("report") =>
        /\ IsFiniteSet(input.cases) /\ input.stopped \in BOOLEAN
        /\ ResultsOf(input.results, input.cases) /\ ResultsOf(input.previous, input.cases)

-----------------------------------------------------------------------------
(* Properties *)

\* Backed, clauses being what punctuation separates.
GroundedMeansBacked == IsInput("answer") => Backed(input.answer, input.evidence, {}, {"comma"})

\* "A hedge only excuses the causal phrase in its own clause", and contrastive
\* words begin a clause (groundedness.py, the comment on _CLAUSE).
HedgeExcusesOwnClause == IsInput("answer") => Backed(input.answer, input.evidence, {}, {"comma", "contrast"})

\* FusionIsFair and OnlyStrongReturned, of every search, and EntityOnlyBoosts,
\* of every call of the tool: what both halves rank above another stays above
\* it, what is returned is strong by itself, and what is named filters nothing.
SearchesAreFair ==
    /\ IsInput("search") =>
        /\ FusionIsFair(input.dense, input.sparse)
        /\ OnlyStrongReturned(input.dense, input.sparse, input.named, input.length, input.model)
    /\ IsInput("call") => EntityOnlyBoosts(input.call, input.near, input.corpus)

\* NothingLostOrTwice and SectionsKeptApart, of every document.
ChunksAreWhole ==
    IsInput("document") => WellChunked(input.doc, ChunkBlocks(Blocks(input.doc)))

\* AsksRatherThanGuesses and TypedIsFound, of every id as typed, every fleet
\* and more of its ids than are looked at.
IdsAreNotGuessed ==
    IsInput("id") => AsksRatherThanGuesses(input.raw, input.known) /\ TypedIsFound(input.raw, input.near)

\* PeriodsFitTogether, of every day, and WindowHolds, of every series of
\* calls: no day is in two periods or in none, and never more calls than the
\* limit are in a window, while a client told to wait is served when it has.
WindowsHold ==
    /\ IsInput("day") => PeriodsFitTogether(input.day, input.cfg)
    /\ IsInput("calls") => WindowHolds(input.times)

\* TraceShowsTurn and FailuresAreSent, of every turn, however it ends.
TurnsAreTraced ==
    IsInput("turn") =>
        /\ TraceShowsTurn(input.runs)
        /\ FailuresAreSent(input.runs, Ending(input.runs, input.stop, input.grounded, input.limit))

\* CaseCatchesItsTurn, ReadingsAgree, LookupsOnlyAdd and FactsBySize, of every
\* turn, and ReportIsFair, of every two runs: a failure that was reviewed is
\* found when it comes back, and no report hides one.
VerdictsHold ==
    /\ IsInput("triage") => ReadingsAgree(input.turn, input.latency)
    /\ IsInput("review") => CaseCatchesItsTurn(input.turn, input.review)
    /\ IsInput("specs") => LookupsOnlyAdd(input.turn, input.specs) /\ FactsBySize(input.turn, input.fact)
    /\ IsInput("report") => ReportIsFair(input.results, input.previous, input.cases, input.stopped)
=============================================================================
