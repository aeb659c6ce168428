---------------------------- MODULE PureStepsProofs ----------------------------
(***************************************************************************)
(* Theorems about the functions of PureSteps, for inputs of any size.      *)
(***************************************************************************)
EXTENDS PureSteps, FiniteSetTheorems, SequenceTheorems, TLAPS

-----------------------------------------------------------------------------
(* Turns as they are judged, and the reviews of flagged ones *)

Signalled == {"wrong_domain", "wrong_tool", "step_failed", "sql_failed", "empty_retrieval",
              "grounding_failure", "hit_limit"}

\* A number of either sign is as far from a fact of either sign.
LEMMA AbsFacts ==
    ASSUME NEW n \in Int
    PROVE  Abs(n) \in Int /\ Abs(-n) = Abs(n)
BY DEF Abs

LEMMA BySize ==
    ASSUME NEW turn, JudgedTurn(turn), NEW fact \in [value : Int, tolerance : Nat]
    PROVE  FactsBySize(turn, fact)
<1> DEFINE o == Outcome(turn)
           p == [o EXCEPT !.numbers = {-n : n \in @}]
           wider == [fact EXCEPT !.tolerance = @ + 1]
<1>1. o.numbers = turn.numbers /\ p.numbers = {-n : n \in turn.numbers}
  BY DEF Outcome
<1>2. turn.numbers \subseteq Int
  BY DEF JudgedTurn
<1>3. wider.value = fact.value /\ wider.tolerance = fact.tolerance + 1
  OBVIOUS
<1>4. Near(o, fact) <=> \E n \in turn.numbers : Abs(Abs(n) - Abs(fact.value)) <= fact.tolerance
  BY <1>1 DEF Near
<1>5. Near(p, fact) <=> \E n \in turn.numbers : Abs(Abs(-n) - Abs(fact.value)) <= fact.tolerance
  BY <1>1 DEF Near
<1>6. Near(o, wider) <=> \E n \in turn.numbers : Abs(Abs(n) - Abs(fact.value)) <= fact.tolerance + 1
  BY <1>1, <1>3 DEF Near
<1>7. Near(o, fact) = Near(p, fact)
  BY <1>2, <1>4, <1>5, AbsFacts DEF Near
<1>8. Near(o, fact) => Near(o, wider)
  <2>1. \A n \in turn.numbers : Abs(Abs(n) - Abs(fact.value)) \in Int
    BY <1>2, AbsFacts
  <2>2. QED
    BY <2>1, <1>4, <1>6
<1> QED
  BY <1>7, <1>8 DEF FactsBySize

LEMMA OnlyAdd ==
    ASSUME NEW turn, NEW specs
    PROVE  LookupsOnlyAdd(turn, specs)
<1> DEFINE o == Outcome(turn)
<1>1. /\ o = [o EXCEPT !.calls = o.calls]
      /\ \A c : [o EXCEPT !.calls = @ \ {c}].calls = o.calls \ {c}
      /\ \A c : [o EXCEPT !.calls = {c}].calls = {c}
  BY DEF Outcome
<1> HIDE DEF o
<1>2. \A spec \in specs, c \in o.calls :
        LET p == [o EXCEPT !.calls = @ \ {c}]
        IN  (Carried(p, spec) => Carried(o, spec)) /\ (Forbidden(p, spec) => Forbidden(o, spec))
  BY <1>1 DEF Carried, Forbidden
<1>3. \A spec \in specs : Carried(o, spec) => \E c \in o.calls : Carried([o EXCEPT !.calls = {c}], spec)
  BY <1>1 DEF Carried
<1> QED
  BY <1>2, <1>3 DEF LookupsOnlyAdd, o

\* A case asks for what its review says, and for few laps.
LEMMA BuiltCase ==
    ASSUME NEW review, Review(review)
    PROVE  /\ DOMAIN BuildCase(review) = DOMAIN review \cup {"max_iterations"}
           /\ \A k \in DOMAIN review : BuildCase(review)[k] = review[k]
<1>1. "max_iterations" \notin DOMAIN review
  BY DEF Review
<1> QED
  BY <1>1 DEF BuildCase

\* The checks of what a reviewer writes, by name.
LEMMA ReviewChecks ==
    ASSUME NEW turn, JudgedTurn(turn), NEW want
    PROVE  /\ Passes("domains", Outcome(turn), want) <=> want = turn.domains
           /\ Passes("vehicle_id", Outcome(turn), want) <=>
                want = turn.vehicle \/ (want = "not_found" /\ turn.vehicle = NoVehicle)
           /\ Passes("must_contain", Outcome(turn), want) <=> \A words \in want : words \cap turn.says # {}
           /\ Passes("must_not_contain", Outcome(turn), want) <=> \A words \in want : words \notin turn.says
           /\ Passes("abstain", Outcome(turn), want) <=> turn.partial \/ turn.says \cap AbstainMarkers # {}
<1>1. /\ Outcome(turn).domains = turn.domains /\ Outcome(turn).vehicle = turn.vehicle
      /\ Outcome(turn).says = turn.says /\ Outcome(turn).partial = turn.partial
  BY DEF Outcome
<1>2. Passes("domains", Outcome(turn), want) <=> want = turn.domains
  BY <1>1 DEF Passes
<1>3. Passes("vehicle_id", Outcome(turn), want) <=>
          want = turn.vehicle \/ (want = "not_found" /\ turn.vehicle = NoVehicle)
  BY <1>1 DEF Passes, EntityIs, JudgedTurn
<1>4. Passes("must_contain", Outcome(turn), want) <=> \A words \in want : words \cap turn.says # {}
  BY <1>1 DEF Passes
<1>5. Passes("must_not_contain", Outcome(turn), want) <=> \A words \in want : words \notin turn.says
  BY <1>1 DEF Passes
<1>6. Passes("abstain", Outcome(turn), want) <=> turn.partial \/ turn.says \cap AbstainMarkers # {}
  BY <1>1 DEF Passes, SaysItCannotTell
<1> QED
  BY <1>2, <1>3, <1>4, <1>5, <1>6

LEMMA CaseCatches ==
    ASSUME NEW turn, JudgedTurn(turn), NEW review, Review(review)
    PROVE  CaseCatchesItsTurn(turn, review)
<1> DEFINE o == Outcome(turn)
           expected == BuildCase(review)
           failing == Failing(o, expected)
           written == {k \in DOMAIN review : ~Passes(k, o, review[k])}
<1>1. /\ written \subseteq failing
      /\ failing \subseteq written \cup {"citations", "max_iterations"}
      /\ written \cap {"citations", "max_iterations"} = {}
  <2>1. DOMAIN expected = DOMAIN review \cup {"max_iterations"} /\ \A k \in DOMAIN review : expected[k] = review[k]
    BY BuiltCase
  <2> HIDE DEF o, expected
  <2>2. failing = {k \in DOMAIN expected : ~Passes(k, o, expected[k])}
                      \cup (IF o.cited \subseteq o.evidence THEN {} ELSE {"citations"})
    BY DEF Failing
  <2>3. written \subseteq failing
    BY <2>1, <2>2
  <2>4. failing \subseteq written \cup {"citations", "max_iterations"}
    BY <2>1, <2>2
  <2>5. written \cap {"citations", "max_iterations"} = {}
    BY DEF Review
  <2> QED
    BY <2>3, <2>4, <2>5
<1>2. Contradicts(turn, review) <=> written # {}
  <2>1. ASSUME NEW k \in written
        PROVE  Contradicts(turn, review)
    <3>1. k \in {"domains", "vehicle_id", "must_contain", "must_not_contain", "abstain"}
      BY <2>1 DEF Review
    <3>2. k \in DOMAIN review /\ ~Passes(k, o, review[k])
      BY <2>1
    <3> QED
      BY <3>1, <3>2, ReviewChecks DEF Contradicts
  <2>2. ASSUME Contradicts(turn, review)
        PROVE  written # {}
    <3>1. CASE "domains" \in DOMAIN review /\ review.domains # turn.domains
      BY <3>1, ReviewChecks
    <3>2. CASE /\ "vehicle_id" \in DOMAIN review /\ review.vehicle_id # turn.vehicle
               /\ ~(review.vehicle_id = "not_found" /\ turn.vehicle = NoVehicle)
      BY <3>2, ReviewChecks
    <3>3. CASE "must_contain" \in DOMAIN review /\ \E words \in review.must_contain : words \cap turn.says = {}
      BY <3>3, ReviewChecks
    <3>4. CASE "must_not_contain" \in DOMAIN review /\ \E words \in review.must_not_contain : words \in turn.says
      BY <3>4, ReviewChecks
    <3>5. CASE "abstain" \in DOMAIN review /\ ~turn.partial /\ turn.says \cap AbstainMarkers = {}
      BY <3>5, ReviewChecks
    <3> QED
      BY <2>2, <3>1, <3>2, <3>3, <3>4, <3>5 DEF Contradicts
  <2> QED
    BY <2>1, <2>2
<1> HIDE DEF failing, written
<1>3. QED
  BY <1>1, <1>2 DEF CaseCatchesItsTurn, failing

\* A signal of the row stands alone if it says that nothing was wrong.
LEMMA QuietAlone ==
    ASSUME NEW row, NEW vehicle
    PROVE  /\ Signals(row, vehicle) \cap {"slow", "no_signal"} # {} =>
                /\ \A s \in Signalled : ~Shows(row, vehicle)[s]
                /\ \E x \in {"slow", "no_signal"} : Signals(row, vehicle) = {x}
           /\ Signals(row, vehicle) \cap {"slow", "no_signal"} = {} =>
                /\ Signals(row, vehicle) # {}
                /\ Signals(row, vehicle) = {s \in Signalled : Shows(row, vehicle)[s]}
<1> DEFINE hits == {s \in DOMAIN Shows(row, vehicle) : Shows(row, vehicle)[s]}
<1>1. DOMAIN Shows(row, vehicle) = Signalled
  BY DEF Shows, Signalled
<1>2. hits = {s \in Signalled : Shows(row, vehicle)[s]}
  BY <1>1
<1>3. Signals(row, vehicle) =
          IF hits # {} THEN hits ELSE IF row.latency > SlowMs THEN {"slow"} ELSE {"no_signal"}
  BY DEF Signals
<1>4. Signalled \cap {"slow", "no_signal"} = {}
  BY DEF Signalled
<1> HIDE DEF hits
<1>5. CASE hits = {}
  <2>1. Signals(row, vehicle) = {"slow"} \/ Signals(row, vehicle) = {"no_signal"}
    BY <1>3, <1>5
  <2> QED
    BY <2>1, <1>2, <1>5
<1>6. CASE hits # {}
  <2>1. Signals(row, vehicle) = hits
    BY <1>3, <1>6
  <2> QED
    BY <2>1, <1>2, <1>4, <1>6
<1> QED
  BY <1>5, <1>6

\* The first of them in order names the cluster.
LEMMA ClusterIsSignal ==
    ASSUME NEW row, NEW vehicle, Signals(row, vehicle) \cap {"slow", "no_signal"} = {}
    PROVE  Cluster(row, vehicle) \notin {"slow", "no_signal"}
<1> DEFINE signals == Signals(row, vehicle)
<1>1. signals # {} /\ signals \subseteq Signalled
  BY QuietAlone
<1> HIDE DEF signals
<1>2. \A i \in 1..7 : Order[i] \in Signalled
  BY DEF Order, Signalled
<1>3. \A s \in Signalled : \E i \in 1..7 : Order[i] = s
  BY DEF Order, Signalled
<1>4. \E i \in 1..7 : Order[i] \in signals /\ \A j \in 1..i - 1 : Order[j] \notin signals
  <2>1. PICK k \in 1..7 : Order[k] \in signals
    BY <1>1, <1>3
  <2> DEFINE first(i) == Order[i] \in signals /\ \A j \in 1..i - 1 : Order[j] \notin signals
  <2>2. ASSUME \A i \in 1..7 : ~first(i)
        PROVE  FALSE
    <3>1. Order[1] \notin signals
      BY <2>2
    <3>2. Order[2] \notin signals
      BY <2>2, <3>1
    <3>3. Order[3] \notin signals
      BY <2>2, <3>1, <3>2
    <3>4. Order[4] \notin signals
      BY <2>2, <3>1, <3>2, <3>3
    <3>5. Order[5] \notin signals
      BY <2>2, <3>1, <3>2, <3>3, <3>4
    <3>6. Order[6] \notin signals
      BY <2>2, <3>1, <3>2, <3>3, <3>4, <3>5
    <3>7. Order[7] \notin signals
      BY <2>2, <3>1, <3>2, <3>3, <3>4, <3>5, <3>6
    <3> QED
      BY <2>1, <3>1, <3>2, <3>3, <3>4, <3>5, <3>6, <3>7
  <2> QED
    BY <2>2
<1>5. \E s \in signals : \E i \in 1..Len(Order) : Order[i] = s /\ \A j \in 1..i - 1 : Order[j] \notin signals
  <2>1. Len(Order) = 9
    BY DEF Order
  <2> QED
    BY <2>1, <1>4
<1>6. Cluster(row, vehicle) \in signals
  BY <1>5 DEF Cluster, signals
<1> QED
  BY <1>1, <1>6 DEF Signalled

\* The checks that triage reads the row for, by name.
LEMMA RowChecks ==
    ASSUME NEW turn, JudgedTurn(turn), NEW want
    PROVE  /\ Passes("grounded", Outcome(turn), want) <=> turn.grounded = "passed"
           /\ Passes("stop_reasons", Outcome(turn), want) <=> turn.stop \in want
           /\ Passes("tools", Outcome(turn), want) <=> want \subseteq {c.tool : c \in ToSet(turn.calls)}
<1>1. /\ Outcome(turn).grounded = turn.grounded /\ Outcome(turn).stop = turn.stop
      /\ Outcome(turn).calls = ToSet(turn.calls)
  BY DEF Outcome
<1>2. Passes("grounded", Outcome(turn), want) <=> turn.grounded = "passed"
  BY <1>1 DEF Passes
<1>3. Passes("stop_reasons", Outcome(turn), want) <=> turn.stop \in want
  BY <1>1 DEF Passes
<1>4. Passes("tools", Outcome(turn), want) <=> want \subseteq {c.tool : c \in ToSet(turn.calls)}
  BY <1>1 DEF Passes
<1> QED
  BY <1>2, <1>3, <1>4

LEMMA ReadingsSame ==
    ASSUME NEW turn, JudgedTurn(turn), NEW latency
    PROVE  ReadingsAgree(turn, latency)
<1> DEFINE row == TurnRow(turn, latency)
           signals == Signals(row, turn.vehicle)
           shown == Shows(row, turn.vehicle)
           o == Outcome(turn)
           want == [grounded |-> TRUE, stop_reasons |-> {"complete", "exhausted", "no_new_evidence"},
                    tools |-> {"structured_query_tool"}]
           checks == {"grounded", "stop_reasons"} \cup (IF turn.type = "lookup" THEN {"tools"} ELSE {})
           failing == Failing(o, [check \in checks |-> want[check]])
<1>1. /\ shown.grounding_failure <=> turn.grounded = "failed"
      /\ shown.hit_limit <=> turn.stop \in Limits
      /\ shown.wrong_tool <=>
           row.tools = {} \/ (turn.type = "lookup" /\ "structured_query_tool" \notin row.tools)
      /\ row.tools = {e.tool : e \in ToSet(turn.evidence)} \ {"entity_resolution"}
  BY DEF Shows, TurnRow
<1>2. /\ "grounded" \in failing <=> turn.grounded # "passed"
      /\ "stop_reasons" \in failing <=> turn.stop \in Limits
      /\ "tools" \in failing <=>
           turn.type = "lookup" /\ "structured_query_tool" \notin {c.tool : c \in ToSet(turn.calls)}
      /\ failing \subseteq {"grounded", "stop_reasons", "tools", "citations"}
  <2>1. failing = {check \in checks : ~Passes(check, o, want[check])}
                      \cup (IF o.cited \subseteq o.evidence THEN {} ELSE {"citations"})
    BY DEF Failing
  <2>2. /\ Passes("grounded", o, want.grounded) <=> turn.grounded = "passed"
        /\ Passes("stop_reasons", o, want.stop_reasons) <=> turn.stop \notin Limits
        /\ Passes("tools", o, want.tools) <=>
             "structured_query_tool" \in {c.tool : c \in ToSet(turn.calls)}
    <3>1. want.stop_reasons = {"complete", "exhausted", "no_new_evidence"} /\ want.tools = {"structured_query_tool"}
      OBVIOUS
    <3>2. turn.stop \in want.stop_reasons <=> turn.stop \notin Limits
      BY <3>1 DEF JudgedTurn, Limits
    <3> HIDE DEF want, failing
    <3>3. Passes("tools", o, want.tools) <=> want.tools \subseteq {c.tool : c \in ToSet(turn.calls)}
      BY RowChecks
    <3>4. Passes("tools", o, want.tools) <=> "structured_query_tool" \in {c.tool : c \in ToSet(turn.calls)}
      BY <3>1, <3>3
    <3> QED
      BY <3>2, <3>4, RowChecks
  <2> HIDE DEF o, want, failing
  <2> QED
    BY <2>1, <2>2
<1>3. ASSUME turn.type = "lookup", "structured_query_tool" \in row.tools
      PROVE  "structured_query_tool" \in {c.tool : c \in ToSet(turn.calls)}
  BY <1>1, <1>3 DEF JudgedTurn
<1> HIDE DEF row, signals, shown, failing
<1>4. signals \subseteq {"slow", "no_signal"} =>
          failing \subseteq {"citations"} \cup (IF turn.grounded = "none" THEN {"grounded"} ELSE {})
  <2>1. SUFFICES ASSUME signals \subseteq {"slow", "no_signal"}
                 PROVE  failing \subseteq {"citations"} \cup (IF turn.grounded = "none" THEN {"grounded"} ELSE {})
    OBVIOUS
  <2>2. \A s \in Signalled : ~shown[s]
    BY <2>1, QuietAlone DEF signals, shown
  <2>3. turn.grounded # "failed" /\ turn.stop \notin Limits
    BY <1>1, <2>2 DEF Signalled
  <2>4. turn.type = "lookup" => "structured_query_tool" \in row.tools
    BY <1>1, <2>2 DEF Signalled
  <2> QED
    BY <1>2, <1>3, <2>3, <2>4 DEF JudgedTurn
<1>5. "stop_reasons" \in failing \/ turn.grounded = "failed" =>
          Cluster(row, turn.vehicle) \notin {"slow", "no_signal"}
  <2>1. SUFFICES ASSUME "stop_reasons" \in failing \/ turn.grounded = "failed"
                 PROVE  Cluster(row, turn.vehicle) \notin {"slow", "no_signal"}
    OBVIOUS
  <2>2. \E s \in Signalled : shown[s]
    BY <1>1, <1>2, <2>1 DEF Signalled
  <2>3. signals \cap {"slow", "no_signal"} = {}
    BY <2>2, QuietAlone DEF signals, shown
  <2> QED
    BY <2>3, ClusterIsSignal DEF signals
<1>6. Cardinality(signals) > 1 => "slow" \notin signals
  <2>1. SUFFICES ASSUME "slow" \in signals
                 PROVE  ~(Cardinality(signals) > 1)
    OBVIOUS
  <2>2. PICK x : signals = {x}
    BY <2>1, QuietAlone DEF signals
  <2>3. Cardinality(signals) = 1
    BY <2>2, FS_Singleton
  <2> QED
    BY <2>3
<1> QED
  BY <1>4, <1>5, <1>6 DEF ReadingsAgree, row, signals, failing

-----------------------------------------------------------------------------
(* The results of two runs *)

\* What a rate is a rate of.
Percent(m, rows) ==
    2 * m * Cardinality(rows) <= 2000 * Cardinality({r \in rows : r.pass}) + Cardinality(rows)

\* A quotient is the greatest number whose product is not above the dividend.
LEMMA Quotients ==
    ASSUME NEW x \in Nat, NEW y \in Nat \ {0}, NEW m \in Int
    PROVE  /\ x \div y \in Nat
           /\ m <= x \div y <=> m * y <= x
<1>1. PICK q \in Int : q = x \div y /\ y * q <= x /\ x < y * (q + 1)
  <2>1. x \div y \in Int /\ y * (x \div y) <= x /\ x < y * (x \div y + 1)
    OBVIOUS
  <2> QED
    BY <2>1
<1>2. q >= 0
  <2>1. SUFFICES ASSUME q + 1 <= 0 PROVE FALSE
    BY <1>1
  <2>2. y * (q + 1) <= 0
    BY <2>1, <1>1
  <2> QED
    BY <2>2, <1>1
<1>3. ASSUME m <= q
      PROVE  m * y <= x
  <2>1. m * y <= q * y
    BY <1>1, <1>3
  <2> QED
    BY <1>1, <2>1
<1>4. ASSUME q + 1 <= m
      PROVE  x < m * y
  <2>1. (q + 1) * y <= m * y
    BY <1>1, <1>4
  <2> QED
    BY <1>1, <2>1
<1> QED
  BY <1>1, <1>2, <1>3, <1>4

LEMMA RateIsPercent ==
    ASSUME NEW rows, IsFiniteSet(rows), rows # {}
    PROVE  /\ Rate(rows) \in Nat
           /\ \A m \in Int : m <= Rate(rows) <=> Percent(m, rows)
<1> DEFINE n == Cardinality(rows)
           p == Cardinality({r \in rows : r.pass})
<1>1. n \in Nat \ {0} /\ p \in Nat
  BY FS_CardinalityType, FS_EmptySet, FS_Subset
<1>2. Rate(rows) = (2000 * p + n) \div (2 * n)
  BY <1>1 DEF Rate
<1> HIDE DEF n, p
<1>3. 2000 * p + n \in Nat /\ 2 * n \in Nat \ {0}
  BY <1>1
<1>4. Rate(rows) \in Nat /\ \A m \in Int : m <= Rate(rows) <=> m * (2 * n) <= 2000 * p + n
  BY <1>2, <1>3, Quotients
<1>5. \A m \in Int : m * (2 * n) = 2 * m * n
  BY <1>1
<1> QED
  BY <1>4, <1>5 DEF Percent, n, p

LEMMA DisjointUnion ==
    ASSUME NEW A, NEW B, IsFiniteSet(A), IsFiniteSet(B), A \cap B = {}
    PROVE  Cardinality(A \cup B) = Cardinality(A) + Cardinality(B)
<1>1. Cardinality(A \cup B) = Cardinality(A) + Cardinality(B) - Cardinality(A \cap B)
  BY FS_Union
<1>2. Cardinality(A \cap B) = 0
  BY FS_EmptySet
<1>3. Cardinality(A) \in Nat /\ Cardinality(B) \in Nat
  BY FS_CardinalityType
<1> QED
  BY <1>1, <1>2, <1>3

\* A percentage that two parts reach is one that the whole reaches.
LEMMA PercentOfBoth ==
    ASSUME NEW A, NEW B, IsFiniteSet(A), IsFiniteSet(B), A \cap B = {},
           NEW m \in Int, Percent(m, A), Percent(m, B)
    PROVE  Percent(m, A \cup B)
<1> DEFINE a == Cardinality(A)
           b == Cardinality(B)
           pa == Cardinality({r \in A : r.pass})
           pb == Cardinality({r \in B : r.pass})
<1>1. a \in Nat /\ b \in Nat /\ pa \in Nat /\ pb \in Nat
  BY FS_CardinalityType, FS_Subset
<1>2. Cardinality(A \cup B) = a + b
  BY DisjointUnion
<1>3. Cardinality({r \in A \cup B : r.pass}) = pa + pb
  <2>1. {r \in A \cup B : r.pass} = {r \in A : r.pass} \cup {r \in B : r.pass}
    OBVIOUS
  <2>2. {r \in A : r.pass} \cap {r \in B : r.pass} = {}
    OBVIOUS
  <2>3. IsFiniteSet({r \in A : r.pass}) /\ IsFiniteSet({r \in B : r.pass})
    BY FS_Subset
  <2> QED
    BY <2>1, <2>2, <2>3, DisjointUnion
<1>4. 2 * m * a <= 2000 * pa + a /\ 2 * m * b <= 2000 * pb + b
  BY DEF Percent
<1> HIDE DEF a, b, pa, pb
<1>5. 2 * m * (a + b) = 2 * m * a + 2 * m * b
  BY <1>1
<1>6. 2 * m * a \in Int /\ 2 * m * b \in Int
  BY <1>1
<1>7. 2 * m * (a + b) <= 2000 * (pa + pb) + (a + b)
  BY <1>1, <1>4, <1>5, <1>6
<1> QED
  BY <1>2, <1>3, <1>7 DEF Percent

\* The lower of two rates is not above the rate of both.
LEMMA HeadlineIsLow ==
    ASSUME NEW results, IsFiniteSet(results)
    PROVE  Headline(results) <= Rate({r \in Counted(results) : r.source \in Handwritten \cup {"synthetic"}})
<1> DEFINE A == {r \in Counted(results) : r.source = "synthetic"}
           B == {r \in Counted(results) : r.source \in Handwritten}
           both == {r \in Counted(results) : r.source \in Handwritten \cup {"synthetic"}}
           rates == {Rate(A), Rate(B)} \ {NoRate}
<1> SUFFICES Headline(results) <= Rate(both)
  OBVIOUS
<1>1. both = A \cup B /\ A \cap B = {}
  BY DEF Handwritten
<1>2. IsFiniteSet(A) /\ IsFiniteSet(B) /\ IsFiniteSet(both)
  <2>1. A \in SUBSET results /\ B \in SUBSET results /\ both \in SUBSET results
    BY DEF Counted, Ok
  <2> QED
    BY <2>1, FS_Subset
<1>3. Rates(results) = rates
  BY DEF Rates
<1>4. Headline(results) = IF rates = {} THEN NoRate ELSE Min(rates)
  BY <1>3 DEF Headline
<1> HIDE DEF A, B, both
<1>5. \A S : IsFiniteSet(S) /\ S # {} => Rate(S) \in Nat
  BY RateIsPercent
<1>6. Rate({}) = NoRate
  BY FS_EmptySet DEF Rate
<1>7. CASE A = {} /\ B = {}
  BY <1>1, <1>4, <1>6, <1>7 DEF NoRate
<1>8. CASE A # {} /\ B = {}
  <2>1. rates = {Rate(A)} /\ both = A /\ Rate(A) \in Nat
    BY <1>1, <1>2, <1>5, <1>6, <1>8 DEF NoRate
  <2>2. Min(rates) = Rate(A)
    BY <2>1 DEF Min
  <2> QED
    BY <1>4, <2>1, <2>2
<1>9. CASE A = {} /\ B # {}
  <2>1. rates = {Rate(B)} /\ both = B /\ Rate(B) \in Nat
    BY <1>1, <1>2, <1>5, <1>6, <1>9 DEF NoRate
  <2>2. Min(rates) = Rate(B)
    BY <2>1 DEF Min
  <2> QED
    BY <1>4, <2>1, <2>2
<1>10. CASE A # {} /\ B # {}
  <2>1. rates = {Rate(A), Rate(B)} /\ Rate(A) \in Nat /\ Rate(B) \in Nat
    BY <1>2, <1>5, <1>10 DEF NoRate
  <2>2. Min(rates) \in {Rate(A), Rate(B)} /\ Min(rates) <= Rate(A) /\ Min(rates) <= Rate(B)
    <3>1. \E x \in {Rate(A), Rate(B)} : \A y \in {Rate(A), Rate(B)} : x <= y
      BY <2>1
    <3>2. Min({Rate(A), Rate(B)}) = CHOOSE x \in {Rate(A), Rate(B)} : \A y \in {Rate(A), Rate(B)} : x <= y
      BY DEF Min
    <3> QED
      BY <2>1, <3>1, <3>2
  <2>3. Min(rates) \in Int
    BY <2>1, <2>2
  <2>4. Percent(Min(rates), A) /\ Percent(Min(rates), B)
    BY <1>2, <1>10, <2>2, <2>3, RateIsPercent
  <2>5. Percent(Min(rates), both)
    BY <1>1, <1>2, <2>3, <2>4, PercentOfBoth
  <2>6. both # {}
    BY <1>1, <1>10
  <2> QED
    BY <1>2, <1>4, <2>1, <2>3, <2>5, <2>6, RateIsPercent
<1> QED
  BY <1>7, <1>8, <1>9, <1>10

\* As many results as cases: every case has one.
LEMMA CompleteHasAll ==
    ASSUME NEW results, NEW cases, NEW stopped, IsFiniteSet(cases), ResultsOf(results, cases),
           Complete(results, cases, stopped)
    PROVE  \A c \in cases : \E r \in Ok(results) : r.id = c
<1> DEFINE f == [r \in Ok(results) |-> r.id]
<1>1. f \in Injection(Ok(results), cases)
  BY DEF Injection, ResultsOf, Ok, IsInjective
<1>2. Cardinality(Ok(results)) = Cardinality(cases)
  BY DEF Complete
<1>3. f \in Surjection(Ok(results), cases)
  BY <1>1, <1>2, FS_Injection
<1> QED
  BY <1>3 DEF Surjection

LEMMA ReportFair ==
    ASSUME NEW results, NEW previous, NEW cases, NEW stopped \in BOOLEAN, IsFiniteSet(cases),
           ResultsOf(results, cases), ResultsOf(previous, cases)
    PROVE  ReportIsFair(results, previous, cases, stopped)
<1>1. ExitCode(results, previous, cases, stopped, TRUE) = 0 =>
          \A c \in cases : \E r \in results :
              r.id = c /\ r.status = "ok" /\ (r.source # "trap" => r.pass)
  <2>1. SUFFICES ASSUME ExitCode(results, previous, cases, stopped, TRUE) = 0, NEW c \in cases
                 PROVE  \E r \in results : r.id = c /\ r.status = "ok" /\ (r.source # "trap" => r.pass)
    OBVIOUS
  <2>2. Complete(results, cases, stopped) /\ Failures(results) = {}
    BY <2>1 DEF ExitCode
  <2>3. PICK r \in Ok(results) : r.id = c
    BY <2>2, CompleteHasAll
  <2>4. r.source # "trap" => r.pass
    BY <2>2, <2>3 DEF Failures, Counted
  <2> QED
    BY <2>3, <2>4 DEF Ok
<1>2. ExitCode(results, previous, cases, stopped, FALSE) = 0 =>
          \A r \in Ok(results), p \in Ok(previous) : r.id = p.id /\ p.pass => r.pass
  <2>1. SUFFICES ASSUME ExitCode(results, previous, cases, stopped, FALSE) = 0,
                        NEW r \in Ok(results), NEW p \in Ok(previous), r.id = p.id, p.pass, ~r.pass
                 PROVE  FALSE
    OBVIOUS
  <2>2. Regressions(results, previous) = {}
    BY <2>1 DEF ExitCode
  <2>3. p.pass = TRUE /\ r.pass # TRUE
    BY <2>1 DEF ResultsOf, Ok
  <2>4. r.id \in Turned(results, previous, TRUE)
    BY <2>1, <2>3 DEF Turned
  <2> QED
    BY <2>2, <2>4 DEF Regressions
<1>3. Fixed(results, previous) = Regressions(previous, results)
  <2>1. \A r \in Ok(results) : r.pass = TRUE \/ r.pass = FALSE
    BY DEF ResultsOf, Ok
  <2>2. \A p \in Ok(previous) : p.pass = TRUE \/ p.pass = FALSE
    BY DEF ResultsOf, Ok
  <2> QED
    BY <2>1, <2>2 DEF Fixed, Regressions, Turned
<1>4. IsFiniteSet(results)
  <2> DEFINE f == [r \in results |-> r.id]
  <2>1. f \in Injection(results, cases)
    BY DEF Injection, ResultsOf, IsInjective
  <2> QED
    BY <2>1, FS_Injection
<1> QED
  BY <1>1, <1>2, <1>3, <1>4, HeadlineIsLow DEF ReportIsFair

\* What is checked of a turn, and made of a run, can be relied on, whatever
\* the turn, the review, the case and the results: every part of VerdictsHold
\* (check, signature, build_case, build_report, diff_runs and the gate).
THEOREM VerdictsAreRight == WellFormed => VerdictsHold
<1> SUFFICES ASSUME WellFormed
             PROVE  VerdictsHold
  OBVIOUS
<1>1. IsInput("triage") => ReadingsAgree(input.turn, input.latency)
  BY ReadingsSame DEF WellFormed
<1>2. IsInput("review") => CaseCatchesItsTurn(input.turn, input.review)
  BY CaseCatches DEF WellFormed
<1>3. IsInput("specs") => LookupsOnlyAdd(input.turn, input.specs) /\ FactsBySize(input.turn, input.fact)
  BY OnlyAdd, BySize DEF WellFormed
<1>4. IsInput("report") => ReportIsFair(input.results, input.previous, input.cases, input.stopped)
  BY ReportFair DEF WellFormed
<1> QED
  BY <1>1, <1>2, <1>3, <1>4 DEF VerdictsHold

-----------------------------------------------------------------------------
(* Least and greatest numbers *)

LEMMA Least ==
    ASSUME NEW S \in SUBSET Nat, S # {}
    PROVE  \E x \in S : \A y \in S : x <= y
<1> DEFINE Below == {0..x : x \in S}
<1>1. \A x \in S : (0..x) \in SUBSET Nat /\ IsFiniteSet(0..x)
  BY FS_Interval
<1>2. Below \subseteq FiniteSubsetsOf(Nat) /\ Below # {}
  BY <1>1 DEF FiniteSubsetsOf
<1>3. \E s \in Below : \A r \in Below : ~(<<r, s>> \in StrictSubsetOrdering(Nat))
  <2>1. IsWellFoundedOn(StrictSubsetOrdering(Nat), FiniteSubsetsOf(Nat))
    BY FS_StrictSubsetOrderingWellFounded
  <2> HIDE DEF Below
  <2> QED
    BY <1>2, <2>1, WFMin
<1>4. PICK x \in S : \A y \in S : ~(<<0..y, 0..x>> \in StrictSubsetOrdering(Nat))
  BY <1>3
<1>5. ASSUME NEW y \in S, y < x
      PROVE  FALSE
  <2>1. 0..y \subseteq 0..x /\ x \in 0..x /\ x \notin 0..y
    BY <1>5
  <2> QED
    BY <1>1, <1>4, <2>1 DEF StrictSubsetOrdering
<1> QED
  BY <1>5

LEMMA Greatest ==
    ASSUME NEW n \in Nat, NEW S \in SUBSET (0..n), S # {}
    PROVE  \E x \in S : \A y \in S : y <= x
<1> DEFINE D == {n - x : x \in S}
<1>1. D \in SUBSET Nat /\ D # {}
  <2>1. \A x \in S : n - x \in Nat
    OBVIOUS
  <2> QED
    BY <2>1
<1> HIDE DEF D
<1>2. PICK d \in D : \A e \in D : d <= e
  BY <1>1, Least
<1>3. PICK x \in S : d = n - x
  BY <1>2 DEF D
<1>4. ASSUME NEW y \in S
      PROVE  y <= x
  <2>1. n - y \in D
    BY DEF D
  <2>2. n - x <= n - y
    BY <1>2, <1>3, <2>1
  <2> QED
    BY <2>2
<1> QED
  BY <1>4

-----------------------------------------------------------------------------
(* Answers and their evidence *)

\* Every word but those that separate stands in a clause of its own.
LEMMA InClause ==
    ASSUME NEW words \in Seq(Word), NEW i \in 1..Len(words), words[i] \notin Boundary
    PROVE  \E c \in Clauses(words) :
              /\ i \in c /\ c \subseteq 1..Len(words)
              /\ \A j \in c : \A k \in (i + 1..j - 1) \cup (j + 1..i - 1) : words[k] \notin Boundary
<1> DEFINE n == Len(words)
           edges == {0, n + 1} \cup {k \in 1..n : words[k] \in Boundary}
           before == {k \in edges : k < i}
           after == {k \in edges : i < k}
<1>1. n \in Nat /\ i \in 1..n /\ edges \subseteq 0..n + 1 /\ i \notin edges
  OBVIOUS
<1>2. \A k \in 1..n : words[k] \in Boundary => k \in edges
  OBVIOUS
<1>3. 0 \in edges /\ n + 1 \in edges
  OBVIOUS
<1>4. Clauses(words) = {p[1] + 1..p[2] - 1 : p \in {q \in edges \X edges :
                           q[1] < q[2] /\ edges \cap q[1] + 1..q[2] - 1 = {}}}
  BY DEF Clauses
<1> HIDE DEF n, edges
<1>5. PICK a \in before : \A k \in before : k <= a
  <2>1. before \in SUBSET (0..n)
    <3>1. \A k \in before : k \in 0..n
      BY <1>1
    <3> QED
      BY <3>1
  <2>2. 0 \in before
    BY <1>1, <1>3
  <2> HIDE DEF before
  <2> QED
    BY <1>1, <2>1, <2>2, Greatest
<1>6. PICK b \in after : \A k \in after : b <= k
  <2>1. after \in SUBSET Nat
    <3>1. \A k \in after : k \in Nat
      BY <1>1
    <3> QED
      BY <3>1
  <2>2. n + 1 \in after
    BY <1>1, <1>3
  <2> HIDE DEF after
  <2> QED
    BY <2>1, <2>2, Least
<1>7. a \in edges /\ b \in edges /\ a \in Int /\ b \in Int /\ a < i /\ i < b /\ 0 <= a /\ b <= n + 1
  BY <1>1, <1>5, <1>6
<1>8. \A k \in a + 1..b - 1 : k \notin edges
  <2> SUFFICES ASSUME NEW k \in a + 1..b - 1, k \in edges
               PROVE  FALSE
    OBVIOUS
  <2>1. CASE k < i
    BY <1>5, <1>7, <2>1
  <2>2. CASE k > i
    BY <1>6, <1>7, <2>2
  <2>3. k # i
    BY <1>1
  <2> QED
    BY <1>1, <1>7, <2>1, <2>2, <2>3
<1>9. a + 1..b - 1 \in Clauses(words)
  <2>1. <<a, b>> \in {q \in edges \X edges : q[1] < q[2] /\ edges \cap q[1] + 1..q[2] - 1 = {}}
    BY <1>1, <1>7, <1>8
  <2> QED
    BY <1>4, <2>1
<1>10. i \in a + 1..b - 1 /\ a + 1..b - 1 \subseteq 1..n
  BY <1>1, <1>7
<1>11. \A j \in a + 1..b - 1 : \A k \in (i + 1..j - 1) \cup (j + 1..i - 1) : words[k] \notin Boundary
  <2> SUFFICES ASSUME NEW j \in a + 1..b - 1, NEW k \in (i + 1..j - 1) \cup (j + 1..i - 1)
               PROVE  words[k] \notin Boundary
    OBVIOUS
  <2>1. k \in a + 1..b - 1 /\ k \in 1..n
    BY <1>1, <1>7
  <2> QED
    BY <1>2, <1>8, <2>1
<1> QED
  BY <1>9, <1>10, <1>11 DEF n

\* A hedge in the clause of a causal phrase stands with it.
LEMMA ExemptIsExcused ==
    ASSUME NEW words \in Seq(Word), Exempt(words)
    PROVE  Excused(words, {"comma"})
<1> SUFFICES ASSUME NEW i \in 1..Len(words), words[i] = "cause"
             PROVE  \E j \in 1..Len(words) : words[j] = "hedge" /\ ~Between(words, i, j, {"comma"})
  BY DEF Excused
<1>1. words[i] \notin Boundary
  BY DEF Boundary
<1>2. PICK c \in Clauses(words) :
          /\ i \in c /\ c \subseteq 1..Len(words)
          /\ \A j \in c : \A k \in (i + 1..j - 1) \cup (j + 1..i - 1) : words[k] \notin Boundary
  BY <1>1, InClause
<1>3. PICK j \in c : words[j] = "hedge"
  BY <1>2 DEF Exempt, Has
<1>4. j \in 1..Len(words) /\ ~Between(words, i, j, {"comma"})
  BY <1>2, <1>3 DEF Between, Boundary
<1> QED
  BY <1>3, <1>4

\* Beside nothing but what it cites, a sentence has the same numbers to stand on.
LEMMA SamePool ==
    ASSUME NEW s, NEW evidence, s.tags # {}, s.tags \subseteq DOMAIN evidence
    PROVE  Pool(s, OnlyOf(evidence, s.tags)) = Pool(s, evidence)
<1> DEFINE own == OnlyOf(evidence, s.tags)
<1>1. DOMAIN own = s.tags /\ \A i \in s.tags : own[i] = evidence[i]
  BY DEF OnlyOf
<1> HIDE DEF own
<1>2. Pool(s, own) = NumbersOf(s.tags, own)
  BY <1>1 DEF Pool
<1>3. Pool(s, evidence) = NumbersOf(s.tags, evidence)
  <2>1. s.tags \cap DOMAIN evidence = s.tags
    OBVIOUS
  <2> QED
    BY <2>1 DEF Pool
<1>4. NumbersOf(s.tags, own) = NumbersOf(s.tags, evidence)
  BY <1>1 DEF NumbersOf
<1> QED
  BY <1>2, <1>3, <1>4 DEF own

\* With nothing unresolved, all that is cited exists.
LEMMA CitedExist ==
    ASSUME NEW answer, NEW evidence, Unresolved(answer, evidence) = {}, NEW s \in ToSet(answer)
    PROVE  s.tags \cup s.worded \subseteq DOMAIN evidence
<1>1. \A i : i \in s.tags \cup s.worded => i \in UNION {r.tags \cup r.worded : r \in ToSet(answer)}
  OBVIOUS
<1> QED
  BY <1>1 DEF Unresolved

LEMMA AnswersAreBacked ==
    ASSUME NEW S, NEW evidence \in [S -> Entry], NEW answer \in Seq(Sentence), NEW noted
    PROVE  Backed(answer, evidence, noted, {"comma"})
<1> SUFFICES ASSUME Passed(answer, evidence, noted), NEW s \in ToSet(answer)
             PROVE  /\ s.tags # {} => Untraceable(<<s>>, OnlyOf(evidence, s.tags), noted) = {}
                    /\ \/ Excused(s.words, {"comma"})
                       \/ \E i \in s.tags \cup s.worded : evidence[i].supports
  BY DEF Backed
<1>1. s \in Sentence
  BY DEF ToSet
<1>2. s.tags \cup s.worded \subseteq DOMAIN evidence
  BY CitedExist DEF Passed
<1>3. ASSUME s.tags # {}
      PROVE  Untraceable(<<s>>, OnlyOf(evidence, s.tags), noted) = {}
  <2>1. \A m \in s.numbers : Small(m) \/ Traces(m, Pool(s, evidence) \cup noted)
    <3> DEFINE untraced(r) == {m \in r.numbers : ~Small(m) /\ ~Traces(m, Pool(r, evidence) \cup noted)}
    <3>1. UNION {untraced(r) : r \in ToSet(answer)} = {}
      BY DEF Passed, Untraceable
    <3> HIDE DEF untraced
    <3>2. untraced(s) = {}
      BY <3>1
    <3> QED
      BY <3>2 DEF untraced
  <2>2. Pool(s, OnlyOf(evidence, s.tags)) = Pool(s, evidence)
    BY <1>2, <1>3, SamePool
  <2>3. ToSet(<<s>>) = {s}
    BY DEF ToSet
  <2> QED
    BY <2>1, <2>2, <2>3 DEF Untraceable
<1>4. Excused(s.words, {"comma"}) \/ \E i \in s.tags \cup s.worded : evidence[i].supports
  <2>1. s \notin Unsupported(answer, evidence)
    BY DEF Passed
  <2>2. CASE "cause" \notin ToSet(s.words)
    BY <1>1, <2>2 DEF Excused, ToSet, Sentence
  <2>3. CASE Exempt(s.words)
    BY <1>1, <2>3, ExemptIsExcused DEF Sentence
  <2>4. CASE \E i \in (s.tags \cup s.worded) \cap DOMAIN evidence : evidence[i].supports
    BY <2>4
  <2> QED
    BY <2>1, <2>2, <2>3, <2>4 DEF Unsupported
<1> QED
  BY <1>3, <1>4

\* Whatever an answer says and cites, one that passes the check stands on what
\* it cites, clauses being what punctuation separates (check of
\* groundedness.py).
THEOREM PassedIsBacked == WellFormed => GroundedMeansBacked
<1> SUFFICES ASSUME WellFormed, IsInput("answer")
             PROVE  Backed(input.answer, input.evidence, {}, {"comma"})
  BY DEF GroundedMeansBacked
<1>1. input.answer \in Seq(Sentence)
  BY DEF WellFormed
<1>2. PICK S \in SUBSET Ids : input.evidence \in [S -> Entry]
  BY DEF WellFormed
<1> QED
  BY <1>1, <1>2, AnswersAreBacked

-----------------------------------------------------------------------------
(* Numbers one after another *)

\* A set that has zero, and of each of the first numbers the next one.
LEMMA OneByOne ==
    ASSUME NEW n \in Nat, NEW S, 0 \in S, \A k \in 0..n : k < n /\ k \in S => k + 1 \in S
    PROVE  \A k \in 0..n : k \in S
<1> DEFINE Bad == {k \in 0..n : k \notin S}
<1> SUFFICES ASSUME Bad # {}
             PROVE  FALSE
  OBVIOUS
<1>1. Bad \in SUBSET Nat
  OBVIOUS
<1> HIDE DEF Bad
<1>2. PICK x \in Bad : \A y \in Bad : x <= y
  BY <1>1, Least
<1>3. x \in 0..n /\ x \notin S /\ x # 0
  BY DEF Bad
<1>4. x - 1 \in 0..n /\ x - 1 < n /\ x - 1 \notin Bad
  BY <1>2, <1>3
<1>5. x - 1 \in S /\ x - 1 + 1 = x
  BY <1>3, <1>4 DEF Bad
<1> QED
  BY <1>3, <1>4, <1>5

-----------------------------------------------------------------------------
(* The calls of one client *)

InOrder(d) == \A i, j \in 1..Len(d) : i < j => d[i] <= d[j]

\* The calls that have not left by now.
Unexpired(d, now) == SubSeq(d, Min({i \in 1..Len(d) : ~Expired(d[i], now)} \cup {Len(d) + 1}), Len(d))

\* Those that are too old are at the front, and leave.
KeptFrom(d, now, m) ==
    /\ m \in 1..Len(d) + 1
    /\ \A i \in 1..Len(d) : m <= i <=> d[i] > now - Window
    /\ Unexpired(d, now) \in Seq(Int)
    /\ Len(Unexpired(d, now)) = Len(d) + 1 - m
    /\ \A i \in 1..Len(d) + 1 - m : Unexpired(d, now)[i] = d[i + m - 1]

LEMMA OldLeaveFirst ==
    ASSUME NEW d \in Seq(Int), InOrder(d), NEW now \in Int
    PROVE  \E m \in 1..Len(d) + 1 : KeptFrom(d, now, m)
<1> DEFINE n == Len(d)
           S == {i \in 1..n : ~Expired(d[i], now)} \cup {n + 1}
<1>1. n \in Nat /\ Window \in Int /\ \A i \in 1..n : d[i] \in Int
  BY PeriodsAssumption
<1>2. S \in SUBSET Nat /\ S # {}
  OBVIOUS
<1>3. S \in SUBSET (1..n + 1) /\ n + 1 \in S /\ \A i \in 1..n : i \in S <=> d[i] > now - Window
  BY <1>1 DEF Expired
<1>4. Unexpired(d, now) = SubSeq(d, Min(S), n)
  BY DEF Unexpired
<1> HIDE DEF S, n
<1>5. PICK m \in S : \A i \in S : m <= i
  BY <1>2, Least
<1>6. Min(S) \in S /\ \A i \in S : Min(S) <= i
  BY <1>5 DEF Min
<1>7. Min(S) = m
  <2>1. Min(S) \in Nat /\ m \in Nat /\ m <= Min(S) /\ Min(S) <= m
    BY <1>2, <1>5, <1>6
  <2> QED
    BY <2>1
<1>8. m \in 1..n + 1
  BY <1>3
<1>9. ASSUME NEW i \in 1..n
      PROVE  m <= i <=> d[i] > now - Window
  <2>1. ASSUME d[i] > now - Window
        PROVE  m <= i
    BY <1>3, <1>5, <2>1
  <2>2. ASSUME m <= i
        PROVE  d[i] > now - Window
    <3>1. m \in 1..n /\ d[m] > now - Window
      BY <1>1, <1>3, <1>8, <1>9, <2>2
    <3>2. d[m] <= d[i]
      BY <1>9, <2>2, <3>1 DEF InOrder, n
    <3> QED
      BY <1>1, <1>9, <3>1, <3>2
  <2> QED
    BY <2>1, <2>2
<1>10. /\ Unexpired(d, now) \in Seq(Int)
       /\ Len(Unexpired(d, now)) = n + 1 - m
       /\ \A i \in 1..n + 1 - m : Unexpired(d, now)[i] = d[i + m - 1]
  <2>1. m \in Int /\ n \in Int /\ \A i \in m..n : d[i] \in Int
    BY <1>1, <1>8
  <2>2. /\ SubSeq(d, m, n) \in Seq(Int)
        /\ Len(SubSeq(d, m, n)) = IF m <= n THEN n - m + 1 ELSE 0
        /\ \A i \in 1..n - m + 1 : SubSeq(d, m, n)[i] = d[m + i - 1]
    BY <2>1, SubSeqProperties
  <2>3. Len(SubSeq(d, m, n)) = n + 1 - m
    BY <1>1, <1>8, <2>2
  <2> QED
    BY <1>1, <1>4, <1>7, <1>8, <2>2, <2>3
<1> QED
  BY <1>8, <1>9, <1>10 DEF KeptFrom, n

LEMMA CheckSays ==
    ASSUME NEW d, NEW now
    PROVE  LET calls == Unexpired(d, now)
           IN  Check(d, now) = IF Len(calls) >= Limit THEN [calls |-> calls, wait |-> calls[1] + Window - now]
                               ELSE [calls |-> Append(calls, now), wait |-> 0]
BY Zenon DEF Check, Unexpired

\* The deque of each call is what check makes of the one before.
LEMMA DequesStep ==
    ASSUME NEW times \in Seq(Int)
    PROVE  /\ Deques(times)[0] = <<>>
           /\ \A n \in 1..Len(times) : Deques(times)[n] = Check(Deques(times)[n - 1], times[n]).calls
<1> DEFINE N == Len(times)
           Rec(g, n) == g = [k \in 0..n |-> IF k = 0 THEN <<>> ELSE Check(g[k - 1], times[k]).calls]
           S == {n \in Nat : \E g : Rec(g, n)}
<1>1. N \in Nat
  OBVIOUS
<1>2. 0 \in S
  <2> DEFINE g == [k \in 0..0 |-> <<>>]
  <2>1. g = [k \in 0..0 |-> IF k = 0 THEN <<>> ELSE Check(g[k - 1], times[k]).calls]
    OBVIOUS
  <2> QED
    BY <2>1
<1>3. ASSUME NEW n \in Nat, n \in S
      PROVE  n + 1 \in S
  <2>1. PICK g : Rec(g, n)
    BY <1>3
  <2> DEFINE h == [k \in 0..n + 1 |-> IF k = n + 1 THEN Check(g[n], times[n + 1]).calls ELSE g[k]]
  <2>2. \A k \in 0..n : h[k] = g[k]
    OBVIOUS
  <2>3. \A k \in 0..n : g[k] = IF k = 0 THEN <<>> ELSE Check(g[k - 1], times[k]).calls
    BY <2>1
  <2>4. \A k \in 0..n + 1 : h[k] = IF k = 0 THEN <<>> ELSE Check(h[k - 1], times[k]).calls
    <3> SUFFICES ASSUME NEW k \in 0..n + 1
                 PROVE  h[k] = IF k = 0 THEN <<>> ELSE Check(h[k - 1], times[k]).calls
      OBVIOUS
    <3>1. CASE k = n + 1
      <4>1. h[k] = Check(g[n], times[n + 1]).calls /\ h[k - 1] = g[n] /\ k # 0
        BY <3>1
      <4> QED
        BY <3>1, <4>1
    <3>2. CASE k \in 0..n
      <4>1. k # 0 => k - 1 \in 0..n
        BY <3>2
      <4> QED
        BY <2>2, <2>3, <3>2, <4>1
    <3> QED
      BY <3>1, <3>2
  <2>5. Rec(h, n + 1)
    <3> DEFINE r == [k \in 0..n + 1 |-> IF k = 0 THEN <<>> ELSE Check(h[k - 1], times[k]).calls]
    <3>1. h = [k \in 0..n + 1 |-> h[k]]
      OBVIOUS
    <3> HIDE DEF h
    <3> QED
      BY <2>4, <3>1
  <2> HIDE DEF h, Rec
  <2>6. \E f : Rec(f, n + 1)
    BY <2>5
  <2> QED
    BY <2>6
<1>4. PICK g : Rec(g, N)
  <2>1. \A k \in 0..N : k < N /\ k \in S => k + 1 \in S
    BY <1>3
  <2> HIDE DEF S
  <2>2. \A k \in 0..N : k \in S
    BY <1>1, <1>2, <2>1, OneByOne
  <2>3. N \in S
    BY <1>1, <2>2
  <2> QED
    BY <2>3 DEF S
<1>5. Deques(times) = CHOOSE deque : Rec(deque, N)
  BY Zenon DEF Deques
<1>6. Rec(Deques(times), N)
  BY <1>4, <1>5
<1> QED
  BY <1>1, <1>6, SMTT(30)

\* The calls of the first n that were admitted.
Admitted(times, n) == {j \in 1..n : Check(Deques(times)[j - 1], times[j]).wait = 0}

\* What d holds are times of calls in A, each call once, those of f.
TimesOf(times, d, f, A) ==
    /\ d \in Seq(Int) /\ Len(d) <= Limit /\ InOrder(d)
    /\ f \in [1..Len(d) -> A]
    /\ \A k, l \in 1..Len(d) : f[k] = f[l] => k = l
    /\ \A k \in 1..Len(d) : d[k] = times[f[k]]

\* Of the calls in A, all are among those of f that have not left by now.
AllSince(times, d, f, A, now) ==
    \A j \in A : times[j] > now - Window => \E k \in 1..Len(d) : f[k] = j

\* When a call comes, what the deque keeps are the calls of the window.
LEMMA WindowKept ==
    ASSUME NEW times \in Seq(Int), NEW d, NEW f, NEW A \in SUBSET (1..Len(times)), NEW now \in Int, NEW then \in Int,
           then <= now, TimesOf(times, d, f, A), AllSince(times, d, f, A, then)
    PROVE  \E g : /\ TimesOf(times, Unexpired(d, now), g, A)
                  /\ AllSince(times, Unexpired(d, now), g, A, now)
                  /\ \A k \in 1..Len(Unexpired(d, now)) : Unexpired(d, now)[k] > now - Window
<1>1. d \in Seq(Int) /\ InOrder(d) /\ Len(d) \in Nat /\ Len(d) <= Limit /\ Limit \in Nat /\ Window \in Nat
  BY PeriodsAssumption DEF TimesOf
<1>2. PICK m \in 1..Len(d) + 1 : KeptFrom(d, now, m)
  BY <1>1, OldLeaveFirst
<1> DEFINE c == Unexpired(d, now)
           n == Len(d) + 1 - m
           g == [k \in 1..n |-> f[k + m - 1]]
<1>3. c \in Seq(Int) /\ Len(c) = n /\ n \in Nat /\ n <= Len(d)
  BY <1>1, <1>2 DEF KeptFrom
<1>4. \A k \in 1..n : k + m - 1 \in 1..Len(d) /\ c[k] = d[k + m - 1] /\ c[k] > now - Window
  <2> SUFFICES ASSUME NEW k \in 1..n
               PROVE  k + m - 1 \in 1..Len(d) /\ c[k] = d[k + m - 1] /\ c[k] > now - Window
    OBVIOUS
  <2>1. k + m - 1 \in 1..Len(d) /\ m <= k + m - 1
    BY <1>1, <1>2
  <2>2. c[k] = d[k + m - 1]
    BY <1>2 DEF KeptFrom
  <2> QED
    BY <1>2, <2>1, <2>2 DEF KeptFrom
<1> HIDE DEF c
<1>5. TimesOf(times, c, g, A)
  <2>1. InOrder(c)
    <3> SUFFICES ASSUME NEW i \in 1..n, NEW j \in 1..n, i < j
                 PROVE  c[i] <= c[j]
      BY <1>3 DEF InOrder
    <3>1. i + m - 1 < j + m - 1
      BY <1>2, <1>3
    <3> QED
      BY <1>1, <1>4, <3>1 DEF InOrder
  <2>2. g \in [1..n -> A] /\ \A k \in 1..n : c[k] = times[g[k]]
    BY <1>4 DEF TimesOf
  <2>3. ASSUME NEW k \in 1..n, NEW l \in 1..n, g[k] = g[l]
        PROVE  k = l
    <3>1. k + m - 1 = l + m - 1
      BY <1>4, <2>3 DEF TimesOf
    <3> QED
      BY <1>2, <1>3, <3>1
  <2>4. Len(c) <= Limit
    BY <1>1, <1>3
  <2> HIDE DEF g, n
  <2> QED
    BY <1>3, <2>1, <2>2, <2>3, <2>4 DEF TimesOf
<1>6. AllSince(times, c, g, A, now)
  <2> SUFFICES ASSUME NEW j \in A, times[j] > now - Window
               PROVE  \E k \in 1..n : g[k] = j
    BY <1>3 DEF AllSince
  <2>1. times[j] \in Int
    OBVIOUS
  <2>2. times[j] > then - Window
    BY <1>1, <2>1
  <2>3. PICK l \in 1..Len(d) : f[l] = j
    BY <2>2 DEF AllSince
  <2>4. d[l] > now - Window
    BY <2>3 DEF TimesOf
  <2>5. m <= l
    BY <1>2, <2>4 DEF KeptFrom
  <2>6. l - m + 1 \in 1..n /\ (l - m + 1) + m - 1 = l
    BY <1>1, <1>2, <2>5
  <2>7. g[l - m + 1] = j
    BY <2>3, <2>6
  <2> QED
    BY <2>6, <2>7
<1> HIDE DEF g
<1> QED
  BY <1>3, <1>4, <1>5, <1>6 DEF c

\* A call is admitted when less than the limit are kept, and only then.
LEMMA AdmittedIfRoom ==
    ASSUME NEW d, NEW now \in Int, Unexpired(d, now) \in Seq(Int),
           \A k \in 1..Len(Unexpired(d, now)) : Unexpired(d, now)[k] > now - Window
    PROVE  LET c == Unexpired(d, now)
           IN  /\ Len(c) < Limit => Check(d, now) = [calls |-> Append(c, now), wait |-> 0]
               /\ Len(c) >= Limit => /\ Check(d, now) = [calls |-> c, wait |-> c[1] + Window - now]
                                     /\ Check(d, now).wait > 0
<1> DEFINE c == Unexpired(d, now)
<1>1. Check(d, now) = IF Len(c) >= Limit THEN [calls |-> c, wait |-> c[1] + Window - now]
                      ELSE [calls |-> Append(c, now), wait |-> 0]
  BY CheckSays
<1> HIDE DEF c
<1>2. Len(c) \in Nat /\ Limit \in Nat \ {0} /\ Window \in Nat
  BY PeriodsAssumption DEF c
<1>3. Len(c) < Limit => Check(d, now) = [calls |-> Append(c, now), wait |-> 0]
  BY <1>1, <1>2
<1>4. Len(c) >= Limit => /\ Check(d, now) = [calls |-> c, wait |-> c[1] + Window - now]
                         /\ Check(d, now).wait > 0
  <2> SUFFICES ASSUME Len(c) >= Limit
               PROVE  /\ Check(d, now) = [calls |-> c, wait |-> c[1] + Window - now]
                      /\ Check(d, now).wait > 0
    OBVIOUS
  <2>1. 1 \in 1..Len(c)
    BY <1>2
  <2>2. c[1] \in Int /\ c[1] > now - Window
    BY <2>1 DEF c
  <2> QED
    BY <1>1, <1>2, <2>2
<1> QED
  BY <1>3, <1>4 DEF c

\* The deque after n calls, and every admitted call of its window in it.
DequeIsWindow(times, n) ==
    \E f : /\ TimesOf(times, Deques(times)[n], f, Admitted(times, n))
           /\ n > 0 => AllSince(times, Deques(times)[n], f, Admitted(times, n), times[n])

\* What the deque keeps when call n + 1 comes.
KeptAt(times, n, g) ==
    LET c == Unexpired(Deques(times)[n], times[n + 1])
    IN  /\ TimesOf(times, c, g, Admitted(times, n))
        /\ AllSince(times, c, g, Admitted(times, n), times[n + 1])
        /\ \A k \in 1..Len(c) : c[k] > times[n + 1] - Window

LEMMA KeptAtCall ==
    ASSUME NEW times \in Seq(Int), InOrder(times), NEW n \in Nat, n < Len(times), DequeIsWindow(times, n)
    PROVE  \E g : KeptAt(times, n, g)
<1> DEFINE A == Admitted(times, n)
           d == Deques(times)[n]
<1>1. A \in SUBSET (1..n) /\ A \in SUBSET (1..Len(times)) /\ times[n + 1] \in Int
  BY DEF Admitted
<1>2. PICK f : TimesOf(times, d, f, A) /\ (n > 0 => AllSince(times, d, f, A, times[n]))
  BY DEF DequeIsWindow
<1> HIDE DEF A, d
<1>3. \E then \in Int : then <= times[n + 1] /\ AllSince(times, d, f, A, then)
  <2>1. CASE n = 0
    <3>1. A = {}
      BY <1>1, <2>1
    <3>2. AllSince(times, d, f, A, times[n + 1])
      BY <3>1 DEF AllSince
    <3> QED
      BY <1>1, <3>2
  <2>2. CASE n > 0
    <3>1. n \in 1..Len(times) /\ n + 1 \in 1..Len(times)
      BY <2>2
    <3>2. times[n] \in Int /\ times[n] <= times[n + 1]
      BY <3>1 DEF InOrder
    <3> QED
      BY <1>2, <2>2, <3>2
  <2> QED
    BY <2>1, <2>2
<1>4. PICK then \in Int : then <= times[n + 1] /\ AllSince(times, d, f, A, then)
  BY <1>3
<1>5. \E g : /\ TimesOf(times, Unexpired(d, times[n + 1]), g, A)
             /\ AllSince(times, Unexpired(d, times[n + 1]), g, A, times[n + 1])
             /\ \A k \in 1..Len(Unexpired(d, times[n + 1])) : Unexpired(d, times[n + 1])[k] > times[n + 1] - Window
  BY <1>1, <1>2, <1>4, WindowKept
<1> QED
  BY <1>5 DEF KeptAt, A, d

\* A set that g numbers from m on.
LEMMA AtMost ==
    ASSUME NEW n \in Nat, NEW m \in 1..n + 1, NEW S, NEW g, \A j \in S : \E k \in m..n : g[k] = j
    PROVE  Cardinality(S) \in Nat /\ Cardinality(S) <= n + 1 - m
<1> DEFINE h == [j \in S |-> CHOOSE k \in m..n : g[k] = j]
<1>1. \A j \in S : h[j] \in m..n /\ g[h[j]] = j
  OBVIOUS
<1>2. h \in [S -> m..n]
  <2>1. \A j \in S : (CHOOSE k \in m..n : g[k] = j) \in m..n
    OBVIOUS
  <2> QED
    BY <2>1
<1> HIDE DEF h
<1>3. h \in Injection(S, m..n)
  <2>1. DOMAIN h = S /\ \A a, b \in S : h[a] = h[b] => a = b
    BY <1>1, <1>2
  <2>2. IsInjective(h)
    BY <2>1 DEF IsInjective
  <2> QED
    BY <1>2, <2>2 DEF Injection
<1>4. IsFiniteSet(m..n) /\ Cardinality(m..n) = IF m > n THEN 0 ELSE n - m + 1
  BY FS_Interval
<1>5. IsFiniteSet(S) /\ Cardinality(S) <= Cardinality(m..n)
  BY <1>3, <1>4, FS_Injection
<1>6. Cardinality(S) \in Nat
  BY <1>5, FS_CardinalityType
<1> QED
  BY <1>4, <1>5, <1>6

\* A set with n members, those of g.
LEMMA AtLeast ==
    ASSUME NEW n \in Nat, NEW S, IsFiniteSet(S), NEW g, \A k \in 1..n : g[k] \in S,
           \A k, l \in 1..n : g[k] = g[l] => k = l
    PROVE  Cardinality(S) \in Nat /\ n <= Cardinality(S)
<1> DEFINE h == [k \in 1..n |-> g[k]]
<1>1. h \in [1..n -> S] /\ \A k, l \in 1..n : h[k] = h[l] => k = l
  OBVIOUS
<1> HIDE DEF h
<1>2. h \in Injection(1..n, S)
  <2>1. IsInjective(h)
    BY <1>1 DEF IsInjective
  <2> QED
    BY <1>1, <2>1 DEF Injection
<1>3. Cardinality(1..n) = n
  BY FS_Interval
<1>4. Cardinality(1..n) <= Cardinality(S)
  BY <1>2, FS_Injection
<1> QED
  BY <1>3, <1>4, FS_CardinalityType

\* What a call leaves of the deque is again its window.
LEMMA DequeStaysWindow ==
    ASSUME NEW times \in Seq(Int), InOrder(times), NEW n \in Nat, n < Len(times), DequeIsWindow(times, n)
    PROVE  DequeIsWindow(times, n + 1)
<1> DEFINE A == Admitted(times, n)
           B == Admitted(times, n + 1)
           now == times[n + 1]
           c == Unexpired(Deques(times)[n], now)
           said == Check(Deques(times)[n], now)
           d == Deques(times)[n + 1]
<1>1. PICK g : KeptAt(times, n, g)
  BY KeptAtCall
<1>2. TimesOf(times, c, g, A) /\ AllSince(times, c, g, A, now) /\ \A k \in 1..Len(c) : c[k] > now - Window
  BY <1>1 DEF KeptAt
<1>3. now \in Int /\ c \in Seq(Int) /\ Len(c) \in Nat /\ Limit \in Nat
  BY <1>2, PeriodsAssumption DEF TimesOf
<1>4. /\ Len(c) < Limit => said = [calls |-> Append(c, now), wait |-> 0]
      /\ Len(c) >= Limit => said = [calls |-> c, wait |-> c[1] + Window - now] /\ said.wait > 0
  BY <1>2, <1>3, AdmittedIfRoom
<1>5. d = said.calls
  <2>1. n + 1 \in 1..Len(times) /\ (n + 1) - 1 = n
    OBVIOUS
  <2> QED
    BY <2>1, DequesStep
<1>6. /\ A \subseteq 1..n /\ B \subseteq 1..n + 1
      /\ \A j \in 1..n : j \in A <=> j \in B
      /\ n + 1 \in B <=> said.wait = 0
  <2>1. \A j \in 1..n + 1 : j = n + 1 \/ j \in 1..n
    OBVIOUS
  <2>2. (n + 1) - 1 = n /\ n + 1 \in 1..n + 1
    OBVIOUS
  <2> QED
    BY <2>1, <2>2 DEF Admitted
<1> HIDE DEF A, B, now, c, said, d
<1>7. CASE Len(c) >= Limit
  <2>1. d = c /\ said.wait > 0
    BY <1>4, <1>5, <1>7
  <2>2. B = A
    <3>1. n + 1 \notin B
      BY <1>6, <2>1
    <3>2. \A j \in B : j \in 1..n
      BY <1>6, <3>1
    <3> QED
      BY <1>6, <3>2
  <2>3. TimesOf(times, d, g, B) /\ AllSince(times, d, g, B, now)
    BY <1>2, <2>1, <2>2
  <2> QED
    BY <2>3 DEF DequeIsWindow, B, d, now
<1>8. CASE Len(c) < Limit
  <2> DEFINE m == Len(c) + 1
             f == [k \in 1..m |-> IF k = m THEN n + 1 ELSE g[k]]
  <2>1. d = Append(c, now) /\ n + 1 \in B
    BY <1>4, <1>5, <1>6, <1>8
  <2>2. d \in Seq(Int) /\ Len(d) = m /\ d[m] = now /\ \A k \in 1..Len(c) : d[k] = c[k]
    BY <1>3, <2>1
  <2>3. \A k \in 1..m : k = m \/ k \in 1..Len(c)
    BY <1>3
  <2>4. m \in 1..m /\ f[m] = n + 1 /\ \A k \in 1..Len(c) : k \in 1..m /\ k # m /\ f[k] = g[k]
    BY <1>3
  <2>5. /\ g \in [1..Len(c) -> A] /\ InOrder(c)
        /\ \A k, l \in 1..Len(c) : g[k] = g[l] => k = l
        /\ \A k \in 1..Len(c) : c[k] = times[g[k]]
    BY <1>2 DEF TimesOf
  <2>6. \A k \in 1..Len(c) : g[k] \in A /\ g[k] \in 1..n /\ g[k] # n + 1 /\ g[k] \in B
    <3>1. \A k \in 1..Len(c) : g[k] \in A
      BY <2>5
    <3>2. \A j \in A : j \in 1..n /\ j \in B
      BY <1>6
    <3>3. \A j \in 1..n : j # n + 1
      OBVIOUS
    <3> QED
      BY <3>1, <3>2, <3>3
  <2>7. f \in [1..m -> B]
    BY <2>1, <2>3, <2>6
  <2> HIDE DEF f, m
  <2>8. \A k, l \in 1..m : f[k] = f[l] => k = l
    BY <2>3, <2>4, <2>5, <2>6
  <2>9. \A k \in 1..m : d[k] = times[f[k]]
    BY <2>2, <2>3, <2>4, <2>5 DEF now
  <2>10. InOrder(d)
    <3> SUFFICES ASSUME NEW i \in 1..m, NEW j \in 1..m, i < j
                 PROVE  d[i] <= d[j]
      BY <2>2 DEF InOrder
    <3>1. i \in 1..Len(c)
      BY <1>3 DEF m
    <3>2. CASE j = m
      <4>1. g[i] < n + 1 /\ g[i] \in 1..Len(times) /\ n + 1 \in 1..Len(times)
        BY <2>6, <3>1
      <4>2. times[g[i]] <= times[n + 1]
        BY <4>1 DEF InOrder
      <4> QED
        BY <2>2, <2>5, <3>1, <3>2, <4>2 DEF now
    <3>3. CASE j \in 1..Len(c)
      BY <2>2, <2>5, <3>1, <3>3 DEF InOrder
    <3> QED
      BY <2>3, <3>2, <3>3
  <2>11. Len(d) <= Limit
    BY <1>3, <1>8, <2>2 DEF m
  <2>12. TimesOf(times, d, f, B)
    BY <2>2, <2>7, <2>8, <2>9, <2>10, <2>11 DEF TimesOf
  <2>13. AllSince(times, d, f, B, now)
    <3> SUFFICES ASSUME NEW j \in B, times[j] > now - Window
                 PROVE  \E k \in 1..m : f[k] = j
      BY <2>2 DEF AllSince
    <3>1. CASE j = n + 1
      BY <2>4, <3>1
    <3>2. CASE j \in 1..n
      <4>1. PICK k \in 1..Len(c) : g[k] = j
        BY <1>2, <1>6, <3>2 DEF AllSince
      <4> QED
        BY <2>4, <4>1
    <3> QED
      BY <1>6, <3>1, <3>2
  <2> QED
    BY <2>12, <2>13 DEF DequeIsWindow, B, d, now
<1> QED
  BY <1>3, <1>7, <1>8

LEMMA DequeAlwaysWindow ==
    ASSUME NEW times \in Seq(Int), InOrder(times)
    PROVE  \A n \in 0..Len(times) : DequeIsWindow(times, n)
<1> DEFINE S == {n \in 0..Len(times) : DequeIsWindow(times, n)}
<1>1. DequeIsWindow(times, 0)
  <2> DEFINE f == [k \in {} |-> 0]
  <2>1. Deques(times)[0] = <<>> /\ <<>> \in Seq(Int) /\ Len(<<>>) = 0 /\ 1..0 = {}
    BY DequesStep
  <2>2. f \in [{} -> Admitted(times, 0)]
    OBVIOUS
  <2>3. Limit \in Nat
    BY PeriodsAssumption
  <2> HIDE DEF f
  <2>4. TimesOf(times, <<>>, f, Admitted(times, 0))
    BY <2>1, <2>2, <2>3 DEF TimesOf, InOrder
  <2> QED
    BY <2>1, <2>4 DEF DequeIsWindow
<1>2. \A n \in 0..Len(times) : n < Len(times) /\ n \in S => n + 1 \in S
  BY DequeStaysWindow
<1>3. 0 \in S
  BY <1>1
<1> HIDE DEF S
<1>4. Len(times) \in Nat
  OBVIOUS
<1>5. \A n \in 0..Len(times) : n \in S
  BY <1>2, <1>3, <1>4, OneByOne
<1> QED
  BY <1>5 DEF S

LEMMA Windows ==
    ASSUME NEW times \in Seq(Int), InOrder(times)
    PROVE  WindowHolds(times)
<1> DEFINE said == Answers(times)
           inWindow(i, at) == {j \in 1..i - 1 : said[j].wait = 0 /\ said[j].time > at - Window}
           Within(i) == /\ said[i].wait = 0 => Cardinality(inWindow(i, said[i].time)) < Limit
                        /\ said[i].wait # 0 =>
                            /\ Cardinality(inWindow(i, said[i].time + said[i].wait)) < Limit
                            /\ Cardinality(inWindow(i, said[i].time + said[i].wait - 1)) >= Limit
<1>1. /\ Len(said) = Len(times)
      /\ \A i \in 1..Len(times) :
            /\ said[i].time = times[i]
            /\ said[i].wait = Check(Deques(times)[i - 1], times[i]).wait
  BY DEF Answers
<1> SUFFICES ASSUME NEW i \in 1..Len(times)
             PROVE  Within(i)
  <2>1. \A i \in 1..Len(said) : Within(i)
    BY <1>1
  <2> QED
    BY <2>1, Zenon DEF WindowHolds
<1> DEFINE n == i - 1
           now == times[i]
           A == Admitted(times, n)
           c == Unexpired(Deques(times)[n], now)
<1>2. n \in Nat /\ n < Len(times) /\ n \in 0..Len(times) /\ n + 1 = i /\ now \in Int
  OBVIOUS
<1>3. PICK g : TimesOf(times, c, g, A) /\ AllSince(times, c, g, A, now) /\ \A k \in 1..Len(c) : c[k] > now - Window
  <2>1. DequeIsWindow(times, n)
    BY <1>2, DequeAlwaysWindow
  <2>2. \E g : KeptAt(times, n, g)
    BY <1>2, <2>1, KeptAtCall
  <2> QED
    BY <1>2, <2>2 DEF KeptAt
<1>4. c \in Seq(Int) /\ Len(c) \in Nat /\ Limit \in Nat \ {0} /\ Window \in Nat
  BY <1>3, PeriodsAssumption DEF TimesOf
<1>5. /\ Len(c) < Limit => said[i].wait = 0
      /\ Len(c) >= Limit => said[i].wait = c[1] + Window - now /\ said[i].wait > 0
  <2>1. said[i].wait = Check(Deques(times)[n], now).wait
    BY <1>1
  <2>2. /\ Len(c) < Limit => Check(Deques(times)[n], now) = [calls |-> Append(c, now), wait |-> 0]
        /\ Len(c) >= Limit => /\ Check(Deques(times)[n], now) = [calls |-> c, wait |-> c[1] + Window - now]
                              /\ Check(Deques(times)[n], now).wait > 0
    BY <1>2, <1>3, <1>4, AdmittedIfRoom
  <2> QED
    BY <2>1, <2>2
<1>6. \A at : inWindow(i, at) = {j \in A : times[j] > at - Window}
  <2>1. \A j \in 1..n : /\ j \in 1..Len(times)
                        /\ j \in A <=> said[j].wait = 0
                        /\ said[j].time = times[j]
    BY <1>1 DEF Admitted
  <2>2. \A j \in A : j \in 1..n
    BY DEF Admitted
  <2> QED
    BY <2>1, <2>2
<1>7. said[i].time = now
  BY <1>1
<1>8. A \subseteq 1..n /\ \A j \in A : times[j] \in Int
  BY DEF Admitted
<1> DEFINE Since(at) == {j \in A : times[j] > at - Window}
<1>9. \A at : inWindow(i, at) = Since(at)
  BY <1>6
<1>10. \A at : /\ Since(at) \in SUBSET (1..n)
               /\ \A j : j \in Since(at) <=> j \in A /\ times[j] > at - Window
  BY <1>8
<1> HIDE DEF said, inWindow, A, c, n, now, Since
<1>11. CASE Len(c) < Limit
  <2>1. \A j \in Since(now) : \E k \in 1..Len(c) : g[k] = j
    BY <1>3, <1>10 DEF AllSince
  <2>2. 1 \in 1..Len(c) + 1
    BY <1>4
  <2>3. Cardinality(Since(now)) \in Nat /\ Cardinality(Since(now)) <= Len(c) + 1 - 1
    BY <1>4, <2>1, <2>2, AtMost
  <2>4. Cardinality(Since(now)) < Limit
    BY <1>4, <1>11, <2>3
  <2> QED
    BY <1>5, <1>7, <1>9, <1>11, <2>4
<1>12. CASE Len(c) >= Limit
  <2>1. Len(c) = Limit /\ said[i].wait = c[1] + Window - now /\ said[i].wait # 0
    BY <1>3, <1>4, <1>5, <1>12 DEF TimesOf
  <2>2. c[1] \in Int /\ c[1] > now - Window /\ 1 \in 1..Limit
    BY <1>3, <1>4, <2>1
  <2>3. now + said[i].wait = c[1] + Window /\ now + said[i].wait - 1 = c[1] + Window - 1
    BY <1>2, <1>4, <2>1, <2>2 DEF now
  <2>4. /\ g \in [1..Limit -> A] /\ InOrder(c)
        /\ \A k, l \in 1..Limit : g[k] = g[l] => k = l
        /\ \A k \in 1..Limit : c[k] = times[g[k]] /\ c[k] \in Int
    BY <1>3, <1>4, <2>1 DEF TimesOf
  <2>5. Cardinality(Since(c[1] + Window)) < Limit
    <3>1. \A j \in Since(c[1] + Window) : \E k \in 2..Limit : g[k] = j
      <4> SUFFICES ASSUME NEW j \in Since(c[1] + Window)
                   PROVE  \E k \in 2..Limit : g[k] = j
        OBVIOUS
      <4>4. j \in A /\ times[j] > (c[1] + Window) - Window
        BY <1>10
      <4>1. times[j] > c[1] /\ times[j] > now - Window
        <5>1. times[j] \in Int
          BY <1>8, <4>4
        <5>2. times[j] > c[1]
          BY <1>4, <2>2, <4>4, <5>1
        <5> QED
          BY <1>2, <1>4, <2>2, <5>1, <5>2, SMTT(30)
      <4>2. PICK k \in 1..Limit : g[k] = j
        BY <1>3, <2>1, <4>4, <4>1 DEF AllSince
      <4>3. k # 1
        BY <2>2, <2>4, <4>1, <4>2
      <4> QED
        BY <4>2, <4>3
    <3>2. 2 \in 1..Limit + 1
      BY <1>4
    <3>3. /\ Cardinality(Since(c[1] + Window)) \in Nat
          /\ Cardinality(Since(c[1] + Window)) <= Limit + 1 - 2
      BY <1>4, <3>1, <3>2, AtMost, ZenonT(30)
    <3> QED
      BY <1>4, <3>3
  <2>6. Cardinality(Since(c[1] + Window - 1)) >= Limit
    <3>1. \A k \in 1..Limit : g[k] \in Since(c[1] + Window - 1)
      <4> SUFFICES ASSUME NEW k \in 1..Limit
                   PROVE  g[k] \in Since(c[1] + Window - 1)
        OBVIOUS
      <4>1. c[1] <= c[k]
        <5>1. CASE k = 1
          BY <2>2, <5>1
        <5>2. CASE k # 1
          <6>1. 1 \in 1..Len(c) /\ k \in 1..Len(c) /\ 1 < k
            BY <2>1, <2>2, <5>2
          <6> QED
            BY <2>4, <6>1 DEF InOrder
        <5> QED
          BY <5>1, <5>2
      <4>2. g[k] \in A /\ times[g[k]] = c[k] /\ c[k] \in Int
        BY <2>4
      <4>3. times[g[k]] > (c[1] + Window - 1) - Window
        <5>1. \A x, z, w \in Int : x <= z => z > (x + w - 1) - w
          OBVIOUS
        <5>2. c[1] \in Int /\ c[k] \in Int /\ Window \in Int
          BY <1>4, <2>2, <4>2
        <5> QED
          BY <4>1, <4>2, <5>1, <5>2
      <4> QED
        BY <1>10, <4>2, <4>3
    <3>2. IsFiniteSet(Since(c[1] + Window - 1))
      <4>1. IsFiniteSet(1..n) /\ Since(c[1] + Window - 1) \in SUBSET (1..n)
        BY <1>2, <1>10, FS_Interval
      <4> QED
        BY <4>1, FS_Subset
    <3>3. /\ Cardinality(Since(c[1] + Window - 1)) \in Nat
          /\ Limit <= Cardinality(Since(c[1] + Window - 1))
      BY <1>4, <2>4, <3>1, <3>2, AtLeast
    <3> QED
      BY <1>4, <3>3
  <2>7. Cardinality(inWindow(i, said[i].time + said[i].wait)) < Limit
    BY <1>7, <1>9, <2>3, <2>5
  <2>8. Cardinality(inWindow(i, said[i].time + said[i].wait - 1)) >= Limit
    BY <1>7, <1>9, <2>3, <2>6
  <2> QED
    BY <2>1, <2>7, <2>8
<1> QED
  BY <1>4, <1>11, <1>12

-----------------------------------------------------------------------------
(* The calendar *)

Months == Len(MonthLengths)

LEMMA StartsStep ==
    /\ Months \in Nat /\ \A n \in 1..Months : MonthLengths[n] \in 28..31
    /\ StartOf[1] = 1
    /\ \A n \in 1..Months : StartOf[n + 1] = StartOf[n] + MonthLengths[n]
<1> DEFINE N == Months
           Rec(g, n) == g = [k \in 1..n + 1 |-> IF k = 1 THEN 1 ELSE g[k - 1] + MonthLengths[k - 1]]
           S == {n \in Nat : \E g : Rec(g, n)}
<1>1. N \in Nat /\ \A n \in 1..N : MonthLengths[n] \in 28..31
  BY PeriodsAssumption DEF Months
<1>2. 0 \in S
  <2> DEFINE g == [k \in 1..0 + 1 |-> 1]
  <2>1. g = [k \in 1..0 + 1 |-> IF k = 1 THEN 1 ELSE g[k - 1] + MonthLengths[k - 1]]
    OBVIOUS
  <2> HIDE DEF g
  <2>2. \E f : Rec(f, 0)
    BY <2>1
  <2> QED
    BY <2>2
<1>3. ASSUME NEW n \in Nat, n \in S
      PROVE  n + 1 \in S
  <2>1. PICK g : Rec(g, n)
    BY <1>3
  <2> DEFINE m == n + 2
             h == [k \in 1..(n + 1) + 1 |-> IF k = m THEN g[n + 1] + MonthLengths[n + 1] ELSE g[k]]
  <2>2. \A k \in 1..n + 1 : h[k] = g[k]
    OBVIOUS
  <2>3. \A k \in 1..n + 1 : g[k] = IF k = 1 THEN 1 ELSE g[k - 1] + MonthLengths[k - 1]
    BY <2>1
  <2>4. \A k \in 1..(n + 1) + 1 : h[k] = IF k = 1 THEN 1 ELSE h[k - 1] + MonthLengths[k - 1]
    <3> SUFFICES ASSUME NEW k \in 1..(n + 1) + 1
                 PROVE  h[k] = IF k = 1 THEN 1 ELSE h[k - 1] + MonthLengths[k - 1]
      OBVIOUS
    <3>1. CASE k = m
      <4>1. h[k] = g[n + 1] + MonthLengths[n + 1] /\ k - 1 = n + 1 /\ h[k - 1] = g[n + 1] /\ k # 1
        BY <3>1
      <4> QED
        BY <4>1
    <3>2. CASE k \in 1..n + 1
      <4>1. k # 1 => k - 1 \in 1..n + 1
        BY <3>2
      <4> QED
        BY <2>2, <2>3, <3>2, <4>1
    <3> QED
      BY <3>1, <3>2
  <2>5. Rec(h, n + 1)
    <3>1. h = [k \in 1..(n + 1) + 1 |-> h[k]]
      OBVIOUS
    <3> HIDE DEF h
    <3> QED
      BY <2>4, <3>1
  <2> HIDE DEF h, Rec
  <2>6. \E f : Rec(f, n + 1)
    BY <2>5
  <2> QED
    BY <2>6
<1>4. \E g : Rec(g, N)
  <2>1. \A k \in 0..N : k < N /\ k \in S => k + 1 \in S
    BY <1>3
  <2> HIDE DEF S
  <2>2. \A k \in 0..N : k \in S
    BY <1>1, <1>2, <2>1, OneByOne
  <2>3. N \in S
    BY <1>1, <2>2
  <2> QED
    BY <2>3 DEF S
<1>5. StartOf = CHOOSE g : Rec(g, N)
  BY Zenon DEF StartOf, Months
<1>6. Rec(StartOf, N)
  BY <1>4, <1>5
<1>7. \A k \in 1..N + 1 : StartOf[k] = IF k = 1 THEN 1 ELSE StartOf[k - 1] + MonthLengths[k - 1]
  BY <1>6
<1> HIDE DEF Rec
<1>8. StartOf[1] = 1
  BY <1>1, <1>7
<1>9. ASSUME NEW n \in 1..N
      PROVE  StartOf[n + 1] = StartOf[n] + MonthLengths[n]
  <2>1. n + 1 \in 1..N + 1 /\ n + 1 # 1 /\ (n + 1) - 1 = n
    BY <1>1
  <2> QED
    BY <1>7, <2>1
<1> QED
  BY <1>1, <1>8, <1>9

\* Months begin one after another, 28 to 31 days apart.
LEMMA StartsApart ==
    /\ \A a \in 1..Months + 1 : StartOf[a] \in Int
    /\ \A a, b \in 1..Months + 1 :
        a <= b => StartOf[a] + 28 * (b - a) <= StartOf[b] /\ StartOf[b] <= StartOf[a] + 31 * (b - a)
<1>1. /\ Months \in Nat
      /\ StartOf[1] = 1
      /\ \A n \in 1..Months : MonthLengths[n] \in 28..31 /\ StartOf[n + 1] = StartOf[n] + MonthLengths[n]
  BY StartsStep
<1> DEFINE S == {n \in 0..Months : StartOf[n + 1] \in Int}
<1>2. \A n \in 0..Months : n \in S
  <2>1. 0 \in S
    BY <1>1
  <2>2. \A n \in 0..Months : n < Months /\ n \in S => n + 1 \in S
    <3> SUFFICES ASSUME NEW n \in 0..Months, n < Months, StartOf[n + 1] \in Int
                 PROVE  n + 1 \in 0..Months /\ StartOf[(n + 1) + 1] \in Int
      OBVIOUS
    <3>1. n + 1 \in 1..Months
      BY <1>1
    <3> QED
      BY <1>1, <3>1
  <2> HIDE DEF S
  <2> QED
    BY <1>1, <2>1, <2>2, OneByOne
<1>3. \A a \in 1..Months + 1 : StartOf[a] \in Int
  <2> SUFFICES ASSUME NEW a \in 1..Months + 1
               PROVE  StartOf[a] \in Int
    OBVIOUS
  <2>1. a - 1 \in 0..Months /\ (a - 1) + 1 = a
    BY <1>1
  <2> QED
    BY <1>2, <2>1
<1>4. ASSUME NEW a \in 1..Months + 1
      PROVE  \A b \in 1..Months + 1 :
                a <= b => StartOf[a] + 28 * (b - a) <= StartOf[b] /\ StartOf[b] <= StartOf[a] + 31 * (b - a)
  <2> DEFINE D == Months + 1 - a
             U == {k \in 0..D : StartOf[a] + 28 * k <= StartOf[a + k] /\ StartOf[a + k] <= StartOf[a] + 31 * k}
  <2>1. D \in Nat /\ a \in Int
    BY <1>1
  <2>2. 0 \in U
    <3>1. a + 0 = a /\ StartOf[a] \in Int
      BY <1>3, <2>1
    <3> QED
      BY <2>1, <3>1
  <2>3. \A k \in 0..D : k < D /\ k \in U => k + 1 \in U
    <3> SUFFICES ASSUME NEW k \in 0..D, k < D,
                        StartOf[a] + 28 * k <= StartOf[a + k] /\ StartOf[a + k] <= StartOf[a] + 31 * k
                 PROVE  /\ k + 1 \in 0..D
                        /\ StartOf[a] + 28 * (k + 1) <= StartOf[a + (k + 1)]
                        /\ StartOf[a + (k + 1)] <= StartOf[a] + 31 * (k + 1)
      OBVIOUS
    <3>1. a + k \in 1..Months /\ (a + k) + 1 = a + (k + 1) /\ a + k \in 1..Months + 1 /\ k + 1 \in 0..D
      BY <1>1, <2>1
    <3>2. StartOf[a + (k + 1)] = StartOf[a + k] + MonthLengths[a + k] /\ MonthLengths[a + k] \in 28..31
      BY <1>1, <3>1
    <3>3. StartOf[a] \in Int /\ StartOf[a + k] \in Int
      BY <1>3, <3>1
    <3> QED
      BY <3>1, <3>2, <3>3
  <2> HIDE DEF U
  <2>4. \A k \in 0..D : k \in U
    BY <2>1, <2>2, <2>3, OneByOne
  <2> SUFFICES ASSUME NEW b \in 1..Months + 1, a <= b
               PROVE  StartOf[a] + 28 * (b - a) <= StartOf[b] /\ StartOf[b] <= StartOf[a] + 31 * (b - a)
    OBVIOUS
  <2>5. b - a \in 0..D /\ a + (b - a) = b
    BY <1>1
  <2> QED
    BY <2>4, <2>5 DEF U
<1> QED
  BY <1>3, <1>4

\* A day is in one month.
LEMMA MonthOfDay ==
    /\ \A d \in Days : /\ d \in Int
                       /\ MonthAt[d] \in 1..Months
                       /\ StartOf[MonthAt[d]] <= d /\ d < StartOf[MonthAt[d] + 1]
    /\ \A a \in 1..Months, d \in Int :
        StartOf[a] <= d /\ d < StartOf[a + 1] => d \in Days /\ MonthAt[d] = a
<1>1. /\ Months \in Nat /\ StartOf[1] = 1
      /\ \A a \in 1..Months + 1 : StartOf[a] \in Int
  BY StartsStep, StartsApart
<1>2. Days = 1..StartOf[Months + 1] - 1
  BY DEF Days, Months
<1>3. \A d \in Days : d \in Int /\ StartOf[1] <= d /\ d < StartOf[Months + 1]
  BY <1>1, <1>2
<1>4. \A a, b \in 1..Months : a < b => StartOf[a + 1] <= StartOf[b]
  <2> SUFFICES ASSUME NEW a \in 1..Months, NEW b \in 1..Months, a < b
               PROVE  StartOf[a + 1] <= StartOf[b]
    OBVIOUS
  <2>1. a + 1 \in 1..Months + 1 /\ b \in 1..Months + 1 /\ a + 1 <= b /\ 28 * (b - (a + 1)) >= 0
    BY <1>1
  <2>2. StartOf[a + 1] + 28 * (b - (a + 1)) <= StartOf[b]
    BY <2>1, StartsApart
  <2> QED
    BY <1>1, <2>1, <2>2
<1>5. ASSUME NEW d \in Days
      PROVE  \E a \in 1..Months : StartOf[a] <= d /\ d < StartOf[a + 1]
  <2> DEFINE S == {a \in 1..Months : StartOf[a] <= d}
  <2>1. Months # 0
    BY <1>1, <1>3
  <2>2. 1 \in S /\ S \in SUBSET (0..Months)
    BY <1>1, <1>3, <2>1
  <2>3. \E a \in S : \A b \in S : b <= a
    <3> HIDE DEF S
    <3> QED
      BY <1>1, <2>2, Greatest
  <2>4. PICK a \in S : \A b \in S : b <= a
    BY <2>3
  <2>5. CASE a = Months
    BY <1>3, <2>4, <2>5
  <2>6. CASE a < Months
    <3>1. a + 1 \in 1..Months /\ a + 1 \in 1..Months + 1 /\ a + 1 \notin S
      BY <1>1, <2>4, <2>6
    <3> QED
      BY <1>1, <1>3, <3>1
  <2> QED
    BY <1>1, <2>4, <2>5, <2>6
<1>6. ASSUME NEW d \in Days
      PROVE  MonthAt[d] \in 1..Months /\ StartOf[MonthAt[d]] <= d /\ d < StartOf[MonthAt[d] + 1]
  <2>1. MonthAt[d] = CHOOSE n \in 1..Months : StartOf[n] <= d /\ d < StartOf[n + 1]
    BY DEF MonthAt, Months
  <2> QED
    BY <1>5, <2>1
<1>7. ASSUME NEW a \in 1..Months, NEW d \in Int, StartOf[a] <= d, d < StartOf[a + 1]
      PROVE  d \in Days /\ MonthAt[d] = a
  <2>1. a \in 1..Months + 1 /\ a + 1 \in 1..Months + 1 /\ 1 \in 1..Months + 1 /\ Months + 1 \in 1..Months + 1
    BY <1>1
  <2>2. /\ StartOf[1] + 28 * (a - 1) <= StartOf[a] /\ 28 * (a - 1) >= 0
        /\ StartOf[a + 1] + 28 * (Months + 1 - (a + 1)) <= StartOf[Months + 1] /\ 28 * (Months + 1 - (a + 1)) >= 0
    BY <1>1, <2>1, StartsApart
  <2>3. d \in Days
    BY <1>1, <1>2, <1>7, <2>1, <2>2
  <2> DEFINE b == MonthAt[d]
  <2>4. b \in 1..Months /\ b \in 1..Months + 1 /\ b + 1 \in 1..Months + 1 /\ StartOf[b] <= d /\ d < StartOf[b + 1]
    BY <1>1, <1>6, <2>3
  <2> HIDE DEF b
  <2>5. ~(a < b) /\ ~(b < a)
    BY <1>1, <1>4, <1>7, <2>1, <2>4
  <2>6. a = b
    BY <1>1, <2>4, <2>5
  <2> QED
    BY <2>3, <2>6 DEF b
<1> QED
  BY <1>3, <1>6, <1>7

QuarterOf(m, yearStart) == (m - yearStart) \div 3

\* A quarter's label is its number and its year: months have the same one
\* when they are of the same quarter.
LEMMA LabelIsQuarter ==
    ASSUME NEW d \in Days, NEW cfg, cfg.yearStart \in 1..12
    PROVE  LET q == QuarterOf(MonthAt[d], cfg.yearStart)
           IN  q \in Int /\ Label(d, cfg) = <<(q % 4) + 1, q \div 4>>
<1> DEFINE m == MonthAt[d]
           y == cfg.yearStart
           q == (m - y) \div 3
           month == ((m - 1) % 12) + 1
           year == (m - 1) \div 12
<1>1. m \in Int /\ m >= 1
  BY MonthOfDay, StartsStep
<1>2. Label(d, cfg) = <<(Offset(d, cfg) \div 3) + 1, IF month >= y THEN year ELSE year - 1>> /\ Offset(d, cfg) = (m - y) % 12
  BY Zenon DEF Label, Offset
<1> HIDE DEF m
<1>3. y \in Int /\ y >= 1 /\ y <= 12
  OBVIOUS
<1> HIDE DEF y
<1>4. q \in Int /\ ((m - y) % 12) \div 3 = q % 4
  BY <1>1, <1>3
<1>5. (IF month >= y THEN year ELSE year - 1) = q \div 4
  BY <1>1, <1>3
<1>6. Label(d, cfg) = <<(q % 4) + 1, q \div 4>>
  BY <1>2, <1>4, <1>5
<1> QED
  BY <1>4, <1>6 DEF QuarterOf, m, y

LEMMA QuarterMonths ==
    ASSUME NEW m \in Int, NEW n \in Int, NEW y \in 1..12
    PROVE  LET first == m - (((m - y) % 12) % 3)
           IN  /\ first \in Int /\ first <= m /\ m <= first + 2
               /\ QuarterOf(n, y) = QuarterOf(m, y) <=> first <= n /\ n <= first + 2
               /\ QuarterOf(first - 3, y) = QuarterOf(m, y) - 1
               /\ QuarterOf(n, y) = QuarterOf(m, y) - 1 <=> first - 3 <= n /\ n <= first - 1
<1>1. ((m - y) % 12) % 3 = (m - y) % 3
  OBVIOUS
<1> DEFINE r == ((m - y) % 12) % 3
           q == (m - y) \div 3
           first == m - r
<1> SUFFICES /\ first \in Int /\ first <= m /\ m <= first + 2
             /\ QuarterOf(n, y) = QuarterOf(m, y) <=> first <= n /\ n <= first + 2
             /\ QuarterOf(first - 3, y) = QuarterOf(m, y) - 1
             /\ QuarterOf(n, y) = QuarterOf(m, y) - 1 <=> first - 3 <= n /\ n <= first - 1
  OBVIOUS
<1>2. r \in 0..2 /\ q \in Int /\ m = y + 3 * q + r
  BY <1>1
<1>3. QuarterOf(m, y) = q /\ QuarterOf(n, y) = (n - y) \div 3 /\ QuarterOf(m - r - 3, y) = (m - r - 3 - y) \div 3
  BY DEF QuarterOf
<1> HIDE DEF r, q, first
<1>4. \A k \in Int : (n - y) \div 3 = k <=> y + 3 * k <= n /\ n <= y + 3 * k + 2
  OBVIOUS
<1>5. (m - r - 3 - y) \div 3 = q - 1
  BY <1>2
<1>6. first = m - r
  BY DEF first
<1>7. first \in Int /\ first <= m /\ m <= first + 2 /\ first = y + 3 * q
  BY <1>2, <1>6
<1>8. QuarterOf(n, y) = QuarterOf(m, y) <=> first <= n /\ n <= first + 2
  BY <1>2, <1>3, <1>4, <1>7
<1>9. QuarterOf(first - 3, y) = QuarterOf(m, y) - 1
  BY <1>3, <1>5, <1>6
<1>10. QuarterOf(n, y) = QuarterOf(m, y) - 1 <=> first - 3 <= n /\ n <= first - 1
  <2>1. q - 1 \in Int
    BY <1>2
  <2>2. (n - y) \div 3 = q - 1 <=> y + 3 * (q - 1) <= n /\ n <= y + 3 * (q - 1) + 2
    BY <1>4, <2>1
  <2> QED
    BY <1>2, <1>3, <1>7, <2>2
<1> QED
  BY <1>7, <1>8, <1>9, <1>10

LEMMA SameLabel ==
    ASSUME NEW q \in Int, NEW p \in Int
    PROVE  <<(q % 4) + 1, q \div 4>> = <<(p % 4) + 1, p \div 4>> <=> q = p
OBVIOUS

\* Weeks and months.
LEMMA WeeksFit ==
    ASSUME NEW d \in Days, NEW cfg, cfg.rolling \in BOOLEAN, cfg.weekStart \in 0..6
    PROVE  /\ WeekStart(d, cfg) \in Int /\ WeekStart(d, cfg) <= d
           /\ Cardinality(WeekStart(d, cfg) - 7..WeekStart(d, cfg) - 1) = 7
           /\ Cardinality(WeekStart(d, cfg)..d) <= 7
<1>1. d \in Int /\ FirstWeekday \in Int
  BY MonthOfDay, PeriodsAssumption
<1> DEFINE w == WeekStart(d, cfg)
<1>2. w \in Int /\ d - 6 <= w /\ w <= d
  <2>1. CASE cfg.rolling
    BY <1>1, <2>1 DEF WeekStart
  <2>2. CASE ~cfg.rolling
    <3>1. w = d - ((((FirstWeekday + d - 1) % 7) - cfg.weekStart) % 7)
      BY <2>2 DEF WeekStart, Weekday
    <3>2. (((FirstWeekday + d - 1) % 7) - cfg.weekStart) % 7 \in 0..6
      BY <1>1
    <3> DEFINE r == (((FirstWeekday + d - 1) % 7) - cfg.weekStart) % 7
    <3> HIDE DEF w, r
    <3>3. w = d - r /\ r \in 0..6
      BY <3>1, <3>2 DEF r
    <3> QED
      BY <1>1, <3>3
  <2> QED
    BY <2>1, <2>2
<1> HIDE DEF w
<1>3. Cardinality(w - 7..w - 1) = IF w - 7 > w - 1 THEN 0 ELSE (w - 1) - (w - 7) + 1
  BY <1>2, FS_Interval
<1>4. Cardinality(w..d) = IF w > d THEN 0 ELSE d - w + 1
  BY <1>1, <1>2, FS_Interval
<1> QED
  BY <1>1, <1>2, <1>3, <1>4 DEF w

\* The days of a quarter are those of its three months.
LEMMA QuartersFit ==
    ASSUME NEW d \in Days, NEW cfg, cfg.yearStart \in 1..12, MonthAt[d] >= 6
    PROVE  LET first == MonthAt[d] - (Offset(d, cfg) % 3)
               start == QuarterStart(d, cfg)
               before == MonthStart(start, 3)
           IN  /\ first \in 4..MonthAt[d] /\ MonthAt[d] <= first + 2
               /\ start = StartOf[first] /\ before = StartOf[first - 3]
               /\ start \in Int /\ start <= d /\ before \in Int /\ before < start
               /\ d - start <= 92 /\ start - before <= 93
               /\ start \in Days /\ MonthAt[start] = first
               /\ before \in Days /\ MonthAt[before] = first - 3
<1> DEFINE m == MonthAt[d]
           r == Offset(d, cfg) % 3
           first == m - r
           start == QuarterStart(d, cfg)
           before == MonthStart(start, 3)
<1> SUFFICES /\ first \in 4..m /\ m <= first + 2
             /\ start = StartOf[first] /\ before = StartOf[first - 3]
             /\ start \in Int /\ start <= d /\ before \in Int /\ before < start
             /\ d - start <= 92 /\ start - before <= 93
             /\ start \in Days /\ MonthAt[start] = first
             /\ before \in Days /\ MonthAt[before] = first - 3
  OBVIOUS
<1>1. /\ m \in 1..Months /\ m >= 6 /\ StartOf[m] <= d /\ d < StartOf[m + 1] /\ Months \in Nat /\ d \in Int
  BY MonthOfDay, StartsStep
<1>2. first \in Int /\ first <= m /\ m <= first + 2
  <2>1. \A a \in Int : (a % 12) % 3 \in 0..2
    OBVIOUS
  <2>2. m \in Int /\ m - cfg.yearStart \in Int
    BY <1>1
  <2>3. r \in 0..2
    BY <2>1, <2>2 DEF Offset
  <2> HIDE DEF m, r
  <2> QED
    BY <2>2, <2>3
<1>3. first \in 4..Months /\ first - 3 \in 1..Months
  BY <1>1, <1>2
<1>4. start = StartOf[first]
  <2>1. start = MonthStart(d, r)
    BY DEF QuarterStart
  <2> HIDE DEF r, start
  <2> QED
    BY <2>1 DEF MonthStart
<1> HIDE DEF m, r, first, start
<1>5. /\ first \in 1..Months + 1 /\ first + 1 \in 1..Months + 1 /\ m + 1 \in 1..Months + 1 /\ m \in 1..Months + 1
      /\ first - 3 \in 1..Months + 1 /\ first - 2 \in 1..Months + 1
  BY <1>1, <1>3
<1>6. \A a \in 1..Months + 1 : StartOf[a] \in Int
  BY StartsApart
<1>7. /\ StartOf[first] + 28 <= StartOf[first + 1]
      /\ StartOf[first - 3] + 28 <= StartOf[first - 2]
      /\ StartOf[first] <= StartOf[m]
      /\ StartOf[m + 1] <= StartOf[first] + 93
      /\ StartOf[first - 3] + 84 <= StartOf[first] /\ StartOf[first] <= StartOf[first - 3] + 93
  <2>1. StartOf[first] + 28 * ((first + 1) - first) <= StartOf[first + 1]
    BY <1>2, <1>5, StartsApart
  <2>2. StartOf[first - 3] + 28 * ((first - 2) - (first - 3)) <= StartOf[first - 2]
    BY <1>2, <1>5, StartsApart
  <2>3. StartOf[first] + 28 * (m - first) <= StartOf[m]
    BY <1>2, <1>5, StartsApart
  <2>4. StartOf[m + 1] <= StartOf[first] + 31 * ((m + 1) - first)
    BY <1>2, <1>5, StartsApart
  <2>5. /\ StartOf[first - 3] + 28 * (first - (first - 3)) <= StartOf[first]
        /\ StartOf[first] <= StartOf[first - 3] + 31 * (first - (first - 3))
    BY <1>2, <1>5, StartsApart
  <2>6. /\ StartOf[first] \in Int /\ StartOf[first + 1] \in Int /\ StartOf[first - 3] \in Int /\ StartOf[first - 2] \in Int
        /\ StartOf[m] \in Int /\ StartOf[m + 1] \in Int /\ first \in Int /\ m \in Int
    BY <1>1, <1>2, <1>5, <1>6
  <2> QED
    BY <1>2, <2>1, <2>2, <2>3, <2>4, <2>5, <2>6
<1>8. start \in Days /\ MonthAt[start] = first
  BY <1>3, <1>4, <1>5, <1>6, <1>7, MonthOfDay
<1>9. before = StartOf[first - 3]
  BY <1>8 DEF MonthStart
<1> HIDE DEF before
<1>10. before \in Days /\ MonthAt[before] = first - 3
  <2>1. (first - 3) + 1 = first - 2
    BY <1>2
  <2> QED
    BY <1>3, <1>5, <1>6, <1>7, <1>9, <2>1, MonthOfDay
<1>11. /\ start \in Int /\ start <= d /\ before \in Int /\ before < start
       /\ d - start <= 92 /\ start - before <= 93
  BY <1>1, <1>4, <1>5, <1>6, <1>7, <1>9
<1> QED
  BY <1>1, <1>2, <1>3, <1>4, <1>8, <1>9, <1>10, <1>11

\* Periods that have six months before them, for any configuration.
LEMMA Fits ==
    ASSUME NEW d \in Days, NEW cfg, MonthAt[d] >= 6,
           cfg.rolling \in BOOLEAN, cfg.weekStart \in 0..6, cfg.yearStart \in 1..12
    PROVE  PeriodsFitTogether(d, cfg)
<1> DEFINE m == MonthAt[d]
           y == cfg.yearStart
           first == m - (Offset(d, cfg) % 3)
           start == QuarterStart(d, cfg)
           before == MonthStart(start, 3)
           near == (d - 190..d + 95) \cap Days
           labelled(label) == {e \in near : Label(e, cfg) = label}
           week == WeekStart(d, cfg)
<1>1. /\ first \in 4..m /\ m <= first + 2
      /\ start = StartOf[first] /\ before = StartOf[first - 3]
      /\ start \in Int /\ start <= d /\ before \in Int /\ before < start
      /\ d - start <= 92 /\ start - before <= 93
      /\ start \in Days /\ MonthAt[start] = first
      /\ before \in Days /\ MonthAt[before] = first - 3
  BY QuartersFit
<1>2. /\ d \in Int /\ m \in 1..Months /\ Months \in Nat /\ StartOf[m] <= d /\ d < StartOf[m + 1]
  BY MonthOfDay, StartsStep
<1>3. week \in Int /\ week <= d /\ Cardinality(week - 7..week - 1) = 7 /\ Cardinality(week..d) <= 7
  BY WeeksFit
<1>4. MonthStart(d, 0) = StartOf[m] /\ StartOf[m] \in Int /\ StartOf[m] <= d
  <2>1. m - 0 = m /\ m \in 1..Months + 1
    BY <1>2
  <2> QED
    BY <1>2, <2>1, StartsApart DEF MonthStart
<1>5. first = m - (((m - y) % 12) % 3)
  BY Zenon DEF Offset
<1>6. /\ ThisPeriod(d, cfg, "week") = <<week, d>>
      /\ ThisPeriod(d, cfg, "month") = <<MonthStart(d, 0), d>>
      /\ ThisPeriod(d, cfg, "quarter") = <<start, d>>
      /\ LastPeriod(d, cfg, "week") = <<week - 7, week - 1>>
      /\ LastPeriod(d, cfg, "month") = <<MonthStart(d, 1), MonthStart(d, 0) - 1>>
      /\ LastPeriod(d, cfg, "quarter") = <<before, start - 1>>
  BY DEF ThisPeriod, LastPeriod
<1> HIDE DEF m, first, start, before, week
<1>7. \A e \in Days : MonthAt[e] \in Int /\ e \in Int
  BY <1>2, MonthOfDay
<1>8. \A e, f \in Days : Label(e, cfg) = Label(f, cfg) <=> QuarterOf(MonthAt[e], y) = QuarterOf(MonthAt[f], y)
  BY LabelIsQuarter, SameLabel
<1>9. \A e \in Days : /\ Label(e, cfg) = Label(d, cfg) <=> first <= MonthAt[e] /\ MonthAt[e] <= first + 2
                      /\ Label(e, cfg) = Label(before, cfg) <=> first - 3 <= MonthAt[e] /\ MonthAt[e] <= first - 1
  <2> SUFFICES ASSUME NEW e \in Days
               PROVE  /\ Label(e, cfg) = Label(d, cfg) <=> first <= MonthAt[e] /\ MonthAt[e] <= first + 2
                      /\ Label(e, cfg) = Label(before, cfg) <=> first - 3 <= MonthAt[e] /\ MonthAt[e] <= first - 1
    OBVIOUS
  <2> DEFINE n == MonthAt[e]
  <2>1. n \in Int /\ m \in Int /\ y \in 1..12
    BY <1>2, <1>7 DEF y
  <2>2. /\ QuarterOf(n, y) = QuarterOf(m, y) <=> first <= n /\ n <= first + 2
        /\ QuarterOf(first - 3, y) = QuarterOf(m, y) - 1
        /\ QuarterOf(n, y) = QuarterOf(m, y) - 1 <=> first - 3 <= n /\ n <= first - 1
    <3> HIDE DEF n, y
    <3> QED
      BY <1>5, <2>1, QuarterMonths
  <2> QED
    BY <1>1, <1>8, <2>2 DEF m
<1> DEFINE Borders(e, a) == /\ a <= MonthAt[e] <=> StartOf[a] <= e
                            /\ MonthAt[e] < a <=> e < StartOf[a]
<1>10. \A e \in Days, a \in 1..Months : Borders(e, a)
  <2> SUFFICES ASSUME NEW e \in Days, NEW a \in 1..Months
               PROVE  Borders(e, a)
    BY Zenon
  <2> DEFINE n == MonthAt[e]
  <2>1. n \in 1..Months /\ StartOf[n] <= e /\ e < StartOf[n + 1] /\ e \in Int
    BY MonthOfDay
  <2> HIDE DEF n
  <2>2. n \in 1..Months + 1 /\ n + 1 \in 1..Months + 1 /\ a \in 1..Months + 1
    BY <1>2, <2>1
  <2>3. StartOf[n] \in Int /\ StartOf[n + 1] \in Int /\ StartOf[a] \in Int
    BY <2>2, StartsApart
  <2>4. a <= n => StartOf[a] <= StartOf[n]
    <3>1. a <= n => StartOf[a] + 28 * (n - a) <= StartOf[n] /\ 28 * (n - a) >= 0
      BY <1>2, <2>1, <2>2, StartsApart
    <3> QED
      BY <2>1, <2>3, <3>1
  <2>5. n < a => StartOf[n + 1] <= StartOf[a]
    <3>1. n + 1 <= a => StartOf[n + 1] + 28 * (a - (n + 1)) <= StartOf[a] /\ 28 * (a - (n + 1)) >= 0
      BY <1>2, <2>1, <2>2, StartsApart
    <3> QED
      BY <2>1, <2>3, <3>1
  <2> QED
    BY <2>1, <2>3, <2>4, <2>5 DEF n
<1> HIDE DEF Borders
<1>11. first \in 1..Months /\ first - 3 \in 1..Months /\ first \in Int
  BY <1>1, <1>2
<1>12. \A e \in Days : /\ first <= MonthAt[e] <=> start <= e
                       /\ MonthAt[e] < first <=> e < start
                       /\ first - 3 <= MonthAt[e] <=> before <= e
  <2>1. \A e \in Days : Borders(e, first) /\ Borders(e, first - 3)
    BY <1>10, <1>11, Zenon
  <2>2. start = StartOf[first] /\ before = StartOf[first - 3]
    BY <1>1
  <2> QED
    BY <2>1, <2>2 DEF Borders
<1>13. \A e \in Int : before <= e /\ e <= d => e \in Days
  <2>1. Days = 1..StartOf[Months + 1] - 1
    BY Zenon DEF Days, Months
  <2>2. Months + 1 \in 1..Months + 1
    BY <1>2
  <2>3. StartOf[Months + 1] \in Int
    BY <2>2, StartsApart
  <2>4. before \in 1..StartOf[Months + 1] - 1 /\ d \in 1..StartOf[Months + 1] - 1
    BY <1>1, <2>1
  <2> QED
    BY <1>1, <1>2, <2>1, <2>3, <2>4
<1>14. start..d = {e \in labelled(Label(d, cfg)) : e <= d}
  <2>1. ASSUME NEW e \in start..d
        PROVE  e \in labelled(Label(d, cfg)) /\ e <= d
    <3>1. e \in Int /\ start <= e /\ e <= d
      BY <1>1, <1>2, <2>1
    <3>2. e \in Days
      BY <1>1, <1>2, <1>13, <3>1
    <3>3. MonthAt[e] <= m
      <4>1. CASE m = Months
        BY <1>2, <3>2, <4>1, MonthOfDay
      <4>2. CASE m < Months
        <5>1. m + 1 \in 1..Months /\ StartOf[m + 1] \in Int
          BY <1>2, <4>2, StartsApart
        <5>2. MonthAt[e] < m + 1
          <6>1. Borders(e, m + 1)
            BY <1>10, <3>2, <5>1, Zenon
          <6> QED
            BY <1>2, <3>1, <5>1, <6>1 DEF Borders
        <5> QED
          BY <1>2, <1>7, <3>2, <5>2
      <4> QED
        BY <1>2, <4>1, <4>2
    <3>4. first <= MonthAt[e]
      BY <1>12, <3>1, <3>2
    <3>5. Label(e, cfg) = Label(d, cfg)
      BY <1>1, <1>2, <1>7, <1>9, <1>11, <3>2, <3>3, <3>4
    <3>6. e \in near
      BY <1>1, <1>2, <3>1, <3>2
    <3> QED
      BY <3>1, <3>5, <3>6
  <2>2. ASSUME NEW e \in near, Label(e, cfg) = Label(d, cfg), e <= d
        PROVE  e \in start..d
    <3>1. e \in Days /\ e \in Int /\ first <= MonthAt[e]
      BY <1>7, <1>9, <2>2
    <3>2. start <= e
      BY <1>12, <3>1
    <3> QED
      BY <1>1, <1>2, <2>2, <3>1, <3>2
  <2> QED
    BY <2>1, <2>2
<1>15. before..start - 1 = labelled(Label(before, cfg))
  <2>1. ASSUME NEW e \in before..start - 1
        PROVE  e \in labelled(Label(before, cfg))
    <3>1. e \in Int /\ before <= e /\ e < start
      BY <1>1, <2>1
    <3>2. e \in Days
      BY <1>1, <1>2, <1>13, <3>1
    <3>3. first - 3 <= MonthAt[e] /\ MonthAt[e] < first
      BY <1>12, <3>1, <3>2
    <3>4. Label(e, cfg) = Label(before, cfg)
      BY <1>7, <1>9, <1>11, <3>2, <3>3
    <3>5. e \in near
      BY <1>1, <1>2, <3>1, <3>2
    <3> QED
      BY <3>4, <3>5
  <2>2. ASSUME NEW e \in near, Label(e, cfg) = Label(before, cfg)
        PROVE  e \in before..start - 1
    <3>1. e \in Days /\ e \in Int /\ first - 3 <= MonthAt[e] /\ MonthAt[e] < first
      BY <1>7, <1>9, <1>11, <2>2
    <3>2. before <= e /\ e < start
      BY <1>12, <3>1
    <3> QED
      BY <1>1, <3>1, <3>2
  <2> QED
    BY <2>1, <2>2
<1> HIDE DEF labelled
<1>16. \A unit \in {"week", "month", "quarter"} :
          /\ d \in ThisPeriod(d, cfg, unit)[1]..ThisPeriod(d, cfg, unit)[2]
          /\ LastPeriod(d, cfg, unit)[2] + 1 = ThisPeriod(d, cfg, unit)[1]
  <2>1. MonthStart(d, 0) \in Int /\ MonthStart(d, 0) <= d
    BY <1>4
  <2>3. (week - 1) + 1 = week /\ (MonthStart(d, 0) - 1) + 1 = MonthStart(d, 0) /\ (start - 1) + 1 = start
    <3>1. \A x \in Int : (x - 1) + 1 = x
      OBVIOUS
    <3>2. week \in Int /\ start \in Int
      BY <1>1, <1>3
    <3> QED
      BY <2>1, <3>1, <3>2, Zenon
  <2>2. d \in week..d /\ d \in MonthStart(d, 0)..d /\ d \in start..d
    BY <1>1, <1>2, <1>3, <2>1
  <2> QED
    BY <1>6, <2>2, <2>3
<1>17. /\ Cardinality(LastPeriod(d, cfg, "week")[1]..LastPeriod(d, cfg, "week")[2]) = 7
       /\ Cardinality(ThisPeriod(d, cfg, "week")[1]..ThisPeriod(d, cfg, "week")[2]) <= 7
  BY <1>3, <1>6
<1>18. /\ ThisPeriod(d, cfg, "quarter")[1]..ThisPeriod(d, cfg, "quarter")[2] = {e \in labelled(Label(d, cfg)) : e <= d}
       /\ LastPeriod(d, cfg, "quarter")[1]..LastPeriod(d, cfg, "quarter")[2]
              = labelled(Label(LastPeriod(d, cfg, "quarter")[1], cfg))
  BY <1>6, <1>14, <1>15
<1> QED
  BY <1>16, <1>17, <1>18, Zenon DEF PeriodsFitTogether, labelled

\* WindowsHold of every day with six months before it, whatever is
\* configured, and of every series of calls in the order of their times.
THEOREM TimeIsRight == WellFormed => WindowsHold
<1> SUFFICES ASSUME WellFormed
             PROVE  WindowsHold
  OBVIOUS
<1>1. IsInput("day") => PeriodsFitTogether(input.day, input.cfg)
  BY Fits DEF WellFormed
<1>2. IsInput("calls") => WindowHolds(input.times)
  BY Windows DEF WellFormed, InOrder
<1> QED
  BY <1>1, <1>2 DEF WindowsHold

-----------------------------------------------------------------------------
(* The recording of a turn *)

PlansTo(runs, i) == Cardinality({j \in 1..i : runs[j].node = "plan"})

TraceObs == [kind : {"lap", "node", "generation"}, of : Int, parent : Int, start : Int, end : Int, level : {"DEFAULT", "ERROR"}]

IsRecording(rec) ==
    /\ rec = [obs |-> rec.obs, laps |-> rec.laps, time |-> rec.time, nodeErrors |-> rec.nodeErrors]
    /\ rec.obs \in Seq(TraceObs) /\ rec.time \in Nat

\* Laps 1 to m have their observations, and nothing else is one.
LapsShown(rec, m) ==
    /\ rec.laps = [l \in 1..m |-> rec.laps[l]]
    /\ \A l \in 1..m : /\ rec.laps[l] \in 1..Len(rec.obs)
                       /\ rec.obs[rec.laps[l]].kind = "lap" /\ rec.obs[rec.laps[l]].of = l
    /\ \A k \in 1..Len(rec.obs) : rec.obs[k].kind = "lap" =>
        rec.obs[k].of \in 1..m /\ rec.laps[rec.obs[k].of] = k /\ rec.obs[k].parent = 0

\* Node i has observation s[i], under its lap's, and its calls follow it.
NodesShown(rec, runs, n, s, m) ==
    /\ \A i \in 1..n :
        /\ s[i] \in 1..Len(rec.obs) /\ rec.obs[s[i]].kind = "node" /\ rec.obs[s[i]].of = i
        /\ runs[i].node \in LoopNodes =>
            PlansTo(runs, i) \in 1..m /\ rec.obs[s[i]].parent = rec.laps[PlansTo(runs, i)]
        /\ runs[i].node \notin LoopNodes => rec.obs[s[i]].parent = 0
        /\ s[i] + runs[i].calls <= Len(rec.obs)
        /\ \A k \in 1..Len(rec.obs) :
            rec.obs[k].kind = "generation" /\ rec.obs[k].parent = s[i] <=> k \in s[i] + 1..s[i] + runs[i].calls
    /\ \A k \in 1..Len(rec.obs) : rec.obs[k].kind = "node" => rec.obs[k].of \in 1..n /\ s[rec.obs[k].of] = k

\* Everything is within the time of what it stands under.
Nested(rec) ==
    \A k \in 1..Len(rec.obs) :
        /\ rec.obs[k].parent \in 0..k - 1 /\ rec.obs[k].start <= rec.obs[k].end /\ rec.obs[k].end <= rec.time
        /\ rec.obs[k].parent # 0 =>
            /\ rec.obs[rec.obs[k].parent].start <= rec.obs[k].start
            /\ rec.obs[k].end <= rec.obs[rec.obs[k].parent].end

Shown(rec, runs, n, s, m) ==
    IsRecording(rec) /\ LapsShown(rec, m) /\ NodesShown(rec, runs, n, s, m) /\ Nested(rec)

\* q is o with node i under p at time t, and its c calls.
NodeAdded(q, o, p, i, c, t) ==
    LET me == Len(o) + 1
    IN  /\ q \in Seq(TraceObs) /\ Len(q) = me + c
        /\ \A k \in 1..Len(o) :
            /\ q[k].kind = o[k].kind /\ q[k].of = o[k].of /\ q[k].parent = o[k].parent /\ q[k].start = o[k].start
            /\ q[k].end = IF k = p THEN t + c + 1 ELSE o[k].end
        /\ q[me].kind = "node" /\ q[me].of = i /\ q[me].parent = p /\ q[me].start = t /\ q[me].end = t + c + 1
        /\ \A k \in me + 1..me + c :
            /\ q[k].kind = "generation" /\ q[k].parent = me
            /\ q[k].start = t + (k - me) /\ q[k].end = t + (k - me)

\* The span of a lap that is asked for first.
LEMMA LapAdded ==
    ASSUME NEW rec, NEW runs, NEW n \in Nat, NEW s, NEW m \in Nat, Shown(rec, runs, n, s, m),
           \A i \in 1..n : runs[i].calls \in Nat
    PROVE  LET open == WithLap(rec, m + 1)
           IN  Shown(open, runs, n, s, m + 1) /\ open.time = rec.time /\ open.nodeErrors = rec.nodeErrors
<1> DEFINE o == rec.obs
           L == Len(o)
           lap == Obs("lap", m + 1, 0, rec.time, "DEFAULT")
           q == Append(o, lap)
           laps == [l \in 1..m + 1 |-> IF l = m + 1 THEN L + 1 ELSE rec.laps[l]]
           open == [obs |-> q, laps |-> laps, time |-> rec.time, nodeErrors |-> rec.nodeErrors]
<1>1. IsRecording(rec) /\ LapsShown(rec, m) /\ NodesShown(rec, runs, n, s, m) /\ Nested(rec)
  BY DEF Shown
<1>2. o \in Seq(TraceObs) /\ L \in Nat /\ rec.time \in Nat /\ \A k \in 1..L : o[k] \in TraceObs
  BY <1>1 DEF IsRecording
<1>3. WithLap(rec, m + 1) = open
  <2>1. DOMAIN rec.laps = 1..m
    BY <1>1 DEF LapsShown
  <2>2. m + 1 \notin DOMAIN rec.laps /\ DOMAIN rec.laps \cup {m + 1} = 1..m + 1
    BY <2>1
  <2>3. WithLap(rec, m + 1) =
          [rec EXCEPT !.obs = Append(@, lap),
                      !.laps = [l \in DOMAIN @ \cup {m + 1} |-> IF l = m + 1 THEN Len(rec.obs) + 1 ELSE rec.laps[l]]]
    BY <2>2 DEF WithLap
  <2>4. rec = [obs |-> rec.obs, laps |-> rec.laps, time |-> rec.time, nodeErrors |-> rec.nodeErrors]
    BY <1>1 DEF IsRecording
  <2>5. [l \in DOMAIN rec.laps \cup {m + 1} |-> IF l = m + 1 THEN Len(rec.obs) + 1 ELSE rec.laps[l]] = laps
    BY <2>2
  <2> HIDE DEF laps, lap
  <2> QED
    BY <2>3, <2>4, <2>5
<1>4. lap \in TraceObs /\ lap.kind = "lap" /\ lap.of = m + 1 /\ lap.parent = 0 /\ lap.start = rec.time /\ lap.end = rec.time
  <2>1. lap = [kind |-> "lap", of |-> m + 1, parent |-> 0, start |-> rec.time, end |-> rec.time, level |-> "DEFAULT"]
    BY DEF Obs
  <2>2. m + 1 \in Int /\ rec.time \in Int /\ 0 \in Int
    BY <1>2
  <2> HIDE DEF lap
  <2> QED
    BY <2>1, <2>2 DEF TraceObs
<1> HIDE DEF lap
<1>5. q \in Seq(TraceObs) /\ Len(q) = L + 1 /\ q[L + 1] = lap /\ \A k \in 1..L : q[k] = o[k]
  BY <1>2, <1>4
<1>6. /\ open.obs = q /\ open.laps = laps /\ open.time = rec.time /\ open.nodeErrors = rec.nodeErrors
      /\ open = [obs |-> open.obs, laps |-> open.laps, time |-> open.time, nodeErrors |-> open.nodeErrors]
  OBVIOUS
<1>7. laps[m + 1] = L + 1 /\ \A l \in 1..m : laps[l] = rec.laps[l] /\ l # m + 1
  OBVIOUS
<1>8. laps = [l \in 1..m + 1 |-> laps[l]]
  OBVIOUS
<1> HIDE DEF open, q, laps, o, L
<1>9. \A k \in 1..L + 1 : k = L + 1 \/ k \in 1..L
  BY <1>2
<1>10. IsRecording(open)
  BY <1>2, <1>5, <1>6 DEF IsRecording
<1>11. LapsShown(open, m + 1)
  <2>1. \A l \in 1..m : rec.laps[l] \in 1..L /\ o[rec.laps[l]].kind = "lap" /\ o[rec.laps[l]].of = l
    BY <1>1 DEF LapsShown, o, L
  <2>2. \A k \in 1..L : o[k].kind = "lap" => o[k].of \in 1..m /\ rec.laps[o[k].of] = k /\ o[k].parent = 0
    BY <1>1 DEF LapsShown, o, L
  <2>3. ASSUME NEW l \in 1..m + 1
        PROVE  laps[l] \in 1..L + 1 /\ q[laps[l]].kind = "lap" /\ q[laps[l]].of = l
    <3>1. CASE l = m + 1
      BY <1>2, <1>4, <1>5, <1>7, <3>1
    <3>2. CASE l \in 1..m
      <4>1. laps[l] = rec.laps[l] /\ rec.laps[l] \in 1..L
        BY <1>7, <2>1, <3>2
      <4>2. q[laps[l]] = o[rec.laps[l]]
        BY <1>5, <4>1
      <4> QED
        BY <1>2, <2>1, <3>2, <4>1, <4>2
    <3> QED
      BY <3>1, <3>2
  <2>4. ASSUME NEW k \in 1..L + 1, q[k].kind = "lap"
        PROVE  q[k].of \in 1..m + 1 /\ laps[q[k].of] = k /\ q[k].parent = 0
    <3>1. CASE k = L + 1
      BY <1>2, <1>4, <1>5, <1>7, <3>1
    <3>2. CASE k \in 1..L
      BY <1>2, <1>5, <1>7, <2>2, <2>4, <3>2, SMTT(30)
    <3> QED
      BY <1>9, <3>1, <3>2
  <2> QED
    BY <1>5, <1>6, <1>8, <2>3, <2>4 DEF LapsShown
<1>12. NodesShown(open, runs, n, s, m + 1)
  <2>1. ASSUME NEW i \in 1..n
        PROVE  /\ s[i] \in 1..L + 1 /\ q[s[i]].kind = "node" /\ q[s[i]].of = i
               /\ runs[i].node \in LoopNodes => PlansTo(runs, i) \in 1..m + 1 /\ q[s[i]].parent = laps[PlansTo(runs, i)]
               /\ runs[i].node \notin LoopNodes => q[s[i]].parent = 0
               /\ s[i] + runs[i].calls <= L + 1
               /\ \A k \in 1..L + 1 :
                    q[k].kind = "generation" /\ q[k].parent = s[i] <=> k \in s[i] + 1..s[i] + runs[i].calls
    <3>1. /\ s[i] \in 1..L /\ o[s[i]].kind = "node" /\ o[s[i]].of = i
          /\ runs[i].node \in LoopNodes => PlansTo(runs, i) \in 1..m /\ o[s[i]].parent = rec.laps[PlansTo(runs, i)]
          /\ runs[i].node \notin LoopNodes => o[s[i]].parent = 0
          /\ s[i] + runs[i].calls <= L
      BY <1>1, <2>1 DEF NodesShown, o, L
    <3>2. \A k \in 1..L : o[k].kind = "generation" /\ o[k].parent = s[i] <=> k \in s[i] + 1..s[i] + runs[i].calls
      BY <1>1, <2>1 DEF NodesShown, o, L
    <3>3. ASSUME NEW k \in 1..L + 1
          PROVE  q[k].kind = "generation" /\ q[k].parent = s[i] <=> k \in s[i] + 1..s[i] + runs[i].calls
      <4>1. CASE k = L + 1
        <5>1. q[k].kind # "generation"
          BY <1>4, <1>5, <4>1
        <5>2. k \notin s[i] + 1..s[i] + runs[i].calls
          BY <1>2, <2>1, <3>1, <4>1
        <5> QED
          BY <5>1, <5>2
      <4>2. CASE k \in 1..L
        BY <1>5, <3>2, <4>2
      <4> QED
        BY <1>9, <4>1, <4>2
    <3>4. s[i] \in 1..L + 1 /\ s[i] + runs[i].calls <= L + 1
      BY <1>2, <2>1, <3>1
    <3> QED
      BY <1>5, <1>7, <3>1, <3>3, <3>4
  <2>2. ASSUME NEW k \in 1..L + 1, q[k].kind = "node"
        PROVE  q[k].of \in 1..n /\ s[q[k].of] = k
    <3>1. k \in 1..L
      BY <1>4, <1>5, <1>9, <2>2
    <3> QED
      BY <1>1, <1>5, <2>2, <3>1 DEF NodesShown, o, L
  <2> QED
    BY <1>5, <1>6, <2>1, <2>2, SMTT(30) DEF NodesShown
<1>13. Nested(open)
  <2> SUFFICES ASSUME NEW k \in 1..L + 1
               PROVE  /\ q[k].parent \in 0..k - 1 /\ q[k].start <= q[k].end /\ q[k].end <= rec.time
                      /\ q[k].parent # 0 => /\ q[q[k].parent].start <= q[k].start
                                            /\ q[k].end <= q[q[k].parent].end
    BY <1>5, <1>6 DEF Nested
  <2>1. CASE k = L + 1
    BY <1>2, <1>4, <1>5, <2>1
  <2>2. CASE k \in 1..L
    <3>1. /\ o[k].parent \in 0..k - 1 /\ o[k].start <= o[k].end /\ o[k].end <= rec.time
          /\ o[k].parent # 0 => /\ o[o[k].parent].start <= o[k].start
                                /\ o[k].end <= o[o[k].parent].end
      BY <1>1, <2>2 DEF Nested, o, L
    <3>2. o[k].parent # 0 => o[k].parent \in 1..L
      BY <1>2, <2>2, <3>1
    <3> QED
      BY <1>5, <2>2, <3>1, <3>2
  <2> QED
    BY <1>9, <2>1, <2>2
<1>14. Shown(open, runs, n, s, m + 1)
  BY <1>10, <1>11, <1>12, <1>13 DEF Shown
<1> QED
  BY <1>3, <1>6, <1>14 DEF o, L, q, open

\* What traced adds below the lap it has: the node and its calls.
LEMMA NodeTraced ==
    ASSUME NEW open, IsRecording(open), NEW p \in 0..Len(open.obs), NEW i \in Int, NEW run \in NodeRun
    PROVE  LET me == Len(open.obs) + 1
               level == IF run.end = "error" THEN "ERROR" ELSE "DEFAULT"
               running == [open EXCEPT !.obs = Append(@, Obs("node", i, p, open.time, level))]
               done == Ended([WithCalls(running, me, run.calls) EXCEPT !.time = @ + 1,
                           !.nodeErrors = @ \cup (IF run.end = "fellback" THEN {run.node} ELSE {})], me)
               shown == IF p = 0 THEN done ELSE Ended(done, p)
           IN  /\ NodeAdded(shown.obs, open.obs, p, i, run.calls, open.time)
               /\ IsRecording(shown) /\ shown.laps = open.laps /\ shown.time = open.time + run.calls + 1
               /\ open.nodeErrors \subseteq shown.nodeErrors
               /\ run.end = "fellback" => shown.nodeErrors # {}
<1> DEFINE o == open.obs
           L == Len(o)
           me == L + 1
           c == run.calls
           t == open.time
           level == IF run.end = "error" THEN "ERROR" ELSE "DEFAULT"
           node == Obs("node", i, p, t, level)
           running == [open EXCEPT !.obs = Append(@, node)]
           gens == [k \in 1..c |-> Obs("generation", me, me, t + k, "DEFAULT")]
           errors == open.nodeErrors \cup (IF run.end = "fellback" THEN {run.node} ELSE {})
           called == [WithCalls(running, me, c) EXCEPT !.time = @ + 1,
                         !.nodeErrors = @ \cup (IF run.end = "fellback" THEN {run.node} ELSE {})]
           done == Ended(called, me)
           shown == IF p = 0 THEN done ELSE Ended(done, p)
           q == Append(o, node) \o gens
           end == t + c + 1
           ended == [q EXCEPT ![me] = [q[me] EXCEPT !.end = end]]
           final == IF p = 0 THEN ended ELSE [ended EXCEPT ![p] = [ended[p] EXCEPT !.end = end]]
<1> SUFFICES /\ NodeAdded(shown.obs, o, p, i, c, t)
             /\ IsRecording(shown) /\ shown.laps = open.laps /\ shown.time = t + c + 1
             /\ open.nodeErrors \subseteq shown.nodeErrors
             /\ run.end = "fellback" => shown.nodeErrors # {}
  OBVIOUS
<1>1. /\ open = [obs |-> o, laps |-> open.laps, time |-> t, nodeErrors |-> open.nodeErrors]
      /\ o \in Seq(TraceObs) /\ t \in Nat
  BY DEF IsRecording
<1>2. L \in Nat /\ c \in Nat /\ p \in 0..L /\ \A k \in 1..L : o[k] \in TraceObs
  BY <1>1 DEF NodeRun
<1>3. node = [kind |-> "node", of |-> i, parent |-> p, start |-> t, end |-> t, level |-> level]
  BY Zenon DEF Obs
<1>4. level \in {"DEFAULT", "ERROR"}
  OBVIOUS
<1>5. node \in TraceObs /\ node.kind = "node" /\ node.of = i /\ node.parent = p /\ node.start = t /\ node.end = t
  <2> HIDE DEF node, level
  <2> QED
    BY <1>1, <1>2, <1>3, <1>4 DEF TraceObs
<1>6. /\ gens \in Seq(TraceObs) /\ Len(gens) = c
      /\ \A k \in 1..c : gens[k].kind = "generation" /\ gens[k].parent = me /\ gens[k].start = t + k /\ gens[k].end = t + k
  <2>1. \A k \in 1..c : gens[k] = [kind |-> "generation", of |-> me, parent |-> me, start |-> t + k, end |-> t + k, level |-> "DEFAULT"]
    BY DEF Obs
  <2>2. gens = [k \in 1..c |-> gens[k]]
    OBVIOUS
  <2> HIDE DEF gens
  <2>3. me \in Int /\ \A k \in 1..c : t + k \in Int
    BY <1>1, <1>2
  <2> HIDE DEF me, t, c
  <2>4. ASSUME NEW k \in 1..c
        PROVE  gens[k] \in TraceObs
    <3>1. gens[k] = [kind |-> "generation", of |-> me, parent |-> me, start |-> t + k, end |-> t + k, level |-> "DEFAULT"]
      BY <2>1
    <3>2. t + k \in Int
      BY <2>3
    <3> QED
      BY <2>3, <3>1, <3>2 DEF TraceObs
  <2>5. gens \in [1..c -> TraceObs]
    BY <2>2, <2>4, Zenon
  <2>6. gens \in Seq(TraceObs) /\ Len(gens) = c
    BY <1>2, <2>5
  <2> QED
    BY <2>1, <2>6
<1>7. running = [obs |-> Append(o, node), laps |-> open.laps, time |-> t, nodeErrors |-> open.nodeErrors]
  <2> HIDE DEF node, o, t
  <2> QED
    BY <1>1 DEF o, t
<1>8. WithCalls(running, me, c) = [obs |-> q, laps |-> open.laps, time |-> t + c, nodeErrors |-> open.nodeErrors]
  <2>1. WithCalls(running, me, c) =
           [running EXCEPT !.time = running.time + c,
                           !.obs = running.obs \o [k \in 1..c |-> Obs("generation", me, me, running.time + k, "DEFAULT")]]
    BY DEF WithCalls
  <2>2. running.time = t /\ running.obs = Append(o, node) /\ running.laps = open.laps /\ running.nodeErrors = open.nodeErrors
    <3> HIDE DEF node, o, t, running
    <3> QED
      BY <1>7
  <2> DEFINE calls(u) == [k \in 1..c |-> Obs("generation", me, me, u + k, "DEFAULT")]
  <2>3. calls(running.time) = gens
    BY <2>2
  <2>4. WithCalls(running, me, c) = [running EXCEPT !.time = running.time + c, !.obs = running.obs \o calls(running.time)]
    BY <2>1
  <2>5. q = Append(o, node) \o gens
    OBVIOUS
  <2> HIDE DEF node, o, t, running, gens, calls, q, c, me
  <2> QED
    BY <1>7, <2>2, <2>3, <2>4, <2>5
<1>9. called = [obs |-> q, laps |-> open.laps, time |-> end, nodeErrors |-> errors]
  <2> DEFINE w == WithCalls(running, me, c)
  <2>1. called = [w EXCEPT !.time = w.time + 1, !.nodeErrors = w.nodeErrors \cup (IF run.end = "fellback" THEN {run.node} ELSE {})]
    BY Zenon
  <2>2. w = [obs |-> q, laps |-> open.laps, time |-> t + c, nodeErrors |-> open.nodeErrors]
    BY <1>8
  <2> HIDE DEF w, q, t, c, called
  <2>3. called = [obs |-> q, laps |-> open.laps, time |-> w.time + 1,
                  nodeErrors |-> w.nodeErrors \cup (IF run.end = "fellback" THEN {run.node} ELSE {})]
    BY <2>1, <2>2
  <2> QED
    BY <2>2, <2>3
<1> HIDE DEF called, node, gens
<1>10. q \in Seq(TraceObs) /\ Len(q) = me + c /\ q[me] = node
       /\ (\A k \in 1..L : q[k] = o[k]) /\ (\A k \in me + 1..me + c : q[k] = gens[k - me])
  <2> DEFINE b == Append(o, node)
  <2>1. b \in Seq(TraceObs) /\ Len(b) = me /\ b[me] = node /\ \A k \in 1..L : b[k] = o[k]
    BY <1>1, <1>2, <1>5
  <2>2. q = b \o gens
    OBVIOUS
  <2> HIDE DEF b, q
  <2>3. /\ q \in Seq(TraceObs) /\ Len(q) = Len(b) + Len(gens)
        /\ \A k \in 1..Len(b) + Len(gens) : q[k] = IF k <= Len(b) THEN b[k] ELSE gens[k - Len(b)]
    <3>1. gens \in Seq(TraceObs)
      BY <1>6
    <3> QED
      <4>1. /\ b \o gens \in Seq(TraceObs) /\ Len(b \o gens) = Len(b) + Len(gens)
            /\ \A k \in 1..Len(b) + Len(gens) : (b \o gens)[k] = IF k <= Len(b) THEN b[k] ELSE gens[k - Len(b)]
        BY <2>1, <3>1, ConcatProperties, Zenon
      <4> QED
        BY <2>2, <4>1, Zenon
  <2>4. me \in 1..me + c /\ me \in Nat
    BY <1>2
  <2>5. \A k \in 1..L : k \in 1..me + c /\ k <= me
    BY <1>2
  <2>6. \A k \in me + 1..me + c : k \in 1..me + c /\ ~(k <= me)
    BY <1>2
  <2> HIDE DEF me
  <2> QED
    BY <1>6, <2>1, <2>3, <2>4, <2>5, <2>6
<1>11. done = [obs |-> ended, laps |-> open.laps, time |-> end, nodeErrors |-> errors]
  <2>1. done = [called EXCEPT !.obs = [called.obs EXCEPT ![me] = [called.obs[me] EXCEPT !.end = called.time]]]
    BY DEF Ended
  <2>2. called.obs = q /\ called.time = end
    <3> HIDE DEF q, end
    <3> QED
      BY <1>9
  <2>3. done = [called EXCEPT !.obs = ended]
    BY <2>1, <2>2, Zenon
  <2> HIDE DEF q, end, ended, done, errors
  <2> QED
    BY <1>9, <2>3
<1>12. shown = [obs |-> final, laps |-> open.laps, time |-> end, nodeErrors |-> errors]
  <2>1. CASE p = 0
    BY <1>11, <2>1
  <2>2. CASE p # 0
    <3>1. shown = [done EXCEPT !.obs = [done.obs EXCEPT ![p] = [done.obs[p] EXCEPT !.end = done.time]]]
      BY <2>2 DEF Ended
    <3>2. final = [ended EXCEPT ![p] = [ended[p] EXCEPT !.end = end]]
      BY <2>2
    <3> HIDE DEF done, ended, end, shown, final, errors
    <3>3. done.obs = ended /\ done.time = end
      BY <1>11
    <3>4. shown = [done EXCEPT !.obs = final]
      BY <3>1, <3>2, <3>3, Zenon
    <3> QED
      BY <1>11, <3>4
  <2> QED
    BY <2>1, <2>2
<1>13. end \in Nat /\ end \in Int /\ me \in 1..me + c /\ p # me /\ (p # 0 => p \in 1..L /\ p \in 1..me + c)
       /\ (\A k \in 1..L : k \in 1..me + c /\ k # me) /\ (\A k \in me + 1..me + c : k \in 1..me + c /\ k # me /\ k # p)
  BY <1>1, <1>2
<1> DEFINE N == me + c
           Is(x, y, e) == /\ x \in TraceObs /\ x.kind = y.kind /\ x.of = y.of /\ x.parent = y.parent /\ x.start = y.start
                          /\ x.end = e
<1>14. \A k \in 1..N : q[k] \in TraceObs
  BY <1>10
<1>15. \A y \in TraceObs : Is([y EXCEPT !.end = end], y, end) /\ Is(y, y, y.end)
  BY <1>13 DEF TraceObs
<1>16. /\ ended \in Seq(TraceObs) /\ Len(ended) = N
       /\ \A k \in 1..N : Is(ended[k], q[k], IF k = me THEN end ELSE q[k].end)
  <2> HIDE DEF q, end, Is, me, N
  <2>1. N = Len(q) /\ [q[me] EXCEPT !.end = end] \in TraceObs
    BY <1>10, <1>13, <1>14, <1>15 DEF N, Is
  <2> DEFINE e == [q[me] EXCEPT !.end = end]
  <2>2. ended = [q EXCEPT ![me] = e] /\ me \in 1..Len(q) /\ q \in Seq(TraceObs) /\ e \in TraceObs
    BY <1>10, <1>13, <2>1 DEF N
  <2>3. Is(e, q[me], end)
    BY <1>13, <1>14, <1>15 DEF N
  <2> HIDE DEF ended, e
  <2>4. /\ ended \in Seq(TraceObs) /\ Len(ended) = N
        /\ \A k \in 1..N : ended[k] = IF k = me THEN e ELSE q[k]
    BY <2>1, <2>2, ExceptSeq
  <2> QED
    BY <1>14, <1>15, <2>3, <2>4
<1>17. /\ final \in Seq(TraceObs) /\ Len(final) = N
       /\ \A k \in 1..N : Is(final[k], q[k], IF k = me \/ (k = p /\ p # 0) THEN end ELSE q[k].end)
  <2> HIDE DEF q, end, me, N, ended
  <2>1. CASE p = 0
    BY <1>16, <2>1
  <2>2. CASE p # 0
    <3>1. p \in 1..N /\ p # me /\ ended[p] \in TraceObs
      BY <1>13, <1>16, <2>2 DEF N, Is
    <3>2. final = [ended EXCEPT ![p] = [ended[p] EXCEPT !.end = end]]
      BY <2>2
    <3> HIDE DEF final
    <3>3. Is([ended[p] EXCEPT !.end = end], ended[p], end)
      BY <1>15, <3>1
    <3> DEFINE e == [ended[p] EXCEPT !.end = end]
    <3>4. final = [ended EXCEPT ![p] = e] /\ p \in 1..Len(ended) /\ e \in TraceObs /\ Is(e, ended[p], end)
      BY <1>16, <3>1, <3>2, <3>3 DEF Is
    <3> HIDE DEF e
    <3>5. /\ final \in Seq(TraceObs) /\ Len(final) = N
          /\ \A k \in 1..N : final[k] = IF k = p THEN e ELSE ended[k]
      BY <1>16, <3>4, ExceptSeq
    <3>6. Is(ended[p], q[p], q[p].end)
      BY <1>16, <3>1
    <3>7. Is(final[p], q[p], end)
      BY <3>1, <3>4, <3>5, <3>6 DEF Is
    <3>8. \A k \in 1..N : k # p => Is(final[k], q[k], IF k = me THEN end ELSE q[k].end)
      BY <1>16, <3>5
    <3> QED
      BY <2>2, <3>5, <3>7, <3>8
  <2> QED
    BY <2>1, <2>2
<1> HIDE DEF final, ended, q, end, me, N, shown, errors
<1>18. NodeAdded(final, o, p, i, c, t)
  <2>1. \A k \in 1..L : k \in 1..N /\ k # me
    BY <1>13 DEF N
  <2>2. \A k \in 1..L : /\ final[k].kind = o[k].kind /\ final[k].of = o[k].of /\ final[k].parent = o[k].parent
                        /\ final[k].start = o[k].start /\ final[k].end = IF k = p THEN end ELSE o[k].end
    <3>1. \A k \in 1..L : k # 0
      BY <1>2
    <3> QED
      BY <1>10, <1>17, <2>1, <3>1 DEF Is
  <2>3. /\ final[me].kind = "node" /\ final[me].of = i /\ final[me].parent = p /\ final[me].start = t /\ final[me].end = end
    BY <1>5, <1>10, <1>13, <1>17 DEF Is, N
  <2>4. \A k \in me + 1..me + c : /\ final[k].kind = "generation" /\ final[k].parent = me
                                  /\ final[k].start = t + (k - me) /\ final[k].end = t + (k - me)
    <3> SUFFICES ASSUME NEW k \in me + 1..me + c
                 PROVE  /\ final[k].kind = "generation" /\ final[k].parent = me
                        /\ final[k].start = t + (k - me) /\ final[k].end = t + (k - me)
      OBVIOUS
    <3>1. k \in 1..N /\ k # me /\ k # p
      BY <1>13 DEF N
    <3>2. Is(final[k], q[k], q[k].end) /\ q[k] = gens[k - me]
      BY <1>10, <1>17, <3>1
    <3>3. k - me \in 1..c
      BY <1>2 DEF me
    <3> QED
      BY <1>6, <3>2, <3>3 DEF Is
  <2> QED
    BY <1>17, <2>2, <2>3, <2>4 DEF NodeAdded, me, N, end
<1>19. /\ shown.obs = final /\ shown.laps = open.laps /\ shown.time = end /\ shown.nodeErrors = errors
       /\ shown = [obs |-> shown.obs, laps |-> shown.laps, time |-> shown.time, nodeErrors |-> shown.nodeErrors]
  BY <1>12
<1>20. IsRecording(shown)
  BY <1>13, <1>17, <1>19 DEF IsRecording
<1>21. open.nodeErrors \subseteq errors /\ (run.end = "fellback" => errors # {})
  BY DEF errors
<1> QED
  BY <1>18, <1>19, <1>20, <1>21 DEF end

\* What holds of a recording holds of it with one more node.
LEMMA NodeKeeps ==
    ASSUME NEW open, NEW rec, NEW runs, NEW n \in Nat, NEW s, NEW m \in Nat, NEW p \in 0..Len(open.obs),
           Shown(open, runs, n, s, m),
           \A i \in 1..n + 1 : runs[i].calls \in Nat,
           NodeAdded(rec.obs, open.obs, p, n + 1, runs[n + 1].calls, open.time),
           IsRecording(rec), rec.laps = open.laps, rec.time = open.time + runs[n + 1].calls + 1,
           runs[n + 1].node \in LoopNodes => PlansTo(runs, n + 1) \in 1..m /\ p = open.laps[PlansTo(runs, n + 1)],
           runs[n + 1].node \notin LoopNodes => p = 0
    PROVE  \E s2 : Shown(rec, runs, n + 1, s2, m)
<1> DEFINE o == open.obs
           q == rec.obs
           L == Len(o)
           me == L + 1
           c == runs[n + 1].calls
           t == open.time
           N == me + c
           s2 == [i \in 1..n + 1 |-> IF i = n + 1 THEN me ELSE s[i]]
<1>1. /\ IsRecording(open) /\ LapsShown(open, m) /\ NodesShown(open, runs, n, s, m) /\ Nested(open)
      /\ L \in Nat /\ t \in Nat /\ c \in Nat /\ p \in 0..L
  <2>1. o \in Seq(TraceObs) /\ t \in Nat
    BY DEF Shown, IsRecording
  <2> QED
    BY <2>1 DEF Shown
<1>2. /\ q \in Seq(TraceObs) /\ Len(q) = N
      /\ \A k \in 1..L :
            /\ q[k].kind = o[k].kind /\ q[k].of = o[k].of /\ q[k].parent = o[k].parent /\ q[k].start = o[k].start
            /\ q[k].end = IF k = p THEN t + c + 1 ELSE o[k].end
      /\ q[me].kind = "node" /\ q[me].of = n + 1 /\ q[me].parent = p /\ q[me].start = t /\ q[me].end = t + c + 1
      /\ \A k \in me + 1..N :
            /\ q[k].kind = "generation" /\ q[k].parent = me
            /\ q[k].start = t + (k - me) /\ q[k].end = t + (k - me)
  BY DEF NodeAdded
<1>3. /\ open.laps = [l \in 1..m |-> open.laps[l]]
      /\ \A l \in 1..m : open.laps[l] \in 1..L /\ o[open.laps[l]].kind = "lap" /\ o[open.laps[l]].of = l
      /\ \A k \in 1..L : o[k].kind = "lap" => o[k].of \in 1..m /\ open.laps[o[k].of] = k /\ o[k].parent = 0
  BY <1>1 DEF LapsShown
<1>4. /\ \A i \in 1..n :
            /\ s[i] \in 1..L /\ o[s[i]].kind = "node" /\ o[s[i]].of = i
            /\ runs[i].node \in LoopNodes => PlansTo(runs, i) \in 1..m /\ o[s[i]].parent = open.laps[PlansTo(runs, i)]
            /\ runs[i].node \notin LoopNodes => o[s[i]].parent = 0
            /\ s[i] + runs[i].calls <= L
      /\ \A i \in 1..n, k \in 1..L :
            o[k].kind = "generation" /\ o[k].parent = s[i] <=> k \in s[i] + 1..s[i] + runs[i].calls
      /\ \A k \in 1..L : o[k].kind = "node" => o[k].of \in 1..n /\ s[o[k].of] = k
  BY <1>1 DEF NodesShown
<1>5. \A k \in 1..L : /\ o[k].parent \in 0..k - 1 /\ o[k].start <= o[k].end /\ o[k].end <= t
                      /\ o[k] \in TraceObs
                      /\ o[k].parent # 0 => o[o[k].parent].start <= o[k].start /\ o[k].end <= o[o[k].parent].end
  BY <1>1 DEF Nested, IsRecording
<1>6. p # 0 => p \in 1..L /\ o[p].kind = "lap" /\ o[p].parent = 0
  <2>1. p # 0 => runs[n + 1].node \in LoopNodes
    OBVIOUS
  <2>2. p # 0 => p \in 1..L /\ o[p].kind = "lap"
    BY <1>3, <2>1
  <2> QED
    BY <1>3, <2>2
<1>7. s2[n + 1] = me /\ \A i \in 1..n : s2[i] = s[i]
  OBVIOUS
<1>8. rec.time = t + c + 1
  OBVIOUS
<1>9. runs[n + 1].node \in LoopNodes => PlansTo(runs, n + 1) \in 1..m /\ p = open.laps[PlansTo(runs, n + 1)]
  OBVIOUS
<1>10. (runs[n + 1].node \notin LoopNodes => p = 0) /\ \A i \in 1..n : runs[i].calls \in Nat
  OBVIOUS
<1> HIDE DEF s2, o, q, L, c, t
<1>11. \A k \in 1..N : k = me \/ k \in 1..L \/ k \in me + 1..N
  BY <1>1
<1>12. /\ me \in 1..N /\ me \in Int /\ N \in Nat
       /\ \A k \in 1..L : k \in 1..N /\ k < me
       /\ \A k \in me + 1..N : k \in 1..N /\ k \in Int /\ me < k
  BY <1>1
<1> HIDE DEF me, N
<1>13. LapsShown(rec, m)
  <2>1. ASSUME NEW l \in 1..m
        PROVE  open.laps[l] \in 1..N /\ q[open.laps[l]].kind = "lap" /\ q[open.laps[l]].of = l
    <3>1. PICK e \in 1..L : e = open.laps[l] /\ o[e].kind = "lap" /\ o[e].of = l
      BY <1>3, <2>1
    <3>2. e \in 1..N /\ q[e].kind = "lap" /\ q[e].of = l
      BY <1>2, <1>12, <3>1
    <3> QED
      BY <3>1, <3>2
  <2>2. ASSUME NEW k \in 1..N, q[k].kind = "lap"
        PROVE  q[k].of \in 1..m /\ open.laps[q[k].of] = k /\ q[k].parent = 0
    <3>1. k \in 1..L
      BY <1>2, <1>11, <2>2
    <3>2. /\ q[k].kind = o[k].kind /\ q[k].of = o[k].of /\ q[k].parent = o[k].parent
      BY <1>2, <3>1
    <3>3. o[k].of \in 1..m /\ open.laps[o[k].of] = k /\ o[k].parent = 0
      BY <1>3, <2>2, <3>1, <3>2
    <3> QED
      BY <3>2, <3>3
  <2>3. rec.laps = open.laps
    OBVIOUS
  <2>4. Len(rec.obs) = N /\ rec.laps = [l \in 1..m |-> rec.laps[l]]
    BY <1>2, <1>3, <2>3 DEF q
  <2>5. \A l \in 1..m : rec.laps[l] \in 1..N /\ rec.obs[rec.laps[l]].kind = "lap" /\ rec.obs[rec.laps[l]].of = l
    BY <2>1, <2>3 DEF q
  <2>6. \A k \in 1..N : rec.obs[k].kind = "lap" =>
            rec.obs[k].of \in 1..m /\ rec.laps[rec.obs[k].of] = k /\ rec.obs[k].parent = 0
    BY <2>2, <2>3 DEF q
  <2> HIDE DEF q
  <2> QED
    BY <2>4, <2>5, <2>6, Zenon DEF LapsShown
<1>14. NodesShown(rec, runs, n + 1, s2, m)
  <2> DEFINE Node(i) == /\ s2[i] \in 1..N /\ q[s2[i]].kind = "node" /\ q[s2[i]].of = i
                        /\ runs[i].node \in LoopNodes =>
                            PlansTo(runs, i) \in 1..m /\ q[s2[i]].parent = open.laps[PlansTo(runs, i)]
                        /\ runs[i].node \notin LoopNodes => q[s2[i]].parent = 0
                        /\ s2[i] + runs[i].calls <= N
             Calls(i) == \A k \in 1..N :
                            q[k].kind = "generation" /\ q[k].parent = s2[i] <=> k \in s2[i] + 1..s2[i] + runs[i].calls
  <2>1. ASSUME NEW i \in 1..n
        PROVE  Node(i) /\ Calls(i)
    <3>1. /\ s[i] \in 1..L /\ o[s[i]].kind = "node" /\ o[s[i]].of = i
          /\ runs[i].node \in LoopNodes => PlansTo(runs, i) \in 1..m /\ o[s[i]].parent = open.laps[PlansTo(runs, i)]
          /\ runs[i].node \notin LoopNodes => o[s[i]].parent = 0
          /\ s[i] + runs[i].calls <= L
      BY <1>4, <2>1
    <3>2. s2[i] = s[i] /\ runs[i].calls \in Nat
      BY <1>7, <1>10, <2>1
    <3>3. L <= N /\ s[i] \in 1..N /\ s[i] < me /\ s[i] + runs[i].calls < me
      BY <1>1, <1>12, <3>1, <3>2, SMTT(30) DEF me, N
    <3>4. s[i] + runs[i].calls <= N
      BY <1>1, <3>1, <3>2, <3>3, SMTT(30) DEF N, me
    <3>5. Node(i)
      BY <1>2, <3>1, <3>2, <3>3, <3>4, SMTT(30)
    <3>6. ASSUME NEW k \in 1..N
          PROVE  q[k].kind = "generation" /\ q[k].parent = s[i] <=> k \in s[i] + 1..s[i] + runs[i].calls
      <4>1. CASE k \in 1..L
        <5>1. q[k].kind = o[k].kind /\ q[k].parent = o[k].parent
          BY <1>2, <4>1
        <5>2. o[k].kind = "generation" /\ o[k].parent = s[i] <=> k \in s[i] + 1..s[i] + runs[i].calls
          BY <1>4, <2>1, <4>1
        <5> QED
          BY <5>1, <5>2
      <4>2. CASE k = me
        <5>1. q[k].kind # "generation"
          BY <1>2, <4>2
        <5>2. ~(k <= s[i] + runs[i].calls)
          BY <1>12, <3>1, <3>2, <3>3, <4>2, SMTT(30)
        <5> QED
          BY <5>1, <5>2
      <4>3. CASE k \in me + 1..N
        <5>1. q[k].parent = me /\ me # s[i]
          BY <1>2, <1>12, <3>1, <3>3, <4>3, SMTT(30)
        <5>2. ~(k <= s[i] + runs[i].calls)
          BY <1>12, <3>1, <3>2, <3>3, <4>3, SMTT(30)
        <5> QED
          BY <5>1, <5>2
      <4> QED
        BY <1>11, <3>6, <4>1, <4>2, <4>3
    <3> QED
      BY <3>2, <3>5, <3>6
  <2>2. Node(n + 1)
    <3>1. me + c <= N
      BY <1>1 DEF N, me
    <3> QED
      BY <1>2, <1>7, <1>9, <1>10, <1>12, <3>1 DEF c
  <2>3. Calls(n + 1)
    <3> SUFFICES ASSUME NEW k \in 1..N
                 PROVE  q[k].kind = "generation" /\ q[k].parent = me <=> k \in me + 1..me + c
      BY <1>7 DEF c
    <3>1. CASE k \in 1..L
      <4>1. q[k].parent = o[k].parent /\ o[k].parent \in 0..k - 1 /\ k < me
        BY <1>2, <1>5, <1>12, <3>1
      <4>2. q[k].parent # me /\ ~(me + 1 <= k)
        BY <1>12, <4>1
      <4> QED
        BY <4>2
    <3>2. CASE k = me
      <4>1. ~(me + 1 <= me)
        BY <1>12
      <4> QED
        BY <1>2, <3>2, <4>1
    <3>3. CASE k \in me + 1..N
      BY <1>2, <3>3 DEF N
    <3> QED
      BY <1>11, <3>1, <3>2, <3>3
  <2>4. ASSUME NEW k \in 1..N, q[k].kind = "node"
        PROVE  q[k].of \in 1..n + 1 /\ s2[q[k].of] = k
    <3>1. CASE k \in 1..L
      <4>1. q[k].of = o[k].of /\ o[k].of \in 1..n /\ s[o[k].of] = k
        <5>1. q[k].of = o[k].of /\ q[k].kind = o[k].kind
          BY <1>2, <3>1
        <5> QED
          BY <1>4, <2>4, <3>1, <5>1
      <4> QED
        BY <1>7, <4>1
    <3>2. CASE k = me
      BY <1>2, <1>7, <3>2
    <3>3. CASE k \in me + 1..N
      BY <1>2, <2>4, <3>3
    <3> QED
      BY <1>11, <3>1, <3>2, <3>3
  <2>5. \A i \in 1..n + 1 : i = n + 1 \/ i \in 1..n
    OBVIOUS
  <2> HIDE DEF Node, Calls
  <2>6. \A i \in 1..n + 1 : Node(i) /\ Calls(i)
    BY <2>1, <2>2, <2>3, <2>5
  <2>7. rec.laps = open.laps /\ Len(rec.obs) = N
    BY <1>2 DEF q
  <2> QED
    BY <2>4, <2>6, <2>7 DEF NodesShown, q, Node, Calls
<1>15. Nested(rec)
  <2> SUFFICES ASSUME NEW k \in 1..N
               PROVE  /\ q[k].parent \in 0..k - 1 /\ q[k].start <= q[k].end /\ q[k].end <= t + c + 1
                      /\ q[k].parent # 0 => q[q[k].parent].start <= q[k].start /\ q[k].end <= q[q[k].parent].end
    BY <1>2, <1>8, Zenon DEF Nested, q
  <2>1. CASE k \in 1..L
    <3>1. /\ o[k].parent \in 0..k - 1 /\ o[k].start <= o[k].end /\ o[k].end <= t
          /\ o[k].parent # 0 => o[o[k].parent].start <= o[k].start /\ o[k].end <= o[o[k].parent].end
          /\ o[k].start \in Int /\ o[k].end \in Int
      BY <1>5, <2>1 DEF TraceObs
    <3>2. q[k].parent = o[k].parent /\ q[k].start = o[k].start /\ q[k].end = IF k = p THEN t + c + 1 ELSE o[k].end
      BY <1>2, <2>1
    <3>3. CASE k = p
      <4>1. o[k].parent = 0
        BY <1>1, <1>6, <2>1, <3>3
      <4> QED
        BY <1>1, <3>1, <3>2, <3>3, <4>1
    <3>4. CASE k # p
      <4> DEFINE u == o[k].parent
      <4>1. CASE u = 0
        BY <1>1, <3>1, <3>2, <3>4, <4>1
      <4>2. CASE u # 0
        <5>1. u \in 1..L
          <6>1. u \in 0..k - 1 /\ L \in Nat
            BY <1>1, <3>1
          <6> HIDE DEF u
          <6> QED
            BY <2>1, <4>2, <6>1
        <5>2. o[u].end \in Int /\ o[u].end <= t
          BY <1>5, <5>1 DEF TraceObs
        <5>3. q[u].start = o[u].start /\ q[u].end = IF u = p THEN t + c + 1 ELSE o[u].end
          BY <1>2, <5>1
        <5> HIDE DEF u
        <5>4. o[u].start <= o[k].start /\ o[k].end <= o[u].end /\ o[k].parent = u
          BY <3>1, <4>2 DEF u
        <5>5. q[k].end <= q[u].end
          BY <1>1, <3>1, <3>2, <3>4, <5>2, <5>3, <5>4
        <5> QED
          BY <1>1, <3>1, <3>2, <3>4, <5>3, <5>4, <5>5
      <4> QED
        BY <4>1, <4>2
    <3> QED
      BY <3>3, <3>4
  <2>2. CASE k = me
    <3>1. q[k].parent = p /\ q[k].start = t /\ q[k].end = t + c + 1 /\ p \in 0..k - 1
      BY <1>1, <1>2, <2>2 DEF me
    <3>2. p # 0 => q[p].start <= t /\ q[p].end = t + c + 1
      <4>1. p # 0 => /\ o[p].start <= o[p].end /\ o[p].end <= t /\ o[p] \in TraceObs
                     /\ q[p].start = o[p].start /\ q[p].end = t + c + 1
        BY <1>2, <1>5, <1>6
      <4> QED
        BY <1>1, <4>1, SMTT(30) DEF TraceObs
    <3> QED
      BY <1>1, <3>1, <3>2
  <2>3. CASE k \in me + 1..N
    <3>1. /\ q[k].parent = me /\ q[k].start = t + (k - me) /\ q[k].end = t + (k - me)
          /\ q[me].start = t /\ q[me].end = t + c + 1
      BY <1>2, <2>3
    <3>2. k - me \in 1..c /\ me \in 0..k - 1 /\ k \in Int
      BY <1>1, <2>3, SMTT(30) DEF N, me
    <3>3. t + (k - me) \in Int /\ t <= t + (k - me) /\ t + (k - me) <= t + c + 1
      <4>1. \A j \in 1..c : t + j \in Int /\ t <= t + j /\ t + j <= t + c + 1
        BY <1>1
      <4> QED
        BY <3>2, <4>1, Zenon
    <3> QED
      BY <3>1, <3>2, <3>3
  <2> QED
    BY <1>11, <2>1, <2>2, <2>3
<1> QED
  BY <1>13, <1>14, <1>15 DEF Shown

\* Laps are counted by their plans.
LEMMA OnePlanMore ==
    ASSUME NEW runs, NEW n \in Nat
    PROVE  /\ PlansTo(runs, 0) = 0 /\ PlansTo(runs, n) \in Nat
           /\ PlansTo(runs, n + 1) = PlansTo(runs, n) + (IF runs[n + 1].node = "plan" THEN 1 ELSE 0)
<1> DEFINE S == {j \in 1..n : runs[j].node = "plan"}
           T == {j \in 1..n + 1 : runs[j].node = "plan"}
<1>1. {j \in 1..0 : runs[j].node = "plan"} = {}
  OBVIOUS
<1>2. IsFiniteSet(S)
  <2>1. IsFiniteSet(1..n) /\ S \in SUBSET (1..n)
    BY FS_Interval
  <2> HIDE DEF S
  <2> QED
    BY <2>1, FS_Subset
<1>3. T = IF runs[n + 1].node = "plan" THEN S \cup {n + 1} ELSE S
  <2>1. \A j : j \in 1..n + 1 <=> j \in 1..n \/ j = n + 1
    OBVIOUS
  <2> QED
    BY <2>1
<1>4. n + 1 \notin S
  OBVIOUS
<1>5. PlansTo(runs, n) = Cardinality(S) /\ PlansTo(runs, n + 1) = Cardinality(T) /\ PlansTo(runs, 0) = Cardinality({})
  BY <1>1 DEF PlansTo
<1> HIDE DEF S, T
<1>6. Cardinality(S) \in Nat
  BY <1>2, FS_CardinalityType
<1>7. Cardinality(S \cup {n + 1}) = Cardinality(S) + 1
  BY <1>2, <1>4, FS_AddElement
<1>8. Cardinality({}) = 0
  BY FS_EmptySet
<1> QED
  BY <1>3, <1>5, <1>6, <1>7, <1>8

LEMMA TracedKeeps ==
    ASSUME NEW rec, NEW runs, NEW n \in Nat, NEW s, \A i \in 1..n + 1 : runs[i] \in NodeRun,
           runs[n + 1].node = "plan" => runs[n + 1].iteration = PlansTo(runs, n + 1) - 1,
           runs[n + 1].node \in LoopNodes \ {"plan"} =>
                PlansTo(runs, n + 1) > 0 /\ runs[n + 1].iteration = PlansTo(runs, n + 1),
           Shown(rec, runs, n, s, PlansTo(runs, n))
    PROVE  LET shown == Traced(rec, runs[n + 1], n + 1)
           IN  /\ \E s2 : Shown(shown, runs, n + 1, s2, PlansTo(runs, n + 1))
               /\ rec.nodeErrors \subseteq shown.nodeErrors
               /\ runs[n + 1].end = "fellback" => shown.nodeErrors # {}
<1> DEFINE run == runs[n + 1]
           m == PlansTo(runs, n)
           l == PlansTo(runs, n + 1)
           looped == run.node \in LoopNodes
           open == IF looped THEN WithLap(rec, LapOf(run)) ELSE rec
           p == IF looped THEN open.laps[LapOf(run)] ELSE 0
           level == IF run.end = "error" THEN "ERROR" ELSE "DEFAULT"
           running == [open EXCEPT !.obs = Append(@, Obs("node", n + 1, p, open.time, level))]
           me == Len(open.obs) + 1
           done == Ended([WithCalls(running, me, run.calls) EXCEPT !.time = @ + 1,
                       !.nodeErrors = @ \cup (IF run.end = "fellback" THEN {run.node} ELSE {})], me)
           shown == IF p = 0 THEN done ELSE Ended(done, p)
<1>1. /\ m \in Nat /\ l = m + (IF run.node = "plan" THEN 1 ELSE 0) /\ run \in NodeRun
      /\ \A i \in 1..n + 1 : runs[i].calls \in Nat
  BY OnePlanMore DEF NodeRun
<1>2. looped => LapOf(run) = l /\ l \in 1..m + 1 /\ (l = m + 1 <=> run.node = "plan")
  BY <1>1 DEF LapOf, LoopNodes, NodeRun
<1>3. Shown(rec, runs, n, s, m)
  OBVIOUS
<1>4. /\ Shown(open, runs, n, s, l) /\ open.nodeErrors = rec.nodeErrors
  <2>1. CASE looped /\ run.node = "plan"
    <3>1. open = WithLap(rec, m + 1) /\ l = m + 1
      BY <1>1, <1>2, <2>1
    <3>2. \A i \in 1..n : runs[i].calls \in Nat
      BY <1>1
    <3> HIDE DEF open, m, l
    <3>3. Shown(WithLap(rec, m + 1), runs, n, s, m + 1) /\ WithLap(rec, m + 1).nodeErrors = rec.nodeErrors
      BY <1>1, <1>3, <3>2, LapAdded
    <3> QED
      BY <3>1, <3>3
  <2>2. CASE looped /\ run.node # "plan"
    <3>1. l = m /\ l \in 1..m /\ LapOf(run) = l
      BY <1>1, <1>2, <2>2
    <3>2. DOMAIN rec.laps = 1..m
      BY <1>3 DEF Shown, LapsShown
    <3>3. open = rec
      BY <2>2, <3>1, <3>2 DEF WithLap
    <3> QED
      BY <1>3, <3>1, <3>3
  <2>3. CASE ~looped
    <3>1. open = rec /\ l = m
      BY <1>1, <2>3 DEF LoopNodes
    <3> QED
      BY <1>3, <3>1
  <2> QED
    BY <2>1, <2>2, <2>3
<1>5. Traced(rec, run, n + 1) = IF looped THEN Ended(done, p) ELSE done
  BY ZenonT(30) DEF Traced
<1> HIDE DEF open
<1>6. looped => l \in 1..l /\ p = open.laps[l]
  <2>1. looped => l \in 1..l
    BY <1>1, <1>2
  <2> QED
    BY <1>2, <2>1
<1>7. p \in 0..Len(open.obs) /\ (looped <=> p # 0)
  <2>1. Len(open.obs) \in Nat /\ \A k \in 1..l : open.laps[k] \in 1..Len(open.obs)
    BY <1>4 DEF Shown, LapsShown, IsRecording
  <2>2. CASE looped
    <3>1. p \in 1..Len(open.obs)
      BY <1>6, <2>1, <2>2
    <3> QED
      BY <2>1, <2>2, <3>1
  <2>3. CASE ~looped
    BY <2>1, <2>3
  <2> QED
    BY <2>2, <2>3
<1> HIDE DEF p
<1>8. Traced(rec, run, n + 1) = shown
  BY <1>5, <1>7
<1>9. IsRecording(open) /\ n + 1 \in Int
  BY <1>4 DEF Shown
<1>10. /\ NodeAdded(shown.obs, open.obs, p, n + 1, run.calls, open.time)
       /\ IsRecording(shown) /\ shown.laps = open.laps /\ shown.time = open.time + run.calls + 1
       /\ open.nodeErrors \subseteq shown.nodeErrors
       /\ run.end = "fellback" => shown.nodeErrors # {}
  <2> HIDE DEF run
  <2> QED
    BY <1>1, <1>7, <1>9, NodeTraced, ZenonT(30)
<1> HIDE DEF shown
<1>11. looped => l \in 1..l /\ p = open.laps[l]
  BY <1>6
<1>12. ~looped => p = 0
  BY <1>7
<1>13. l \in Nat
  BY <1>1
<1>14. \E s2 : Shown(shown, runs, n + 1, s2, l)
  BY <1>1, <1>4, <1>7, <1>10, <1>11, <1>12, <1>13, NodeKeeps
<1> QED
  BY <1>4, <1>8, <1>10, <1>14

LEMMA RecordingsStep ==
    ASSUME NEW runs \in Seq(NodeRun)
    PROVE  /\ Recordings(runs)[0] = Empty
           /\ \A n \in 1..Len(runs) : Recordings(runs)[n] = Traced(Recordings(runs)[n - 1], runs[n], n)
<1> DEFINE N == Len(runs)
           Rec(g, n) == g = [k \in 0..n |-> IF k = 0 THEN Empty ELSE Traced(g[k - 1], runs[k], k)]
           S == {n \in Nat : \E g : Rec(g, n)}
<1>1. N \in Nat
  OBVIOUS
<1>2. 0 \in S
  <2> DEFINE g == [k \in 0..0 |-> Empty]
  <2>1. g = [k \in 0..0 |-> IF k = 0 THEN Empty ELSE Traced(g[k - 1], runs[k], k)]
    OBVIOUS
  <2> QED
    BY <2>1
<1>3. ASSUME NEW n \in Nat, n \in S
      PROVE  n + 1 \in S
  <2>1. PICK g : Rec(g, n)
    BY <1>3
  <2> DEFINE h == [k \in 0..n + 1 |-> IF k = n + 1 THEN Traced(g[n], runs[n + 1], n + 1) ELSE g[k]]
  <2>2. \A k \in 0..n : h[k] = g[k]
    OBVIOUS
  <2>3. \A k \in 0..n : g[k] = IF k = 0 THEN Empty ELSE Traced(g[k - 1], runs[k], k)
    BY <2>1
  <2>4. \A k \in 0..n + 1 : h[k] = IF k = 0 THEN Empty ELSE Traced(h[k - 1], runs[k], k)
    <3> SUFFICES ASSUME NEW k \in 0..n + 1
                 PROVE  h[k] = IF k = 0 THEN Empty ELSE Traced(h[k - 1], runs[k], k)
      OBVIOUS
    <3>1. CASE k = n + 1
      <4>1. h[k] = Traced(g[n], runs[n + 1], n + 1) /\ h[k - 1] = g[n] /\ k # 0
        BY <3>1
      <4> QED
        BY <3>1, <4>1
    <3>2. CASE k \in 0..n
      <4>1. k # 0 => k - 1 \in 0..n
        BY <3>2
      <4> QED
        BY <2>2, <2>3, <3>2, <4>1
    <3> QED
      BY <3>1, <3>2
  <2>5. Rec(h, n + 1)
    <3>1. h = [k \in 0..n + 1 |-> h[k]]
      OBVIOUS
    <3> HIDE DEF h
    <3> QED
      BY <2>4, <3>1
  <2> HIDE DEF h, Rec
  <2>6. \E f : Rec(f, n + 1)
    BY <2>5
  <2> QED
    BY <2>6
<1>4. PICK g : Rec(g, N)
  <2>1. \A k \in 0..N : k < N /\ k \in S => k + 1 \in S
    BY <1>3
  <2> HIDE DEF S
  <2>2. \A k \in 0..N : k \in S
    BY <1>1, <1>2, <2>1, OneByOne
  <2>3. N \in S
    BY <1>1, <2>2
  <2> QED
    BY <2>3 DEF S
<1>5. Recordings(runs) = CHOOSE rec : Rec(rec, N)
  BY Zenon DEF Recordings
<1>6. Rec(Recordings(runs), N)
  BY <1>4, <1>5
<1> QED
  BY <1>1, <1>6

LEMMA RecordingShown ==
    ASSUME NEW runs, NEW stop, TurnOfLaps(runs, stop)
    PROVE  \A n \in 0..Len(runs) :
            /\ \E s : Shown(Recordings(runs)[n], runs, n, s, PlansTo(runs, n))
            /\ \A i \in 1..n : runs[i].end = "fellback" => Recordings(runs)[n].nodeErrors # {}
<1> DEFINE N == Len(runs)
           rec == Recordings(runs)
           Holds(n) == /\ \E s : Shown(rec[n], runs, n, s, PlansTo(runs, n))
                       /\ \A i \in 1..n : runs[i].end = "fellback" => rec[n].nodeErrors # {}
           S == {n \in 0..N : Holds(n)}
<1> SUFFICES \A n \in 0..N : Holds(n)
  OBVIOUS
<1>1. runs \in Seq(NodeRun) /\ N \in Nat /\ \A i \in 1..N : runs[i] \in NodeRun
  BY DEF TurnOfLaps
<1>2. rec[0] = Empty /\ \A n \in 1..N : rec[n] = Traced(rec[n - 1], runs[n], n)
  BY <1>1, RecordingsStep
<1>3. \A i \in 1..N :
        /\ runs[i].node = "plan" => runs[i].iteration = PlansTo(runs, i) - 1
        /\ runs[i].node \in LoopNodes \ {"plan"} => PlansTo(runs, i) > 0 /\ runs[i].iteration = PlansTo(runs, i)
  BY DEF TurnOfLaps, PlansTo
<1> HIDE DEF rec
<1>4. Holds(0)
  <2>1. /\ rec[0].obs = <<>> /\ rec[0].laps = <<>> /\ rec[0].time = 0
        /\ rec[0] = [obs |-> rec[0].obs, laps |-> rec[0].laps, time |-> rec[0].time, nodeErrors |-> rec[0].nodeErrors]
    BY <1>2 DEF Empty
  <2>2. PlansTo(runs, 0) = 0
    BY OnePlanMore
  <2>3. Len(rec[0].obs) = 0 /\ rec[0].obs \in Seq(TraceObs) /\ 1..0 = {}
    BY <2>1
  <2>4. rec[0].laps = [l \in 1..0 |-> rec[0].laps[l]]
    <3>1. DOMAIN (<<>>) = 1..0 /\ <<>> = [l \in 1..0 |-> (<<>>)[l]]
      OBVIOUS
    <3> QED
      BY <2>1, <3>1
  <2>5. IsRecording(rec[0]) /\ LapsShown(rec[0], 0) /\ NodesShown(rec[0], runs, 0, <<>>, 0) /\ Nested(rec[0])
    BY <2>1, <2>3, <2>4 DEF IsRecording, LapsShown, NodesShown, Nested
  <2>6. Shown(rec[0], runs, 0, <<>>, PlansTo(runs, 0))
    BY <2>2, <2>5 DEF Shown
  <2> QED
    BY <2>3, <2>6
<1>5. ASSUME NEW k \in 0..N, k < N, Holds(k)
      PROVE  Holds(k + 1)
  <2>1. k \in Nat /\ k + 1 \in 1..N /\ \A i \in 1..k + 1 : i \in 1..N /\ (i \in 1..k \/ i = k + 1)
    BY <1>1, <1>5
  <2>2. PICK s : Shown(rec[k], runs, k, s, PlansTo(runs, k))
    BY <1>5
  <2>3. rec[k + 1] = Traced(rec[k], runs[k + 1], k + 1)
    <3>1. (k + 1) - 1 = k
      BY <2>1
    <3> QED
      BY <1>2, <2>1, <3>1
  <2>4. /\ \A i \in 1..k + 1 : runs[i] \in NodeRun
        /\ runs[k + 1].node = "plan" => runs[k + 1].iteration = PlansTo(runs, k + 1) - 1
        /\ runs[k + 1].node \in LoopNodes \ {"plan"} =>
             PlansTo(runs, k + 1) > 0 /\ runs[k + 1].iteration = PlansTo(runs, k + 1)
    BY <1>1, <1>3, <2>1
  <2>5. /\ \E s2 : Shown(rec[k + 1], runs, k + 1, s2, PlansTo(runs, k + 1))
        /\ rec[k].nodeErrors \subseteq rec[k + 1].nodeErrors
        /\ runs[k + 1].end = "fellback" => rec[k + 1].nodeErrors # {}
    BY <2>1, <2>2, <2>3, <2>4, TracedKeeps
  <2>6. \A i \in 1..k : runs[i].end = "fellback" => rec[k].nodeErrors # {}
    BY <1>5
  <2>7. \A i \in 1..k + 1 : runs[i].end = "fellback" => rec[k + 1].nodeErrors # {}
    BY <2>1, <2>5, <2>6
  <2> QED
    BY <2>5, <2>7
<1> HIDE DEF Holds
<1>6. 0 \in S /\ \A k \in 0..N : k < N /\ k \in S => k + 1 \in S
  BY <1>1, <1>4, <1>5
<1> HIDE DEF S
<1>7. \A n \in 0..N : n \in S
  BY <1>1, <1>6, OneByOne
<1> QED
  BY <1>7 DEF S

\* What is sent of a recording is what was recorded: a parent comes before it.
LEMMA SentAsRecorded ==
    ASSUME NEW rec, IsRecording(rec), Nested(rec)
    PROVE  /\ Len(Sent(rec)) = Len(rec.obs)
           /\ \A k \in 1..Len(rec.obs) :
                /\ Sent(rec)[k].kind = rec.obs[k].kind /\ Sent(rec)[k].of = rec.obs[k].of
                /\ Sent(rec)[k].parent = rec.obs[k].parent
                /\ Sent(rec)[k].start = rec.obs[k].start /\ Sent(rec)[k].end = rec.obs[k].end
<1> DEFINE L == Len(rec.obs)
           sent == Sent(rec)
<1>1. L \in Nat /\ \A k \in 1..L : rec.obs[k] \in TraceObs /\ rec.obs[k].parent \in 0..k - 1
  BY DEF IsRecording, Nested
<1>2. sent = [k \in 1..L |-> [rec.obs[k] EXCEPT !.parent = IF @ \in 1..k - 1 THEN @ ELSE 0]]
  BY DEF Sent
<1>3. sent = [k \in 1..L |-> sent[k]]
  BY <1>2
<1>4. ASSUME NEW k \in 1..L
      PROVE  /\ sent[k].kind = rec.obs[k].kind /\ sent[k].of = rec.obs[k].of
             /\ sent[k].parent = rec.obs[k].parent
             /\ sent[k].start = rec.obs[k].start /\ sent[k].end = rec.obs[k].end
  <2> DEFINE o == rec.obs[k]
  <2>1. sent[k] = [o EXCEPT !.parent = IF o.parent \in 1..k - 1 THEN o.parent ELSE 0]
    BY <1>2, <1>4
  <2>2. (IF o.parent \in 1..k - 1 THEN o.parent ELSE 0) = o.parent
    BY <1>1, <1>4
  <2>3. o \in TraceObs
    BY <1>1, <1>4
  <2> HIDE DEF sent, o
  <2>4. sent[k] = [o EXCEPT !.parent = o.parent]
    BY <2>1, <2>2
  <2>5. sent[k] = o
    BY <2>3, <2>4 DEF TraceObs
  <2> QED
    BY <2>5 DEF o
<1> HIDE DEF sent
<1>5. Len(sent) = L
  BY <1>1, <1>3
<1> QED
  BY <1>4, <1>5 DEF sent

LEMMA TurnShown ==
    ASSUME NEW runs, NEW stop, TurnOfLaps(runs, stop)
    PROVE  TraceShowsTurn(runs)
<1> DEFINE N == Len(runs)
           rec == Recording(runs)
           M == PlansTo(runs, N)
           sent == Sent(rec)
           L == Len(rec.obs)
           at(kind) == {k \in 1..Len(sent) : sent[k].kind = kind}
           span(i) == CHOOSE k \in at("node") : sent[k].of = i
           nodes(i) == {k \in at("node") : sent[k].of = i}
           calls(i) == {k \in at("generation") : sent[k].parent = span(i)}
<1> SUFFICES
      /\ \A i \in 1..N :
          /\ Cardinality(nodes(i)) = 1
          /\ Cardinality(calls(i)) = runs[i].calls
          /\ runs[i].node \in LoopNodes =>
              /\ sent[span(i)].parent \in at("lap")
              /\ sent[sent[span(i)].parent].of = PlansTo(runs, i)
          /\ runs[i].node \notin LoopNodes => sent[span(i)].parent = 0
      /\ Cardinality(at("lap")) = M
      /\ \A k \in 1..Len(sent) : sent[k].parent # 0 =>
          /\ sent[sent[k].parent].start <= sent[k].start
          /\ sent[k].end <= sent[sent[k].parent].end
  BY DEF TraceShowsTurn, PlansTo
<1>1. N \in Nat /\ runs \in Seq(NodeRun) /\ \A i \in 1..N : runs[i].calls \in Nat
  <2>1. runs \in Seq(NodeRun) /\ \A run \in NodeRun : run.calls \in Nat
    BY DEF TurnOfLaps, NodeRun
  <2> QED
    BY <2>1
<1>2. M \in Nat
  BY <1>1, OnePlanMore
<1>3. PICK s : Shown(rec, runs, N, s, M)
  BY <1>1, RecordingShown DEF Recording
<1> HIDE DEF rec
<1>4. IsRecording(rec) /\ LapsShown(rec, M) /\ NodesShown(rec, runs, N, s, M) /\ Nested(rec)
  BY <1>3 DEF Shown
<1>5. L \in Nat
  BY <1>4 DEF IsRecording
<1>6. /\ Len(sent) = L
      /\ \A k \in 1..L :
          /\ sent[k].kind = rec.obs[k].kind /\ sent[k].of = rec.obs[k].of /\ sent[k].parent = rec.obs[k].parent
          /\ sent[k].start = rec.obs[k].start /\ sent[k].end = rec.obs[k].end
  BY <1>4, SentAsRecorded
<1> HIDE DEF sent
<1>7. \A kind : at(kind) = {k \in 1..L : rec.obs[k].kind = kind}
  BY <1>6
<1> HIDE DEF at
<1>8. \A kind : \A k : k \in at(kind) <=> k \in 1..L /\ rec.obs[k].kind = kind
  BY <1>7
<1>9. ASSUME NEW i \in 1..N
      PROVE  /\ Cardinality(nodes(i)) = 1
             /\ Cardinality(calls(i)) = runs[i].calls
             /\ runs[i].node \in LoopNodes =>
                 /\ sent[span(i)].parent \in at("lap")
                 /\ sent[sent[span(i)].parent].of = PlansTo(runs, i)
             /\ runs[i].node \notin LoopNodes => sent[span(i)].parent = 0
  <2>1. /\ s[i] \in 1..L /\ rec.obs[s[i]].kind = "node" /\ rec.obs[s[i]].of = i
        /\ runs[i].node \in LoopNodes => PlansTo(runs, i) \in 1..M /\ rec.obs[s[i]].parent = rec.laps[PlansTo(runs, i)]
        /\ runs[i].node \notin LoopNodes => rec.obs[s[i]].parent = 0
        /\ s[i] + runs[i].calls <= L
    BY <1>4, <1>9 DEF NodesShown
  <2>2. \A k \in 1..L : rec.obs[k].kind = "generation" /\ rec.obs[k].parent = s[i] <=> k \in s[i] + 1..s[i] + runs[i].calls
    BY <1>4, <1>9 DEF NodesShown
  <2>3. \A k \in 1..L : rec.obs[k].kind = "node" /\ rec.obs[k].of = i => s[i] = k
    BY <1>4 DEF NodesShown
  <2>4. \A k \in at("node") : sent[k].of = i <=> k = s[i]
    BY <1>6, <1>8, <2>1, <2>3
  <2>5. s[i] \in at("node")
    BY <1>8, <2>1
  <2>6. nodes(i) = {s[i]} /\ span(i) = s[i]
    BY <2>4, <2>5
  <2>7. Cardinality(nodes(i)) = 1
    BY <2>6, FS_Singleton
  <2> HIDE DEF span
  <2>8. calls(i) = s[i] + 1..s[i] + runs[i].calls
    <3>1. \A k : k \in calls(i) <=> k \in 1..L /\ rec.obs[k].kind = "generation" /\ rec.obs[k].parent = s[i]
      BY <1>6, <1>8, <2>6
    <3>2. \A k \in s[i] + 1..s[i] + runs[i].calls : k \in 1..L
      BY <1>1, <1>5, <2>1
    <3> HIDE DEF calls
    <3> QED
      BY <2>2, <3>1, <3>2
  <2>9. Cardinality(calls(i)) = runs[i].calls
    <3>1. runs[i].calls \in Nat /\ s[i] \in Int
      BY <1>1, <2>1
    <3>2. Cardinality(s[i] + 1..s[i] + runs[i].calls) =
            IF s[i] + 1 > s[i] + runs[i].calls THEN 0 ELSE (s[i] + runs[i].calls) - (s[i] + 1) + 1
      <4>1. s[i] + 1 \in Int /\ s[i] + runs[i].calls \in Int
        BY <3>1
      <4> QED
        BY <4>1, FS_Interval
    <3>3. Cardinality(calls(i)) = Cardinality(s[i] + 1..s[i] + runs[i].calls)
      BY <2>8
    <3> HIDE DEF calls
    <3> QED
      BY <3>1, <3>2, <3>3
  <2>10. ASSUME runs[i].node \in LoopNodes
         PROVE  sent[span(i)].parent \in at("lap") /\ sent[sent[span(i)].parent].of = PlansTo(runs, i)
    <3>1. /\ sent[span(i)].parent = rec.laps[PlansTo(runs, i)] /\ PlansTo(runs, i) \in 1..M
      BY <1>6, <2>1, <2>6, <2>10
    <3>2. \A l \in 1..M : rec.laps[l] \in 1..L /\ rec.obs[rec.laps[l]].kind = "lap" /\ rec.obs[rec.laps[l]].of = l
      BY <1>4 DEF LapsShown
    <3> QED
      BY <1>6, <1>8, <3>1, <3>2
  <2>11. runs[i].node \notin LoopNodes => sent[span(i)].parent = 0
    BY <1>6, <2>1, <2>6
  <2> QED
    BY <2>7, <2>9, <2>10, <2>11
<1>10. Cardinality(at("lap")) = M
  <2>1. \A l \in 1..M : rec.laps[l] \in at("lap") /\ rec.obs[rec.laps[l]].of = l
    BY <1>4, <1>8 DEF LapsShown
  <2>2. \A k \in at("lap") : \E l \in 1..M : rec.laps[l] = k
    BY <1>4, <1>8 DEF LapsShown
  <2>3. IsFiniteSet(at("lap"))
    <3>1. IsFiniteSet(1..L) /\ at("lap") \in SUBSET (1..L)
      BY <1>5, <1>8, FS_Interval, SMTT(30)
    <3> QED
      BY <3>1, FS_Subset
  <2>4. \A k, l \in 1..M : rec.laps[k] = rec.laps[l] => k = l
    BY <2>1
  <2> DEFINE laps == at("lap")
  <2> HIDE DEF M, laps
  <2>5. Cardinality(laps) \in Nat /\ M <= Cardinality(laps)
    BY <1>2, <2>1, <2>3, <2>4, AtLeast DEF laps
  <2>6. 1 \in 1..M + 1
    BY <1>2
  <2>7. Cardinality(laps) <= M + 1 - 1
    BY <1>2, <2>2, <2>6, AtMost DEF laps
  <2> QED
    BY <1>2, <2>5, <2>7 DEF laps
<1>11. ASSUME NEW k \in 1..L, sent[k].parent # 0
       PROVE  sent[sent[k].parent].start <= sent[k].start /\ sent[k].end <= sent[sent[k].parent].end
  <2>1. /\ rec.obs[k].parent \in 0..k - 1
        /\ rec.obs[k].parent # 0 =>
            /\ rec.obs[rec.obs[k].parent].start <= rec.obs[k].start
            /\ rec.obs[k].end <= rec.obs[rec.obs[k].parent].end
    BY <1>4 DEF Nested
  <2>2. rec.obs[k].parent \in 1..L
    BY <1>5, <1>6, <1>11, <2>1
  <2> QED
    BY <1>6, <1>11, <2>1, <2>2
<1> HIDE DEF nodes, calls, span, L, M, N
<1> QED
  BY <1>6, <1>9, <1>10, <1>11

LEMMA FailuresShown ==
    ASSUME NEW runs, NEW stop, TurnOfLaps(runs, stop), NEW grounded, NEW limit \in BOOLEAN
    PROVE  FailuresAreSent(runs, Ending(runs, stop, grounded, limit))
<1> DEFINE N == Len(runs)
           rec == Recording(runs)
           ending == Ending(runs, stop, grounded, limit)
           last == runs[N].end
<1> SUFFICES ASSUME Finished(rec, ending, FALSE) = <<>>
             PROVE  /\ \A i \in 1..N : runs[i].end = "ok"
                    /\ ending.stop = "complete" /\ ending.grounded # "failed"
  BY DEF FailuresAreSent
<1>1. /\ N \in Nat /\ N >= 1 /\ \A i \in 1..N : runs[i] \in NodeRun
      /\ \A i \in 1..N - 1 : runs[i].end \in {"ok", "fellback"}
      /\ stop = "none" => last \in {"error", "cut"}
  BY DEF TurnOfLaps
<1>2. /\ \E s : Shown(rec, runs, N, s, PlansTo(runs, N))
      /\ \A i \in 1..N : runs[i].end = "fellback" => rec.nodeErrors # {}
  BY <1>1, RecordingShown DEF Recording
<1>3. /\ ending.stop = IF last = "cut" /\ limit THEN "timeout" ELSE stop
      /\ ending.error <=> last = "error" \/ (last = "cut" /\ ~limit)
      /\ ending.partial <=> (last = "cut" /\ limit) \/ stop \notin {"complete", "none"}
  BY DEF Ending
<1> HIDE DEF rec, ending
<1>4. Sent(rec) # <<>>
  <2>1. PICK s : Shown(rec, runs, N, s, PlansTo(runs, N))
    BY <1>2
  <2>2. IsRecording(rec) /\ Nested(rec) /\ s[1] \in 1..Len(rec.obs) /\ Len(rec.obs) \in Nat
    BY <1>1, <2>1 DEF Shown, NodesShown, IsRecording
  <2>3. Len(Sent(rec)) = Len(rec.obs)
    BY <2>2, SentAsRecorded
  <2> QED
    BY <2>2, <2>3
<1>5. ~IsFailure(rec, ending)
  BY <1>4 DEF Finished
<1>6. rec.nodeErrors = {} /\ ~ending.error /\ ending.grounded # "failed" /\ ~ending.partial
  BY <1>5 DEF IsFailure
<1>7. last \notin {"error", "cut"} /\ stop \in {"complete", "none"}
  BY <1>3, <1>6
<1>8. \A i \in 1..N : runs[i].end \in {"ok", "fellback"}
  <2>1. last \in {"ok", "fellback"}
    BY <1>1, <1>7 DEF NodeRun
  <2>2. \A i \in 1..N : i \in 1..N - 1 \/ i = N
    BY <1>1
  <2> QED
    BY <1>1, <2>1, <2>2
<1> QED
  BY <1>1, <1>2, <1>3, <1>6, <1>7, <1>8

\* Every turn can be read from what is sent of it, however many nodes it ran
\* and however it ended, and none in which something failed is left out
\* (traced, lap_span, record_generation, _export and is_failure).
THEOREM TurnsAreShown == WellFormed => TurnsAreTraced
<1> SUFFICES ASSUME WellFormed, IsInput("turn")
             PROVE  /\ TraceShowsTurn(input.runs)
                    /\ FailuresAreSent(input.runs, Ending(input.runs, input.stop, input.grounded, input.limit))
  BY DEF TurnsAreTraced
<1>1. TurnOfLaps(input.runs, input.stop) /\ input.limit \in BOOLEAN
  BY DEF WellFormed
<1> QED
  BY <1>1, TurnShown, FailuresShown

-----------------------------------------------------------------------------
(* Sorted sequences *)

StrictOrder(S, before) ==
    /\ \A x, y \in S : <<x, y>> \in before => <<y, x>> \notin before
    /\ \A x, y \in S : x = y \/ <<x, y>> \in before \/ <<y, x>> \in before
    /\ \A x, y, z \in S : <<x, y>> \in before /\ <<y, z>> \in before => <<x, z>> \in before

\* Ranks number the members of a strict order.
LEMMA OrderedSorts ==
    ASSUME NEW S, IsFiniteSet(S), NEW before, StrictOrder(S, before)
    PROVE  LET o == Ordered(S, before)
               n == Cardinality(S)
           IN  /\ n \in Nat /\ o = [k \in 1..n |-> o[k]]
               /\ \A k \in 1..n : o[k] \in S
               /\ \A x \in S : \E k \in 1..n : o[k] = x
               /\ \A k, l \in 1..n : k < l => <<o[k], o[l]>> \in before
<1> DEFINE o == Ordered(S, before)
           n == Cardinality(S)
           Before(x) == {y \in S : <<y, x>> \in before}
           rank(x) == Cardinality(Before(x))
           place == [x \in S |-> rank(x) + 1]
<1> SUFFICES /\ n \in Nat /\ o = [k \in 1..n |-> o[k]]
             /\ \A k \in 1..n : o[k] \in S
             /\ \A x \in S : \E k \in 1..n : o[k] = x
             /\ \A k, l \in 1..n : k < l => <<o[k], o[l]>> \in before
  OBVIOUS
<1>1. n \in Nat
  BY FS_CardinalityType
<1>2. ASSUME NEW x \in S
      PROVE  rank(x) \in 0..n - 1 /\ IsFiniteSet(Before(x))
  <2>1. Before(x) \in SUBSET S /\ x \notin Before(x)
    BY DEF StrictOrder
  <2> DEFINE B == Before(x)
  <2>2. B \in SUBSET S /\ x \notin B
    BY <2>1
  <2> HIDE DEF B
  <2>3. IsFiniteSet(B) /\ Cardinality(B) <= n /\ Cardinality(B) # n
    BY <1>2, <2>2, FS_Subset
  <2>4. Cardinality(B) \in Nat
    BY <2>3, FS_CardinalityType
  <2>5. Cardinality(B) \in 0..n - 1
    BY <1>1, <2>3, <2>4
  <2> QED
    BY <2>3, <2>5 DEF B
<1>3. ASSUME NEW x \in S, NEW y \in S, <<x, y>> \in before
      PROVE  rank(x) < rank(y)
  <2> DEFINE A == Before(x)
             B == Before(y)
  <2>1. A \in SUBSET B /\ x \in B /\ x \notin A
    BY <1>3 DEF StrictOrder
  <2>2. IsFiniteSet(B) /\ Cardinality(A) \in 0..n - 1 /\ Cardinality(B) \in 0..n - 1
    <3>1. rank(x) \in 0..n - 1
      BY <1>2
    <3>2. rank(y) \in 0..n - 1 /\ IsFiniteSet(Before(y))
      BY <1>2
    <3> QED
      BY <3>1, <3>2
  <2> HIDE DEF A, B
  <2>3. Cardinality(A) <= Cardinality(B) /\ Cardinality(A) # Cardinality(B)
    BY <2>1, <2>2, FS_Subset
  <2>4. Cardinality(A) < Cardinality(B)
    BY <1>1, <2>2, <2>3
  <2> QED
    BY <2>4 DEF A, B
<1>4. o = [k \in 1..n |-> CHOOSE x \in S : rank(x) = k - 1]
  BY DEF Ordered
<1> HIDE DEF o, rank, n
<1>5. \A x, y \in S : rank(x) = rank(y) => x = y
  <2> SUFFICES ASSUME NEW x \in S, NEW y \in S, rank(x) = rank(y), x # y
               PROVE  FALSE
    OBVIOUS
  <2>1. rank(x) < rank(y) \/ rank(y) < rank(x)
    BY <1>3 DEF StrictOrder
  <2>2. rank(x) \in 0..n - 1 /\ rank(y) \in 0..n - 1
    BY <1>2
  <2> QED
    BY <1>1, <2>1, <2>2
<1>6. place \in [S -> 1..n] /\ \A x \in S : place[x] = rank(x) + 1
  <2>1. ASSUME NEW x \in S
        PROVE  rank(x) + 1 \in 1..n
    <3>1. rank(x) \in 0..n - 1
      BY <1>2
    <3> QED
      BY <1>1, <3>1
  <2> QED
    BY <2>1
<1> HIDE DEF place
<1>7. place \in Injection(S, 1..n)
  <2>1. \A x, y \in S : place[x] = place[y] => x = y
    <3> SUFFICES ASSUME NEW x \in S, NEW y \in S, place[x] = place[y]
                 PROVE  x = y
      OBVIOUS
    <3>1. rank(x) \in 0..n - 1 /\ rank(y) \in 0..n - 1 /\ rank(x) + 1 = rank(y) + 1
      BY <1>2, <1>6
    <3>2. rank(x) = rank(y)
      BY <1>1, <3>1
    <3> QED
      BY <1>5, <3>2
  <2>2. DOMAIN place = S
    BY <1>6
  <2>3. IsInjective(place)
    BY <2>1, <2>2 DEF IsInjective
  <2> QED
    BY <1>6, <2>3 DEF Injection
<1>8. IsFiniteSet(1..n) /\ Cardinality(1..n) = n
  <2>1. IsFiniteSet(1..n) /\ Cardinality(1..n) = IF 1 > n THEN 0 ELSE n - 1 + 1
    BY <1>1, FS_Interval
  <2> QED
    BY <1>1, <2>1
<1>9. place \in Surjection(S, 1..n)
  <2>1. n = Cardinality(S)
    BY DEF n
  <2> QED
    BY <1>7, <1>8, <2>1, FS_Injection
<1>10. \A k \in 1..n : \E x \in S : place[x] = k
  BY <1>9 DEF Surjection
<1>11. ASSUME NEW k \in 1..n
       PROVE  o[k] \in S /\ rank(o[k]) = k - 1
  <2>1. PICK x \in S : place[x] = k
    BY <1>10
  <2>2. rank(x) \in 0..n - 1 /\ rank(x) + 1 = k
    BY <1>2, <1>6, <2>1
  <2>3. rank(x) = k - 1
    BY <1>1, <2>2
  <2>4. o[k] = CHOOSE y \in S : rank(y) = k - 1
    BY <1>4, <1>11
  <2> QED
    BY <2>3, <2>4
<1>12. ASSUME NEW x \in S
       PROVE  \E k \in 1..n : o[k] = x
  <2>1. rank(x) \in 0..n - 1
    BY <1>2
  <2>2. rank(x) + 1 \in 1..n /\ (rank(x) + 1) - 1 = rank(x)
    BY <1>1, <2>1
  <2>3. o[rank(x) + 1] \in S /\ rank(o[rank(x) + 1]) = rank(x)
    BY <1>11, <2>2
  <2>4. o[rank(x) + 1] = x
    BY <1>5, <2>3
  <2> QED
    BY <2>2, <2>4
<1>13. ASSUME NEW k \in 1..n, NEW l \in 1..n, k < l
       PROVE  <<o[k], o[l]>> \in before
  <2>1. o[k] \in S /\ o[l] \in S /\ rank(o[k]) = k - 1 /\ rank(o[l]) = l - 1
    BY <1>11
  <2>2. rank(o[k]) < rank(o[l]) /\ rank(o[k]) # rank(o[l]) /\ ~(rank(o[l]) < rank(o[k]))
    BY <1>1, <1>13, <2>1
  <2>3. <<o[l], o[k]>> \notin before /\ o[k] # o[l]
    BY <1>3, <2>1, <2>2
  <2> QED
    BY <2>1, <2>3 DEF StrictOrder
<1>14. o = [k \in 1..n |-> o[k]]
  BY <1>4
<1> QED
  BY <1>1, <1>11, <1>12, <1>13, <1>14

\* d is s in the order o, the greatest key first.
Sorts(d, s, key, o) ==
    /\ d = [k \in 1..Len(s) |-> s[o[k]]]
    /\ \A k \in 1..Len(s) : o[k] \in 1..Len(s)
    /\ \A i \in 1..Len(s) : \E k \in 1..Len(s) : o[k] = i
    /\ \A k, l \in 1..Len(s) : k < l => key[o[k]] > key[o[l]] \/ (key[o[k]] = key[o[l]] /\ o[k] < o[l])

LEMMA DescendingSorts ==
    ASSUME NEW s, Len(s) \in Nat, NEW key, \A i \in 1..Len(s) : key[i] \in Int
    PROVE  \E o : Sorts(Descending(s, key), s, key, o)
<1> DEFINE n == Len(s)
           S == 1..n
           before == {p \in S \X S : key[p[1]] > key[p[2]] \/ (key[p[1]] = key[p[2]] /\ p[1] < p[2])}
           o == Ordered(S, before)
<1>1. IsFiniteSet(S) /\ Cardinality(S) = n
  <2>1. IsFiniteSet(1..n) /\ Cardinality(1..n) = IF 1 > n THEN 0 ELSE n - 1 + 1
    BY FS_Interval
  <2> QED
    BY <2>1
<1>2. \A i, j \in S : <<i, j>> \in before <=> key[i] > key[j] \/ (key[i] = key[j] /\ i < j)
  OBVIOUS
<1>3. \A i \in S : i \in Int /\ key[i] \in Int
  OBVIOUS
<1>4. Descending(s, key) = [k \in 1..n |-> s[o[k]]]
  BY DEF Descending
<1> HIDE DEF before, n
<1>5. StrictOrder(S, before)
  <2> HIDE DEF S
  <2>1. \A x, y \in S : <<x, y>> \in before => <<y, x>> \notin before
    <3> SUFFICES ASSUME NEW x \in S, NEW y \in S, <<x, y>> \in before
                 PROVE  <<y, x>> \notin before
      OBVIOUS
    <3>1. key[x] > key[y] \/ (key[x] = key[y] /\ x < y)
      BY <1>2
    <3>2. ~(key[y] > key[x] \/ (key[y] = key[x] /\ y < x))
      BY <1>3, <3>1
    <3> QED
      BY <1>2, <3>2
  <2>2. \A x, y \in S : x = y \/ <<x, y>> \in before \/ <<y, x>> \in before
    <3> SUFFICES ASSUME NEW x \in S, NEW y \in S
                 PROVE  x = y \/ <<x, y>> \in before \/ <<y, x>> \in before
      OBVIOUS
    <3>1. x = y \/ (key[x] > key[y] \/ (key[x] = key[y] /\ x < y)) \/ (key[y] > key[x] \/ (key[y] = key[x] /\ y < x))
      BY <1>3
    <3> QED
      BY <1>2, <3>1
  <2>3. \A x, y, z \in S : <<x, y>> \in before /\ <<y, z>> \in before => <<x, z>> \in before
    <3> SUFFICES ASSUME NEW x \in S, NEW y \in S, NEW z \in S, <<x, y>> \in before, <<y, z>> \in before
                 PROVE  <<x, z>> \in before
      OBVIOUS
    <3>1. key[x] > key[y] \/ (key[x] = key[y] /\ x < y)
      BY <1>2
    <3>2. key[y] > key[z] \/ (key[y] = key[z] /\ y < z)
      BY <1>2
    <3>3. key[x] > key[z] \/ (key[x] = key[z] /\ x < z)
      BY <1>3, <3>1, <3>2
    <3> QED
      BY <1>2, <3>3
  <2> QED
    BY <2>1, <2>2, <2>3 DEF StrictOrder
<1> HIDE DEF S
<1>6. /\ \A k \in 1..n : o[k] \in S
      /\ \A x \in S : \E k \in 1..n : o[k] = x
      /\ \A k, l \in 1..n : k < l => <<o[k], o[l]>> \in before
  BY <1>1, <1>5, OrderedSorts
<1> HIDE DEF o
<1>7. \A k, l \in 1..n : k < l => key[o[k]] > key[o[l]] \/ (key[o[k]] = key[o[l]] /\ o[k] < o[l])
  BY <1>2, <1>6
<1>8. Sorts(Descending(s, key), s, key, o)
  <2> DEFINE d == Descending(s, key)
  <2>1. d = [k \in 1..n |-> s[o[k]]]
    BY <1>4
  <2>2. /\ \A k \in 1..n : o[k] \in 1..n
        /\ \A i \in 1..n : \E k \in 1..n : o[k] = i
    BY <1>6 DEF S
  <2> QED
    <3> HIDE DEF d
    <3>1. /\ d = [k \in 1..Len(s) |-> s[o[k]]]
          /\ \A k \in 1..Len(s) : o[k] \in 1..Len(s)
          /\ \A i \in 1..Len(s) : \E k \in 1..Len(s) : o[k] = i
      BY <2>1, <2>2 DEF n
    <3>2. \A k, l \in 1..Len(s) : k < l => key[o[k]] > key[o[l]] \/ (key[o[k]] = key[o[l]] /\ o[k] < o[l])
      BY <1>7 DEF n
    <3>3. Sorts(d, s, key, o)
      BY <3>1, <3>2 DEF Sorts
    <3> QED
      BY <3>3 DEF d
<1> QED
  BY <1>8

\* What is kept of a sequence without repetitions: its members in S, once.
LEMMA KeptSome ==
    ASSUME NEW X, NEW s \in Seq(X), NEW S
    PROVE  /\ Kept(s, S) \in Seq(X)
           /\ ToSet(Kept(s, S)) = ToSet(s) \cap S
           /\ (\A i, j \in 1..Len(s) : s[i] = s[j] => i = j) =>
                \A i, j \in 1..Len(Kept(s, S)) : Kept(s, S)[i] = Kept(s, S)[j] => i = j
           /\ \A i, j \in 1..Len(Kept(s, S)) : i < j =>
                \E a, b \in 1..Len(s) : a < b /\ Kept(s, S)[i] = s[a] /\ Kept(s, S)[j] = s[b]
<1> DEFINE N == Len(s)
           at == {i \in 1..N : s[i] \in S}
           before == {p \in at \X at : p[1] < p[2]}
           o == Ordered(at, before)
           n == Cardinality(at)
           kept == Kept(s, S)
<1>1. N \in Nat /\ at \in SUBSET (1..N) /\ \A i \in at : i \in Int /\ i \in 1..N /\ s[i] \in S
  OBVIOUS
<1>2. IsFiniteSet(at)
  <2>1. IsFiniteSet(1..N)
    BY <1>1, FS_Interval
  <2> HIDE DEF at
  <2> QED
    BY <1>1, <2>1, FS_Subset
<1>3. \A i, j \in at : <<i, j>> \in before <=> i < j
  OBVIOUS
<1>4. kept = [k \in 1..n |-> s[o[k]]]
  BY DEF Kept
<1>5. \A i \in 1..N : s[i] \in S => i \in at
  OBVIOUS
<1>6. \A i \in 1..N : s[i] \in X
  OBVIOUS
<1> HIDE DEF before, at
<1>7. StrictOrder(at, before)
  BY <1>1, <1>3 DEF StrictOrder
<1>8. /\ n \in Nat
      /\ \A k \in 1..n : o[k] \in at
      /\ \A x \in at : \E k \in 1..n : o[k] = x
      /\ \A k, l \in 1..n : k < l => <<o[k], o[l]>> \in before
  BY <1>2, <1>7, OrderedSorts
<1> HIDE DEF o, n
<1>9. \A k, l \in 1..n : k < l => o[k] < o[l]
  BY <1>3, <1>8
<1>10. \A k \in 1..n : o[k] \in 1..N /\ s[o[k]] \in X /\ s[o[k]] \in S
  BY <1>1, <1>6, <1>8
<1> HIDE DEF N, kept
<1>11. kept \in Seq(X) /\ Len(kept) = n /\ \A k \in 1..n : kept[k] = s[o[k]]
  <2>1. kept \in [1..n -> X]
    BY <1>4, <1>10
  <2>2. kept \in Seq(X) /\ Len(kept) = n
    BY <1>8, <2>1
  <2> QED
    BY <1>4, <2>2
<1>12. ToSet(kept) = ToSet(s) \cap S
  <2>1. ToSet(kept) = {kept[k] : k \in 1..n}
    BY <1>4 DEF ToSet
  <2>2. ToSet(s) = {s[i] : i \in 1..N}
    BY DEF ToSet, N
  <2>3. ASSUME NEW c \in ToSet(s), c \in S
        PROVE  \E k \in 1..n : kept[k] = c
    <3>1. PICK i \in 1..N : s[i] = c
      BY <2>2
    <3>2. PICK k \in 1..n : o[k] = i
      BY <1>5, <1>8, <2>3, <3>1
    <3> QED
      BY <1>11, <3>1, <3>2
  <2>4. ASSUME NEW k \in 1..n
        PROVE  kept[k] \in ToSet(s) /\ kept[k] \in S
    BY <1>10, <1>11, <2>2
  <2> QED
    BY <2>1, <2>3, <2>4
<1>13. ASSUME \A i, j \in 1..N : s[i] = s[j] => i = j, NEW k \in 1..n, NEW l \in 1..n, kept[k] = kept[l]
       PROVE  k = l
  <2>1. o[k] = o[l]
    <3>1. o[k] \in 1..N /\ o[l] \in 1..N /\ s[o[k]] = s[o[l]]
      BY <1>10, <1>11, <1>13
    <3> QED
      BY <1>13, <3>1
  <2>2. o[k] \in Int
    BY <1>1, <1>8
  <2>3. ~(k < l) /\ ~(l < k)
    BY <1>9, <2>1, <2>2
  <2> QED
    BY <1>8, <2>3
<1>14. ASSUME NEW k \in 1..n, NEW l \in 1..n, k < l
       PROVE  \E a, b \in 1..N : a < b /\ kept[k] = s[a] /\ kept[l] = s[b]
  BY <1>9, <1>10, <1>11, <1>14
<1> QED
  BY <1>11, <1>12, <1>13, <1>14 DEF N, kept

Once(s) == \A i, j \in 1..Len(s) : s[i] = s[j] => i = j

Ranking(s) == s \in Seq(Nat) /\ Once(s)

LEMMA PositionIn ==
    ASSUME NEW X, NEW s \in Seq(X), NEW c \in ToSet(s)
    PROVE  /\ Position(s, c) \in 1..Len(s) /\ s[Position(s, c)] = c
           /\ Once(s) => \A i \in 1..Len(s) : s[i] = c => Position(s, c) = i
<1>1. PICK i \in 1..Len(s) : s[i] = c
  BY DEF ToSet
<1>2. Position(s, c) \in 1..Len(s) /\ s[Position(s, c)] = c
  BY <1>1 DEF Position
<1> QED
  BY <1>2 DEF Once

LEMMA OnceCounted ==
    ASSUME NEW X, NEW s \in Seq(X), Once(s)
    PROVE  IsFiniteSet(ToSet(s)) /\ Cardinality(ToSet(s)) = Len(s)
<1> DEFINE n == Len(s)
<1>1. n \in Nat /\ s \in [1..n -> ToSet(s)] /\ \A c \in ToSet(s) : \E i \in 1..n : s[i] = c
  BY DEF ToSet
<1>2. \A i, j \in 1..n : s[i] = s[j] => i = j
  BY DEF Once
<1>3. s \in Surjection(1..n, ToSet(s)) /\ s \in Injection(1..n, ToSet(s))
  <2>1. DOMAIN s = 1..n
    BY <1>1
  <2>2. IsInjective(s)
    BY <1>2, <2>1 DEF IsInjective
  <2> QED
    BY <1>1, <2>2 DEF Surjection, Injection
<1>4. IsFiniteSet(1..n) /\ Cardinality(1..n) = n
  <2>1. IsFiniteSet(1..n) /\ Cardinality(1..n) = IF 1 > n THEN 0 ELSE n - 1 + 1
    <3>1. n \in Int /\ 1 \in Int
      BY <1>1
    <3> HIDE DEF n
    <3> QED
      BY <3>1, FS_Interval
  <2> QED
    BY <1>1, <2>1
<1> HIDE DEF n
<1>5. IsFiniteSet(ToSet(s)) /\ Cardinality(ToSet(s)) = Cardinality(1..n)
  BY <1>3, <1>4, FS_Surjection
<1> QED
  BY <1>4, <1>5 DEF n

\* Sorting keeps what is sorted.
LEMMA SortedSame ==
    ASSUME NEW X, NEW s \in Seq(X), NEW key, \A i \in 1..Len(s) : key[i] \in Int, NEW d, NEW o, Sorts(d, s, key, o)
    PROVE  /\ d \in Seq(X) /\ Len(d) = Len(s) /\ ToSet(d) = ToSet(s)
           /\ Once(s) => Once(d)
<1> DEFINE n == Len(s)
<1>1. n \in Nat /\ \A i \in 1..n : s[i] \in X
  OBVIOUS
<1>2. /\ d = [k \in 1..n |-> s[o[k]]]
      /\ \A k \in 1..n : o[k] \in 1..n
      /\ \A i \in 1..n : \E k \in 1..n : o[k] = i
      /\ \A k, l \in 1..n : k < l => key[o[k]] > key[o[l]] \/ (key[o[k]] = key[o[l]] /\ o[k] < o[l])
  BY DEF Sorts
<1>3. d \in [1..n -> X]
  BY <1>1, <1>2
<1>4. d \in Seq(X) /\ Len(d) = n
  BY <1>1, <1>3
<1>5. ToSet(d) = ToSet(s)
  <2>1. ToSet(s) = {s[i] : i \in 1..n} /\ ToSet(d) = {d[k] : k \in 1..n}
    BY <1>3 DEF ToSet
  <2>2. \A k \in 1..n : d[k] = s[o[k]] /\ o[k] \in 1..n
    <3>1. d = [k \in 1..n |-> s[o[k]]] /\ \A k \in 1..n : o[k] \in 1..n
      BY <1>2
    <3> HIDE DEF n
    <3> QED
      BY <3>1
  <2>3. \A i \in 1..n : \E k \in 1..n : d[k] = s[i]
    BY <1>2, <2>2
  <2> HIDE DEF n
  <2>4. \A x \in ToSet(d) : x \in ToSet(s)
    BY <2>1, <2>2
  <2>5. \A x \in ToSet(s) : x \in ToSet(d)
    BY <2>1, <2>3
  <2> QED
    BY <2>4, <2>5
<1>6. ASSUME NEW k \in 1..n, NEW l \in 1..n, k < l
      PROVE  o[k] # o[l]
  <2>1. key[o[k]] \in Int /\ o[k] \in Int
    <3>1. o[k] \in 1..n
      BY <1>2
    <3>2. \A i \in 1..n : key[i] \in Int /\ i \in Int
      OBVIOUS
    <3> HIDE DEF n
    <3> QED
      BY <3>1, <3>2
  <2>2. key[o[k]] > key[o[l]] \/ (key[o[k]] = key[o[l]] /\ o[k] < o[l])
    BY <1>2, <1>6
  <2> QED
    BY <2>1, <2>2
<1>7. ASSUME Once(s), NEW k \in 1..n, NEW l \in 1..n, d[k] = d[l]
      PROVE  k = l
  <2>1. o[k] = o[l]
    BY <1>2, <1>7 DEF Once
  <2> QED
    BY <1>1, <1>6, <2>1
<1> QED
  BY <1>4, <1>5, <1>7 DEF Once

-----------------------------------------------------------------------------
(* Fusion *)

LEMMA DenominatorCounts ==
    ASSUME NEW n \in Nat
    PROVE  Denominator(n) \in Nat
<1> DEFINE Product(g, m) == g = [r \in 0..m |-> IF r = 0 THEN 1 ELSE g[r - 1] * (RrfK + r)]
           S == {m \in Nat : \E g : Product(g, m)}
<1>1. 0 \in S
  <2> DEFINE g == [r \in 0..0 |-> 1]
  <2>1. g = [r \in 0..0 |-> IF r = 0 THEN 1 ELSE g[r - 1] * (RrfK + r)]
    OBVIOUS
  <2> QED
    BY <2>1
<1>2. ASSUME NEW m \in Nat, m \in S
      PROVE  m + 1 \in S
  <2>1. PICK g : Product(g, m)
    BY <1>2
  <2> DEFINE h == [r \in 0..m + 1 |-> IF r = m + 1 THEN g[m] * (RrfK + r) ELSE g[r]]
  <2>2. \A r \in 0..m : h[r] = g[r]
    OBVIOUS
  <2>3. \A r \in 0..m : g[r] = IF r = 0 THEN 1 ELSE g[r - 1] * (RrfK + r)
    BY <2>1
  <2>4. ASSUME NEW r \in 0..m + 1
        PROVE  h[r] = IF r = 0 THEN 1 ELSE h[r - 1] * (RrfK + r)
    <3>1. CASE r = m + 1
      <4>1. h[r] = g[m] * (RrfK + r) /\ h[r - 1] = g[m] /\ r # 0
        BY <3>1
      <4> QED
        BY <4>1
    <3>2. CASE r \in 0..m
      <4>1. r # 0 => r - 1 \in 0..m
        BY <3>2
      <4>2. h[r] = g[r] /\ (r # 0 => h[r - 1] = g[r - 1])
        BY <2>2, <3>2, <4>1
      <4>3. g[r] = IF r = 0 THEN 1 ELSE g[r - 1] * (RrfK + r)
        BY <2>3, <3>2
      <4> HIDE DEF h
      <4> QED
        BY <4>2, <4>3
    <3> QED
      BY <3>1, <3>2
  <2>5. h = [r \in 0..m + 1 |-> h[r]]
    OBVIOUS
  <2> HIDE DEF h
  <2>6. Product(h, m + 1)
    BY <2>4, <2>5
  <2> HIDE DEF Product
  <2>7. \E f : Product(f, m + 1)
    BY <2>6
  <2> QED
    BY <2>7
<1>3. PICK g : Product(g, n)
  <2>1. \A k \in 0..n : k < n /\ k \in S => k + 1 \in S
    BY <1>2
  <2> HIDE DEF S
  <2>2. \A k \in 0..n : k \in S
    BY <1>1, <2>1, OneByOne
  <2>3. n \in S
    BY <2>2
  <2> QED
    BY <2>3 DEF S
<1> DEFINE product == CHOOSE f : Product(f, n)
<1>4. Denominator(n) = product[n]
  BY Zenon DEF Denominator
<1>5. Product(product, n)
  BY <1>3
<1> HIDE DEF product
<1>6. \A r \in 0..n : product[r] = IF r = 0 THEN 1 ELSE product[r - 1] * (RrfK + r)
  BY <1>5
<1> DEFINE T == {r \in 0..n : product[r] \in Nat}
<1>7. 0 \in T
  BY <1>6
<1>8. ASSUME NEW r \in 0..n, r < n, r \in T
      PROVE  r + 1 \in T
  <2>1. r + 1 \in 0..n /\ r + 1 # 0 /\ (r + 1) - 1 = r
    BY <1>8
  <2>2. product[r + 1] = product[r] * (RrfK + (r + 1))
    BY <1>6, <2>1
  <2>3. product[r] \in Nat /\ RrfK + (r + 1) \in Nat
    BY <1>8, RetrievalAssumption
  <2> DEFINE a == product[r]
             b == RrfK + (r + 1)
  <2>4. a \in Nat /\ b \in Nat
    BY <2>3
  <2> HIDE DEF a, b
  <2>5. a * b \in Nat
    BY <2>4
  <2> QED
    BY <2>1, <2>2, <2>5 DEF a, b
<1> HIDE DEF T
<1>9. \A r \in 0..n : r \in T
  BY <1>7, <1>8, OneByOne
<1> QED
  BY <1>4, <1>9 DEF T

LEMMA TimesMore ==
    ASSUME NEW w \in Nat, NEW x \in Nat, NEW y \in Nat, x <= y
    PROVE  w * x \in Nat /\ w * y \in Nat /\ w * x <= w * y
<1>1. y - x \in Nat
  OBVIOUS
<1>2. w * (y - x) \in Nat /\ w * x \in Nat /\ w * y \in Nat
  BY <1>1
<1>3. w * y = w * x + w * (y - x)
  OBVIOUS
<1> QED
  BY <1>2, <1>3

\* A later rank has no greater part of the unit.
LEMMA SmallerPart ==
    ASSUME NEW u \in Nat, NEW a \in Nat \ {0}, NEW b \in Nat \ {0}, a <= b
    PROVE  u \div a \in Nat /\ u \div b \in Nat /\ u \div b <= u \div a
<1> DEFINE p == u \div a
           q == u \div b
           r == u % a
           s == u % b
<1>1. p \in Int /\ r \in 0..a - 1 /\ u = a * p + r
  OBVIOUS
<1>2. q \in Int /\ s \in 0..b - 1 /\ u = b * q + s
  OBVIOUS
<1> HIDE DEF p, q, r, s
<1>3. p >= 0
  <2> SUFFICES ASSUME p <= -1
               PROVE  FALSE
    BY <1>1
  <2>1. a * (-1 - p) >= 0
    BY <1>1
  <2>2. a * (-1 - p) = -a - a * p
    BY <1>1
  <2> QED
    BY <1>1, <2>1, <2>2
<1>4. q >= 0
  <2> SUFFICES ASSUME q <= -1
               PROVE  FALSE
    BY <1>2
  <2>1. b * (-1 - q) >= 0
    BY <1>2
  <2>2. b * (-1 - q) = -b - b * q
    BY <1>2
  <2> QED
    BY <1>2, <2>1, <2>2
<1>5. q <= p
  <2> SUFFICES ASSUME p + 1 <= q
               PROVE  FALSE
    BY <1>1, <1>2
  <2>1. a * (q - (p + 1)) >= 0
    <3>1. q - (p + 1) \in Nat
      BY <1>1, <1>2
    <3> QED
      BY <3>1
  <2>2. a * (q - (p + 1)) = a * q - a * p - a
    BY <1>1, <1>2
  <2>3. (b - a) * q >= 0
    <3>1. b - a \in Nat /\ q \in Nat
      BY <1>2, <1>4
    <3> QED
      BY <3>1
  <2>4. (b - a) * q = b * q - a * q
    BY <1>2
  <2>5. a * q \in Int /\ a * p \in Int /\ b * q \in Int
    BY <1>1, <1>2
  <2> QED
    BY <1>1, <1>2, <2>1, <2>2, <2>3, <2>4, <2>5
<1> QED
  BY <1>1, <1>2, <1>3, <1>4, <1>5 DEF p, q

LEMMA SharesCount ==
    ASSUME NEW weight \in Nat, NEW ranking, Ranking(ranking), NEW c, NEW unit \in Nat
    PROVE  /\ Share(weight, ranking, c, unit) \in Nat
           /\ \A d : Better(ranking, c, d) => Share(weight, ranking, d, unit) <= Share(weight, ranking, c, unit)
<1> DEFINE at(x) == RrfK + Position(ranking, x)
           part(x) == unit \div at(x)
<1>1. \A x \in ToSet(ranking) : Position(ranking, x) \in Nat \ {0} /\ at(x) \in Nat \ {0}
  <2> SUFFICES ASSUME NEW x \in ToSet(ranking)
               PROVE  Position(ranking, x) \in Nat \ {0} /\ at(x) \in Nat \ {0}
    OBVIOUS
  <2>1. Position(ranking, x) \in 1..Len(ranking)
    BY PositionIn DEF Ranking
  <2>2. Position(ranking, x) \in Nat \ {0}
    BY <2>1
  <2> QED
    BY <2>2, RetrievalAssumption
<1>2. \A x : Share(weight, ranking, x, unit) = IF x \in ToSet(ranking) THEN weight * part(x) ELSE 0
  BY Zenon DEF Share
<1>3. ASSUME NEW x \in ToSet(ranking)
      PROVE  part(x) \in Nat /\ weight * part(x) \in Nat
  <2>1. at(x) \in Nat \ {0}
    BY <1>1
  <2> HIDE DEF at
  <2>2. part(x) \in Nat
    BY <2>1, SmallerPart
  <2> HIDE DEF part
  <2> QED
    BY <2>2
<1>4. ASSUME NEW d, Better(ranking, c, d)
      PROVE  Share(weight, ranking, d, unit) <= Share(weight, ranking, c, unit)
  <2>1. c \in ToSet(ranking) /\ (d \notin ToSet(ranking) \/ Position(ranking, c) < Position(ranking, d))
    BY <1>4 DEF Better
  <2>2. CASE d \notin ToSet(ranking)
    <3>1. Share(weight, ranking, d, unit) = 0 /\ Share(weight, ranking, c, unit) = weight * part(c) /\ weight * part(c) \in Nat
      BY <1>2, <1>3, <2>1, <2>2
    <3> HIDE DEF part
    <3> QED
      BY <3>1
  <2>3. CASE d \in ToSet(ranking)
    <3>1. at(c) \in Nat \ {0} /\ at(d) \in Nat \ {0} /\ at(c) <= at(d)
      <4>1. Position(ranking, c) < Position(ranking, d)
        BY <2>1, <2>3
      <4>2. Position(ranking, c) \in Nat /\ Position(ranking, d) \in Nat /\ RrfK \in Nat
        BY <1>1, <2>1, <2>3, RetrievalAssumption
      <4>3. RrfK + Position(ranking, c) <= RrfK + Position(ranking, d)
        BY <4>1, <4>2
      <4>4. at(c) \in Nat \ {0} /\ at(d) \in Nat \ {0}
        BY <1>1, <2>1, <2>3
      <4> QED
        BY <4>3, <4>4
    <3> HIDE DEF at
    <3>2. part(c) \in Nat /\ part(d) \in Nat /\ part(d) <= part(c)
      BY <3>1, SmallerPart
    <3> HIDE DEF part
    <3>3. weight * part(d) <= weight * part(c)
      BY <3>2, TimesMore
    <3> QED
      BY <1>2, <2>1, <2>3, <3>3
  <2> QED
    BY <2>2, <2>3
<1>5. Share(weight, ranking, c, unit) \in Nat
  <2> HIDE DEF part
  <2> QED
    BY <1>2, <1>3
<1> QED
  BY <1>4, <1>5

LEMMA HybridsCount ==
    ASSUME NEW dense, NEW sparse, Ranking(dense), Ranking(sparse), NEW c
    PROVE  /\ Hybrid(dense, sparse, c) \in Nat
           /\ \A d : Better(dense, c, d) /\ Better(sparse, c, d) => Hybrid(dense, sparse, d) <= Hybrid(dense, sparse, c)
<1> DEFINE most == Max({Len(dense), Len(sparse)})
           unit == Denominator(most)
           D(x) == Share(VectorWeight, dense, x, unit)
           S(x) == Share(KeywordWeight, sparse, x, unit)
<1>1. most \in Nat
  <2>1. Len(dense) \in Nat /\ Len(sparse) \in Nat
    BY DEF Ranking
  <2>2. \E x \in {Len(dense), Len(sparse)} : \A y \in {Len(dense), Len(sparse)} : y <= x
    BY <2>1
  <2>3. most \in {Len(dense), Len(sparse)}
    BY <2>2 DEF Max
  <2> HIDE DEF most
  <2> QED
    BY <2>1, <2>3
<1> HIDE DEF most
<1>2. unit \in Nat
  BY <1>1, DenominatorCounts
<1>3. \A x : Hybrid(dense, sparse, x) = D(x) + S(x)
  BY Zenon DEF Hybrid, most
<1> HIDE DEF unit
<1>4. VectorWeight \in Nat /\ KeywordWeight \in Nat
  BY RetrievalAssumption
<1>5. \A x : D(x) \in Nat /\ S(x) \in Nat
  BY <1>2, <1>4, SharesCount
<1>6. \A d : /\ Better(dense, c, d) => D(d) <= D(c)
             /\ Better(sparse, c, d) => S(d) <= S(c)
  BY <1>2, <1>4, SharesCount
<1> HIDE DEF D, S
<1> QED
  BY <1>3, <1>5, <1>6

\* Each chunk once, those of the dense half first, in its order.
LEMMA HitsOnce ==
    ASSUME NEW dense, NEW sparse, Ranking(dense), Ranking(sparse)
    PROVE  /\ Ranking(Hits(dense, sparse))
           /\ ToSet(Hits(dense, sparse)) = ToSet(dense) \cup ToSet(sparse)
           /\ \A i, j \in 1..Len(Hits(dense, sparse)) :
                Better(dense, Hits(dense, sparse)[i], Hits(dense, sparse)[j]) => i < j
<1> DEFINE rest == ToSet(sparse) \ ToSet(dense)
           more == Kept(sparse, rest)
           h == Hits(dense, sparse)
           N == Len(dense)
           M == Len(more)
<1>1. dense \in Seq(Nat) /\ sparse \in Seq(Nat) /\ Once(dense) /\ Once(sparse)
  BY DEF Ranking
<1>2. more \in Seq(Nat) /\ ToSet(more) = ToSet(sparse) \cap rest /\ Once(more)
  <2> HIDE DEF rest
  <2> QED
    BY <1>1, KeptSome DEF Once
<1>3. h = dense \o more
  BY DEF Hits
<1> HIDE DEF h, more
<1>4. /\ h \in Seq(Nat) /\ Len(h) = N + M /\ N \in Nat /\ M \in Nat
      /\ \A i \in 1..N : h[i] = dense[i]
      /\ \A i \in N + 1..N + M : h[i] = more[i - N]
  BY <1>1, <1>2, <1>3, ConcatProperties
<1>5. ToSet(dense) = {dense[i] : i \in 1..N} /\ ToSet(more) = {more[i] : i \in 1..M} /\ ToSet(h) = {h[i] : i \in 1..N + M}
  <2>1. DOMAIN dense = 1..N /\ DOMAIN more = 1..M /\ DOMAIN h = 1..N + M
    BY <1>1, <1>2, <1>4
  <2> HIDE DEF N, M
  <2> QED
    BY <2>1 DEF ToSet
<1> HIDE DEF N, M
<1>6. \A i \in 1..N + M : i \in 1..N \/ (i \in N + 1..N + M /\ i - N \in 1..M)
  BY <1>4
<1>7. \A i \in 1..N : i \in 1..N + M
  BY <1>4
<1>8. \A i \in 1..M : i + N \in N + 1..N + M /\ i + N \in 1..N + M /\ (i + N) - N = i
  BY <1>4
<1>9. \A i \in 1..N : h[i] \in ToSet(dense)
  BY <1>4, <1>5
<1>10. \A i \in N + 1..N + M : h[i] \in ToSet(more) /\ h[i] \notin ToSet(dense)
  <2> SUFFICES ASSUME NEW i \in N + 1..N + M
               PROVE  h[i] \in ToSet(more) /\ h[i] \notin ToSet(dense)
    OBVIOUS
  <2>1. i - N \in 1..M
    BY <1>4
  <2>2. h[i] \in ToSet(more)
    BY <1>4, <1>5, <2>1
  <2> QED
    BY <1>2, <2>2
<1>11. ToSet(h) = ToSet(dense) \cup ToSet(sparse)
  <2>1. ToSet(more) = ToSet(sparse) \ ToSet(dense)
    BY <1>2
  <2>2. \A c \in ToSet(h) : c \in ToSet(dense) \/ c \in ToSet(more)
    BY <1>5, <1>6, <1>9, <1>10
  <2>3. \A c \in ToSet(dense) : c \in ToSet(h)
    BY <1>4, <1>5, <1>7
  <2>4. \A c \in ToSet(more) : c \in ToSet(h)
    BY <1>4, <1>5, <1>8
  <2> QED
    BY <2>1, <2>2, <2>3, <2>4
<1>12. Once(h)
  <2> SUFFICES ASSUME NEW i \in 1..N + M, NEW j \in 1..N + M, h[i] = h[j]
               PROVE  i = j
    BY <1>4 DEF Once
  <2>1. CASE i \in 1..N /\ j \in 1..N
    BY <1>1, <1>4, <2>1 DEF Once, N
  <2>2. CASE i \in N + 1..N + M /\ j \in N + 1..N + M
    <3>1. i - N \in 1..M /\ j - N \in 1..M /\ more[i - N] = more[j - N]
      BY <1>4, <1>6, <2>2
    <3>2. i - N = j - N
      BY <1>2, <3>1 DEF Once, M
    <3> QED
      BY <1>4, <2>2, <3>2
  <2>3. ~(i \in 1..N /\ j \in N + 1..N + M) /\ ~(j \in 1..N /\ i \in N + 1..N + M)
    BY <1>9, <1>10
  <2> QED
    BY <1>6, <2>1, <2>2, <2>3
<1>13. ASSUME NEW i \in 1..N + M, NEW j \in 1..N + M, Better(dense, h[i], h[j])
       PROVE  i < j
  <2>1. h[i] \in ToSet(dense) /\ (h[j] \notin ToSet(dense) \/ Position(dense, h[i]) < Position(dense, h[j]))
    BY <1>13 DEF Better
  <2>2. i \in 1..N /\ h[i] = dense[i]
    BY <1>4, <1>6, <1>10, <2>1
  <2>3. CASE h[j] \notin ToSet(dense)
    <3>1. j \in N + 1..N + M
      BY <1>6, <1>9, <2>3
    <3> QED
      BY <1>4, <2>2, <3>1
  <2>4. CASE h[j] \in ToSet(dense)
    <3>1. j \in 1..N /\ h[j] = dense[j]
      BY <1>4, <1>6, <1>10, <2>4
    <3>2. Position(dense, h[i]) = i
      BY <1>1, <2>1, <2>2, PositionIn DEF N
    <3>3. Position(dense, h[j]) = j
      BY <1>1, <2>4, <3>1, PositionIn DEF N
    <3> QED
      BY <2>1, <2>4, <3>2, <3>3
  <2> QED
    BY <2>3, <2>4
<1> QED
  BY <1>4, <1>11, <1>12, <1>13 DEF Ranking, h

LEMMA FusedFairly ==
    ASSUME NEW dense, NEW sparse, Ranking(dense), Ranking(sparse)
    PROVE  FusionIsFair(dense, sparse) /\ Ranking(Fused(dense, sparse))
<1> DEFINE h == Hits(dense, sparse)
           key == [i \in 1..Len(h) |-> Hybrid(dense, sparse, h[i])]
           f == Fused(dense, sparse)
           N == Len(h)
<1>1. h \in Seq(Nat) /\ Once(h) /\ ToSet(h) = ToSet(dense) \cup ToSet(sparse) /\ N \in Nat
  BY HitsOnce DEF Ranking
<1>2. \A i, j \in 1..N : Better(dense, h[i], h[j]) => i < j
  BY HitsOnce
<1>3. f = Descending(h, key)
  BY DEF Fused
<1>4. \A i \in 1..N : key[i] = Hybrid(dense, sparse, h[i]) /\ key[i] \in Int
  <2>1. \A i \in 1..N : key[i] = Hybrid(dense, sparse, h[i])
    OBVIOUS
  <2>2. \A c : Hybrid(dense, sparse, c) \in Int
    <3>1. \A c : Hybrid(dense, sparse, c) \in Nat
      BY HybridsCount
    <3> QED
      BY <3>1
  <2> QED
    BY <2>1, <2>2, Zenon
<1> HIDE DEF key, h, f
<1>5. PICK o : Sorts(f, h, key, o)
  BY <1>1, <1>3, <1>4, DescendingSorts DEF N
<1>6. f \in Seq(Nat) /\ Len(f) = N /\ ToSet(f) = ToSet(h) /\ Once(f)
  BY <1>1, <1>4, <1>5, SortedSame DEF N
<1>7. Len(f) = Cardinality(ToSet(f))
  BY <1>6, OnceCounted
<1>8. ASSUME NEW c \in ToSet(f), NEW d \in ToSet(f), Better(dense, c, d), Better(sparse, c, d)
      PROVE  Position(f, c) < Position(f, d)
  <2> DEFINE k == Position(f, c)
             l == Position(f, d)
  <2>1. k \in 1..N /\ l \in 1..N /\ f[k] = c /\ f[l] = d
    BY <1>6, PositionIn
  <2> HIDE DEF k, l
  <2>2. /\ f = [x \in 1..N |-> h[o[x]]]
        /\ \A x \in 1..N : o[x] \in 1..N
        /\ \A x, y \in 1..N : x < y => key[o[x]] > key[o[y]] \/ (key[o[x]] = key[o[y]] /\ o[x] < o[y])
    BY <1>5 DEF Sorts, N
  <2>3. o[k] \in 1..N /\ o[l] \in 1..N /\ h[o[k]] = c /\ h[o[l]] = d
    BY <2>1, <2>2
  <2>4. o[k] < o[l]
    BY <1>2, <1>8, <2>3
  <2>5. key[o[l]] <= key[o[k]] /\ key[o[k]] \in Int /\ key[o[l]] \in Int
    <3>1. Hybrid(dense, sparse, d) <= Hybrid(dense, sparse, c)
      BY <1>8, HybridsCount
    <3> QED
      BY <1>4, <2>3, <3>1
  <2>6. ~(l < k)
    <3> SUFFICES ASSUME l < k
                 PROVE  FALSE
      OBVIOUS
    <3>1. key[o[l]] > key[o[k]] \/ (key[o[l]] = key[o[k]] /\ o[l] < o[k])
      BY <2>1, <2>2
    <3>2. o[k] \in Int /\ o[l] \in Int
      BY <2>3
    <3> QED
      BY <2>4, <2>5, <3>1, <3>2
  <2>7. k # l
    <3>1. o[k] \in Int
      BY <2>3
    <3> QED
      BY <2>4, <3>1
  <2>8. k < l
    BY <1>1, <2>1, <2>6, <2>7
  <2> QED
    BY <2>8 DEF k, l
<1>9. FusionIsFair(dense, sparse)
  BY <1>1, <1>6, <1>7, <1>8 DEF FusionIsFair, f
<1> QED
  BY <1>6, <1>9 DEF Ranking, f

-----------------------------------------------------------------------------
(* Reranking *)

LEMMA FirstOfSome ==
    ASSUME NEW X, NEW s \in Seq(X), NEW k \in Nat \ {0}
    PROVE  /\ FirstOf(s, k) \in Seq(X)
           /\ Len(FirstOf(s, k)) \in 0..Len(s) /\ (Len(s) <= k => Len(FirstOf(s, k)) = Len(s))
           /\ FirstOf(s, k) = <<>> => s = <<>>
           /\ \A i \in 1..Len(FirstOf(s, k)) : FirstOf(s, k)[i] = s[i]
           /\ Once(s) => Once(FirstOf(s, k))
<1> DEFINE m == Min({k, Len(s)})
           f == FirstOf(s, k)
<1>1. m \in {k, Len(s)} /\ m <= k /\ m <= Len(s)
  <2>1. \E x \in {k, Len(s)} : \A y \in {k, Len(s)} : x <= y
    OBVIOUS
  <2>2. m \in {k, Len(s)} /\ \A y \in {k, Len(s)} : m <= y
    BY <2>1 DEF Min
  <2> HIDE DEF m
  <2> QED
    BY <2>2
<1>2. Len(s) \in Nat /\ m \in 0..Len(s) /\ (Len(s) <= k => m = Len(s)) /\ (m = 0 => Len(s) = 0)
  <2> HIDE DEF m
  <2> QED
    BY <1>1
<1>3. f = SubSeq(s, 1, m)
  BY Zenon DEF FirstOf
<1> HIDE DEF f, m
<1>4. f \in Seq(X) /\ Len(f) = m /\ \A i \in 1..m : f[i] = s[i]
  <2>1. 1 \in 1..Len(s) + 1 /\ m \in 1 - 1..Len(s)
    BY <1>2
  <2>2. f \in Seq(X) /\ Len(f) = m - 1 + 1 /\ \A i \in 1..m - 1 + 1 : f[i] = s[1 + i - 1]
    BY <1>2, <1>3, <2>1, SubSeqProperties
  <2> QED
    BY <1>2, <2>2
<1>5. f = <<>> => s = <<>>
  BY <1>2, <1>4
<1>6. Once(s) => Once(f)
  BY <1>2, <1>4 DEF Once
<1> QED
  BY <1>2, <1>4, <1>5, <1>6 DEF f

LEMMA CandidatesFound ==
    ASSUME NEW dense, NEW sparse, Ranking(dense), Ranking(sparse), NEW named
    PROVE  /\ Ranking(Candidates(dense, sparse, named))
           /\ ToSet(Candidates(dense, sparse, named)) \subseteq ToSet(dense) \cup ToSet(sparse)
           /\ Candidates(dense, sparse, named) = <<>> => ToSet(dense) \cup ToSet(sparse) = {}
<1> DEFINE f == Fused(dense, sparse)
           key == [i \in 1..Len(f) |-> Hybrid(dense, sparse, f[i]) * Weight(f[i], named)]
           b == Boosted(f, dense, sparse, named)
           c == Candidates(dense, sparse, named)
<1>1. f \in Seq(Nat) /\ Once(f) /\ ToSet(f) = ToSet(dense) \cup ToSet(sparse)
  BY FusedFairly DEF Ranking, FusionIsFair
<1>2. b = Descending(f, key)
  BY Zenon DEF Boosted
<1>3. \A i \in 1..Len(f) : key[i] \in Int
  <2>1. \A x : Hybrid(dense, sparse, x) \in Nat
    BY HybridsCount
  <2>2. \A x : Weight(x, named) \in Nat
    BY RetrievalAssumption DEF Weight
  <2>3. \A x : Hybrid(dense, sparse, x) * Weight(x, named) \in Int
    <3> SUFFICES ASSUME NEW x
                 PROVE  Hybrid(dense, sparse, x) * Weight(x, named) \in Int
      OBVIOUS
    <3> DEFINE a == Hybrid(dense, sparse, x)
               w == Weight(x, named)
    <3>1. a \in Int /\ w \in Int
      BY <2>1, <2>2
    <3> HIDE DEF a, w
    <3>2. a * w \in Int
      BY <3>1
    <3> QED
      BY <3>2 DEF a, w
  <2> QED
    BY <2>3, Zenon
<1>4. c = FirstOf(b, CandidateK)
  BY Zenon DEF Candidates
<1> HIDE DEF f, key, b, c
<1>5. PICK o : Sorts(b, f, key, o)
  <2>1. Len(f) \in Nat
    BY <1>1
  <2> QED
    BY <1>2, <1>3, <2>1, DescendingSorts
<1>6. b \in Seq(Nat) /\ ToSet(b) = ToSet(f) /\ Once(b)
  BY <1>1, <1>3, <1>5, SortedSame
<1>7. CandidateK \in Nat \ {0}
  BY RetrievalAssumption
<1>8. c \in Seq(Nat) /\ Once(c) /\ Len(c) \in 0..Len(b) /\ (c = <<>> => b = <<>>) /\ \A i \in 1..Len(c) : c[i] = b[i]
  BY <1>4, <1>6, <1>7, FirstOfSome
<1>9. ToSet(c) \subseteq ToSet(b)
  <2>1. ToSet(c) = {c[i] : i \in 1..Len(c)} /\ ToSet(b) = {b[i] : i \in 1..Len(b)}
    <3>1. DOMAIN c = 1..Len(c) /\ DOMAIN b = 1..Len(b)
      BY <1>6, <1>8
    <3> QED
      BY <3>1, Zenon DEF ToSet
  <2>2. \A i \in 1..Len(c) : i \in 1..Len(b)
    BY <1>6, <1>8
  <2> QED
    BY <1>8, <2>1, <2>2
<1>10. c = <<>> => ToSet(b) = {}
  <2>1. b = <<>> => ToSet(b) = {}
    BY DEF ToSet
  <2> QED
    BY <1>8, <2>1
<1> QED
  BY <1>1, <1>6, <1>8, <1>9, <1>10 DEF Ranking, c

LEMMA ShortlistFound ==
    ASSUME NEW candidates, Ranking(candidates), NEW hybrid
    PROVE  /\ Ranking(Shortlist(candidates, hybrid))
           /\ ToSet(Shortlist(candidates, hybrid)) \subseteq ToSet(candidates)
           /\ Shortlist(candidates, hybrid) = <<>> <=> candidates = <<>>
<1>1. candidates \in Seq(Nat) /\ Once(candidates)
  BY DEF Ranking
<1>2. CASE ~Skips(candidates, hybrid)
  BY <1>1, <1>2 DEF Shortlist, Ranking
<1>3. CASE Skips(candidates, hybrid)
  <2>1. Len(candidates) \in Nat /\ Len(candidates) >= 1
    <3>1. Len(candidates) = 1 \/ Len(candidates) > 1
      BY <1>3, Zenon DEF Skips
    <3>2. Len(candidates) \in Nat
      BY <1>1
    <3> QED
      BY <3>1, <3>2
  <2> DEFINE first == candidates[1]
  <2>2. first \in Nat /\ first \in ToSet(candidates)
    BY <1>1, <2>1 DEF ToSet
  <2>3. Shortlist(candidates, hybrid) = <<first>>
    BY <1>3 DEF Shortlist
  <2> HIDE DEF first
  <2>4. <<first>> \in Seq(Nat) /\ Len(<<first>>) = 1 /\ (<<first>>)[1] = first /\ <<first>> # <<>>
    BY <2>2
  <2>5. ToSet(<<first>>) = {first}
    BY <2>4 DEF ToSet
  <2>6. Once(<<first>>)
    BY <2>4 DEF Once
  <2>7. candidates # <<>>
    BY <2>1
  <2> QED
    BY <2>2, <2>3, <2>4, <2>5, <2>6, <2>7 DEF Ranking
<1> QED
  BY <1>2, <1>3

\* A score comes back to where its text was.
LEMMA ScoresInPlace ==
    ASSUME NEW texts \in Seq(Nat), NEW length, NEW model, \A c \in ToSet(texts) : length[c] \in Nat
    PROVE  Scores(texts, length, model) = [i \in 1..Len(texts) |-> model[texts[i]]]
<1> DEFINE n == Len(texts)
           id == [i \in 1..n |-> i]
           key == [i \in 1..n |-> -length[texts[i]]]
           order == ShortestFirst(texts, length)
           raw == [k \in 1..n |-> model[texts[order[k]]]]
<1>1. n \in Nat /\ \A i \in 1..n : texts[i] \in ToSet(texts)
  BY DEF ToSet
<1>2. id \in Seq(Nat) /\ Len(id) = n /\ \A i \in 1..n : id[i] = i
  OBVIOUS
<1>3. \A i \in 1..n : key[i] \in Int
  BY <1>1
<1>4. order = Descending(id, key)
  BY DEF ShortestFirst
<1>5. Scores(texts, length, model) = [i \in 1..n |-> raw[Position(order, i)]]
  BY DEF Scores
<1> HIDE DEF id, key, order, n
<1>6. Once(id)
  BY <1>2 DEF Once
<1>7. PICK o : Sorts(order, id, key, o)
  BY <1>1, <1>2, <1>3, <1>4, DescendingSorts
<1>8. order \in Seq(Nat) /\ Len(order) = n /\ ToSet(order) = ToSet(id) /\ Once(order)
  BY <1>2, <1>3, <1>6, <1>7, SortedSame
<1>9. ToSet(id) = 1..n
  <2>1. ToSet(id) = {id[i] : i \in 1..n}
    <3>1. DOMAIN id = 1..n
      BY <1>2
    <3> QED
      BY <3>1, Zenon DEF ToSet
  <2> QED
    BY <1>2, <2>1
<1>10. ASSUME NEW i \in 1..n
       PROVE  raw[Position(order, i)] = model[texts[i]]
  <2>1. Position(order, i) \in 1..n /\ order[Position(order, i)] = i
    BY <1>8, <1>9, PositionIn
  <2> QED
    BY <2>1
<1> HIDE DEF raw
<1> QED
  BY <1>5, <1>10 DEF n

LEMMA ScoredAsRead ==
    ASSUME NEW candidates, Ranking(candidates), NEW hybrid, NEW named, NEW length, NEW model,
           \A c \in ToSet(candidates) : length[c] \in Nat /\ model[c] \in Int
    PROVE  LET r == Reranked(candidates, hybrid, named, length, model)
           IN  /\ r \in Seq([chunk : Nat, score : Int])
               /\ \A i \in 1..Len(r) : r[i].score = model[r[i].chunk]
               /\ r = <<>> => candidates = <<>>
               /\ named = {} /\ r # <<>> =>
                    \A c \in ToSet(Shortlist(candidates, hybrid)) : model[c] <= r[1].score
<1> DEFINE s == Shortlist(candidates, hybrid)
           n == Len(s)
           scores == Scores(s, length, model)
           scored == [i \in 1..n |-> [chunk |-> s[i], score |-> scores[i]]]
           key == [i \in 1..Len(scored) |-> scored[i].score * Weight(scored[i].chunk, named)]
           d == Descending(scored, key)
           r == Reranked(candidates, hybrid, named, length, model)
           Hit == [chunk : Nat, score : Int]
<1> SUFFICES /\ r \in Seq(Hit)
             /\ \A i \in 1..Len(r) : r[i].score = model[r[i].chunk]
             /\ r = <<>> => candidates = <<>>
             /\ named = {} /\ r # <<>> => \A c \in ToSet(s) : model[c] <= r[1].score
  OBVIOUS
<1>1. r = FirstOf(d, FinalK)
  BY Zenon DEF Reranked
<1>2. s \in Seq(Nat) /\ n \in Nat /\ ToSet(s) \subseteq ToSet(candidates) /\ (s = <<>> => candidates = <<>>)
  BY ShortlistFound DEF Ranking
<1> HIDE DEF s, r
<1>3. scores = [i \in 1..n |-> model[s[i]]]
  <2>1. \A c \in ToSet(s) : length[c] \in Nat
    BY <1>2
  <2> QED
    BY <1>2, <2>1, ScoresInPlace
<1>4. \A i \in 1..n : s[i] \in Nat /\ s[i] \in ToSet(s) /\ model[s[i]] \in Int
  <2>1. \A i \in 1..n : s[i] \in Nat /\ s[i] \in ToSet(s)
    BY <1>2 DEF ToSet
  <2> QED
    BY <1>2, <2>1
<1> HIDE DEF scores
<1>5. \A i \in 1..n : /\ scored[i] = [chunk |-> s[i], score |-> model[s[i]]] /\ scored[i] \in Hit
                     /\ scored[i].chunk = s[i] /\ scored[i].score = model[s[i]]
  BY <1>3, <1>4
<1>6. scored \in Seq(Hit) /\ Len(scored) = n
  <2>1. scored = [i \in 1..n |-> scored[i]]
    OBVIOUS
  <2> HIDE DEF scored, Hit
  <2>2. scored \in [1..n -> Hit]
    BY <1>5, <2>1
  <2> QED
    BY <1>2, <2>2
<1>7. \A i \in 1..n : key[i] = model[s[i]] * Weight(s[i], named)
  <2> HIDE DEF scored
  <2> QED
    BY <1>5, <1>6
<1>8. \A x : Weight(x, named) \in Int /\ (named = {} => Weight(x, named) = 100)
  BY RetrievalAssumption DEF Weight
<1> HIDE DEF scored, key, Hit
<1>9. \A i \in 1..n : key[i] \in Int
  <2> SUFFICES ASSUME NEW i \in 1..n
               PROVE  key[i] \in Int
    OBVIOUS
  <2> DEFINE a == model[s[i]]
             w == Weight(s[i], named)
  <2>1. a \in Int /\ w \in Int /\ key[i] = a * w
    BY <1>4, <1>7, <1>8
  <2> HIDE DEF a, w
  <2> QED
    BY <2>1
<1>10. PICK o : Sorts(d, scored, key, o)
  BY <1>2, <1>6, <1>9, DescendingSorts
<1>11. d \in Seq(Hit) /\ Len(d) = n
  BY <1>6, <1>9, <1>10, SortedSame
<1>12. /\ \A k \in 1..n : d[k] = scored[o[k]] /\ o[k] \in 1..n
       /\ \A i \in 1..n : \E k \in 1..n : o[k] = i
       /\ \A k, l \in 1..n : k < l => key[o[k]] > key[o[l]] \/ (key[o[k]] = key[o[l]] /\ o[k] < o[l])
  <2>1. /\ d = [k \in 1..n |-> scored[o[k]]]
        /\ \A k \in 1..n : o[k] \in 1..n
        /\ \A i \in 1..n : \E k \in 1..n : o[k] = i
        /\ \A k, l \in 1..n : k < l => key[o[k]] > key[o[l]] \/ (key[o[k]] = key[o[l]] /\ o[k] < o[l])
    BY <1>6, <1>10 DEF Sorts
  <2>2. \A k \in 1..n : d[k] = scored[o[k]]
    <3> HIDE DEF d
    <3> QED
      BY <2>1
  <2> QED
    BY <2>1, <2>2
<1> HIDE DEF d
<1>13. FinalK \in Nat \ {0}
  BY RetrievalAssumption
<1>14. r \in Seq(Hit) /\ Len(r) \in 0..n /\ (r = <<>> => d = <<>>) /\ \A i \in 1..Len(r) : r[i] = d[i]
  BY <1>1, <1>11, <1>13, FirstOfSome
<1>15. ASSUME NEW i \in 1..Len(r)
       PROVE  r[i].score = model[r[i].chunk]
  <2>1. i \in 1..n
    BY <1>2, <1>14
  <2>2. r[i] = scored[o[i]] /\ o[i] \in 1..n
    BY <1>12, <1>14, <2>1
  <2>3. scored[o[i]].chunk = s[o[i]] /\ scored[o[i]].score = model[s[o[i]]]
    BY <1>5, <2>2
  <2> QED
    BY <2>2, <2>3
<1>16. r = <<>> => candidates = <<>>
  <2>1. r = <<>> => n = 0
    BY <1>11, <1>14
  <2>2. n = 0 => s = <<>>
    BY <1>2
  <2> QED
    BY <1>2, <2>1, <2>2
<1>17. ASSUME named = {}, r # <<>>, NEW c \in ToSet(s)
       PROVE  model[c] <= r[1].score
  <2>1. 1 \in 1..Len(r) /\ 1 \in 1..n
    <3>1. Len(r) # 0 /\ Len(r) \in Nat
      BY <1>14, <1>17
    <3> QED
      BY <1>2, <1>14, <3>1
  <2>2. r[1] = scored[o[1]] /\ o[1] \in 1..n
    BY <1>12, <1>14, <2>1
  <2>3. PICK i \in 1..n : s[i] = c
    <3>1. ToSet(s) = {s[i] : i \in 1..n}
      BY <1>2 DEF ToSet
    <3> QED
      BY <3>1
  <2>4. PICK k \in 1..n : o[k] = i
    BY <1>12
  <2>5. key[i] <= key[o[1]]
    <3>1. key[i] \in Int /\ key[o[1]] \in Int
      BY <1>9, <2>2
    <3>2. k = 1 \/ 1 < k
      OBVIOUS
    <3>3. 1 < k => key[o[1]] > key[i] \/ (key[o[1]] = key[i] /\ o[1] < i)
      BY <1>12, <2>1, <2>4
    <3> QED
      BY <2>4, <3>1, <3>2, <3>3
  <2> DEFINE j == o[1]
  <2> HIDE DEF j
  <2>a. j = o[1]
    BY DEF j
  <2>b. j \in 1..n /\ r[1] = scored[j]
    BY <2>2, <2>a
  <2>c. r[1].score = model[s[j]]
    BY <1>5, <2>b
  <2>d. Weight(s[i], named) = 100 /\ Weight(s[j], named) = 100
    BY <1>8, <1>17
  <2>e. key[i] = model[c] * 100 /\ key[j] = model[s[j]] * 100
    BY <1>7, <2>3, <2>b, <2>d
  <2>6. key[i] = model[c] * 100 /\ key[o[1]] = model[s[o[1]]] * 100 /\ r[1].score = model[s[o[1]]]
    BY <2>a, <2>c, <2>e
  <2>7. model[c] \in Int /\ model[s[o[1]]] \in Int
    BY <1>4, <2>2, <2>3
  <2> QED
    BY <2>5, <2>6, <2>7
<1> QED
  BY <1>14, <1>15, <1>16, <1>17

-----------------------------------------------------------------------------
(* Searches *)

LEMMA SearchedOnce ==
    ASSUME NEW dense, NEW sparse, NEW named, NEW length, NEW model, FoundBy(dense, sparse, length, model)
    PROVE  LET found == Search(dense, sparse, named, length, model)
               shortlist == FirstOf(Candidates(dense, sparse, {}), RerankCandidates)
               hybrid == [c \in ToSet(shortlist) |-> Hybrid(dense, sparse, c)]
           IN  /\ found.status \in {"empty", "below_threshold", "ok"}
               /\ found.status = "empty" => ToSet(dense) \cup ToSet(sparse) = {}
               /\ \A i \in 1..Len(found.chunks) :
                    found.chunks[i].score = model[found.chunks[i].chunk] /\ found.chunks[i].score >= Threshold
               /\ named = {} /\ found.status = "below_threshold" =>
                    \A c \in ToSet(Shortlist(shortlist, hybrid)) : model[c] < Threshold
<1> DEFINE found == Search(dense, sparse, named, length, model)
           Hybrids(l) == [c \in ToSet(l) |-> Hybrid(dense, sparse, c)]
           unnamed == FirstOf(Candidates(dense, sparse, {}), RerankCandidates)
           C == Candidates(dense, sparse, named)
           l == FirstOf(C, RerankCandidates)
           h == Hybrids(l)
           r == Reranked(l, h, named, length, model)
           usable == {x \in ToSet(r) : Usable(x, named)}
           kept == Kept(r, usable)
           Hit == [chunk : Nat, score : Int]
<1> SUFFICES /\ found.status \in {"empty", "below_threshold", "ok"}
             /\ found.status = "empty" => ToSet(dense) \cup ToSet(sparse) = {}
             /\ \A i \in 1..Len(found.chunks) :
                  found.chunks[i].score = model[found.chunks[i].chunk] /\ found.chunks[i].score >= Threshold
             /\ named = {} /\ found.status = "below_threshold" =>
                  \A c \in ToSet(Shortlist(unnamed, Hybrids(unnamed))) : model[c] < Threshold
  OBVIOUS
<1>1. found = [status |-> IF r = <<>> THEN "empty" ELSE IF kept = <<>> THEN "below_threshold" ELSE "ok",
               chunks |-> kept]
  BY Zenon DEF Search
<1>2. Ranking(dense) /\ Ranking(sparse)
  BY DEF FoundBy, Ranking, Once
<1>3. /\ Ranking(C) /\ ToSet(C) \subseteq ToSet(dense) \cup ToSet(sparse)
      /\ C = <<>> => ToSet(dense) \cup ToSet(sparse) = {}
  BY <1>2, CandidatesFound
<1>4. named = {} => l = unnamed
  OBVIOUS
<1>5. RerankCandidates \in Nat \ {0} /\ Threshold \in Int
  BY RetrievalAssumption
<1> HIDE DEF C
<1>6. l \in Seq(Nat) /\ Once(l) /\ (l = <<>> => C = <<>>) /\ ToSet(l) \subseteq ToSet(C)
  <2>1. C \in Seq(Nat) /\ Once(C)
    BY <1>3 DEF Ranking
  <2>2. /\ l \in Seq(Nat) /\ Once(l) /\ (l = <<>> => C = <<>>)
        /\ Len(l) \in 0..Len(C) /\ \A i \in 1..Len(l) : l[i] = C[i]
    BY <1>5, <2>1, FirstOfSome
  <2> HIDE DEF l
  <2>3. ToSet(l) = {l[i] : i \in 1..Len(l)} /\ ToSet(C) = {C[i] : i \in 1..Len(C)}
    <3>1. DOMAIN l = 1..Len(l) /\ DOMAIN C = 1..Len(C)
      BY <2>1, <2>2
    <3> QED
      BY <3>1, Zenon DEF ToSet
  <2>4. \A i \in 1..Len(l) : i \in 1..Len(C)
    BY <2>1, <2>2
  <2> QED
    BY <2>2, <2>3, <2>4
<1>7. \A c \in ToSet(l) : length[c] \in Nat /\ model[c] \in Int
  BY <1>3, <1>6 DEF FoundBy
<1>8. Ranking(l)
  BY <1>6 DEF Ranking
<1> HIDE DEF l, h, unnamed
<1>9. /\ r \in Seq(Hit)
      /\ \A i \in 1..Len(r) : r[i].score = model[r[i].chunk]
      /\ r = <<>> => l = <<>>
      /\ named = {} /\ r # <<>> => \A c \in ToSet(Shortlist(l, h)) : model[c] <= r[1].score
  BY <1>7, <1>8, ScoredAsRead
<1> HIDE DEF r, Hit
<1>10. /\ kept \in Seq(Hit) /\ ToSet(kept) = ToSet(r) \cap usable
  <2> HIDE DEF usable
  <2> QED
    BY <1>9, KeptSome
<1>11. DOMAIN r = 1..Len(r) /\ DOMAIN kept = 1..Len(kept) /\ Len(r) \in Nat /\ Len(kept) \in Nat
  <2> HIDE DEF kept
  <2> QED
    BY <1>9, <1>10
<1>12. ToSet(r) = {r[i] : i \in 1..Len(r)} /\ ToSet(kept) = {kept[i] : i \in 1..Len(kept)}
  BY <1>11, Zenon DEF ToSet
<1>13. \A x \in usable : x.score >= Threshold /\ x \in ToSet(r)
  BY DEF Usable
<1>14. \A x \in ToSet(r) : x \notin usable => ~(x.score >= Threshold)
  BY DEF Usable
<1> HIDE DEF kept, usable
<1>15. found.chunks = kept
  BY <1>1
<1>16. ASSUME NEW i \in 1..Len(kept)
       PROVE  kept[i].score = model[kept[i].chunk] /\ kept[i].score >= Threshold
  <2>1. kept[i] \in ToSet(r) /\ kept[i] \in usable
    BY <1>10, <1>12
  <2>2. PICK j \in 1..Len(r) : r[j] = kept[i]
    BY <1>12, <2>1
  <2> QED
    BY <1>9, <1>13, <2>1, <2>2
<1>17. r = <<>> => ToSet(dense) \cup ToSet(sparse) = {}
  BY <1>3, <1>6, <1>9
<1>18. ASSUME named = {}, r # <<>>, kept = <<>>, NEW c \in ToSet(Shortlist(unnamed, Hybrids(unnamed)))
       PROVE  model[c] < Threshold
  <2>1. c \in ToSet(Shortlist(l, h))
    BY <1>4, <1>18 DEF h
  <2>2. 1 \in 1..Len(r)
    <3>1. Len(r) # 0
      BY <1>9, <1>18
    <3> QED
      BY <1>11, <3>1
  <2>3. r[1] \in ToSet(r) /\ r[1] \notin usable
    <3>1. r[1] \in ToSet(r)
      BY <1>12, <2>2
    <3>2. ToSet(kept) = {}
      BY <1>18 DEF ToSet
    <3> QED
      BY <1>10, <3>1, <3>2
  <2>4. r[1].score \in Int
    <3>1. r[1] \in Hit
      BY <1>9, <2>2
    <3> QED
      BY <3>1 DEF Hit
  <2>5. ~(r[1].score >= Threshold) /\ model[c] <= r[1].score
    BY <1>9, <1>14, <1>18, <2>1, <2>3
  <2>6. model[c] \in Int
    <3>1. ToSet(Shortlist(l, h)) \subseteq ToSet(l)
      BY <1>8, ShortlistFound
    <3> QED
      BY <1>7, <2>1, <3>1
  <2> QED
    BY <1>5, <2>4, <2>5, <2>6
<1>19. found.status = IF r = <<>> THEN "empty" ELSE IF kept = <<>> THEN "below_threshold" ELSE "ok"
  BY <1>1
<1> HIDE DEF found
<1> QED
  BY <1>15, <1>16, <1>17, <1>18, <1>19

\* No sequence is sooner than itself.
LEMMA NotSoonerItself ==
    ASSUME NEW s \in Seq(Nat)
    PROVE  ~Sooner(s, s)
<1> SUFFICES ASSUME NEW n \in 0..Len(s), n < Len(s), n = Len(s) \/ s[n + 1] < s[n + 1]
             PROVE  FALSE
  BY DEF Sooner
<1>1. n + 1 \in 1..Len(s) /\ n # Len(s)
  OBVIOUS
<1>2. s[n + 1] \in Nat
  BY <1>1
<1> QED
  BY <1>1, <1>2

LEMMA AloneInOrder ==
    ASSUME NEW x \in TypedId
    PROVE  Ordered({x}, ByName({x})) = <<x>>
<1> DEFINE o == Ordered({x}, ByName({x}))
<1>1. Name(x) \in Seq(Nat)
  <2>1. x.letters \in Seq(Nat \ 0..9) /\ x.digits \in Seq(0..9)
    BY DEF TypedId
  <2>2. x.letters \in Seq(Nat) /\ x.digits \in Seq(Nat)
    BY <2>1
  <2> QED
    BY <2>2, ConcatProperties DEF Name
<1>2. <<x, x>> \notin ByName({x})
  <2>1. ~Sooner(Name(x), Name(x))
    BY <1>1, NotSoonerItself
  <2> QED
    BY <2>1 DEF ByName
<1>3. StrictOrder({x}, ByName({x}))
  BY <1>2 DEF StrictOrder
<1>4. IsFiniteSet({x}) /\ Cardinality({x}) = 1
  BY FS_Singleton
<1>5. o = [k \in 1..1 |-> o[k]] /\ o[1] \in {x}
  <2>1. o = [k \in 1..Cardinality({x}) |-> o[k]] /\ \A k \in 1..Cardinality({x}) : o[k] \in {x}
    BY <1>3, <1>4, OrderedSorts
  <2> HIDE DEF o
  <2>2. o = [k \in 1..1 |-> o[k]] /\ \A k \in 1..1 : o[k] \in {x}
    BY <1>4, <2>1
  <2> QED
    BY <2>2
<1> HIDE DEF o
<1>6. o = <<x>>
  BY <1>5
<1> QED
  BY <1>6 DEF o

\* What is typed as it stands is a candidate, however many ids are near.
LEMMA TypedIsCandidate ==
    ASSUME NEW near, Fleet(near), NEW raw \in ToSet(near)
    PROVE  raw \in ToSet(CandidateIds(raw, near)) /\ ToSet(CandidateIds(raw, near)) \subseteq ToSet(near)
<1> DEFINE others == ToSet(near) \ {raw}
           a == Kept(near, {raw})
           b == Kept(near, others)
           ab == a \o b
           c == CandidateIds(raw, near)
           known == ToSet(c)
<1>1. near \in Seq(TypedId)
  BY DEF Fleet
<1>2. c = FirstOf(ab, MaxCandidates)
  BY Zenon DEF CandidateIds
<1> HIDE DEF c, TypedId
<1>3. a \in Seq(TypedId) /\ ToSet(a) = ToSet(near) \cap {raw}
  BY <1>1, KeptSome
<1>4. b \in Seq(TypedId) /\ ToSet(b) = ToSet(near) \cap others
  <2> HIDE DEF others
  <2> QED
    BY <1>1, KeptSome
<1> HIDE DEF a, b
<1>5. Len(a) \in Nat /\ Len(a) >= 1 /\ a[1] = raw
  <2>1. ToSet(a) = {raw}
    BY <1>3
  <2>2. Len(a) \in Nat /\ ToSet(a) = {a[i] : i \in 1..Len(a)}
    <3>1. DOMAIN a = 1..Len(a) /\ Len(a) \in Nat
      BY <1>3
    <3> QED
      BY <3>1, Zenon DEF ToSet
  <2>3. PICK i \in 1..Len(a) : a[i] = raw
    BY <2>1, <2>2
  <2>4. 1 \in 1..Len(a)
    BY <2>2, <2>3
  <2>5. a[1] \in {raw}
    BY <2>1, <2>2, <2>4
  <2> QED
    BY <2>2, <2>4, <2>5
<1>6. /\ ab \in Seq(TypedId) /\ Len(ab) = Len(a) + Len(b)
      /\ \A i \in 1..Len(ab) : ab[i] = IF i <= Len(a) THEN a[i] ELSE b[i - Len(a)]
  BY <1>3, <1>4, ConcatProperties
<1>7. \A i \in 1..Len(ab) : ab[i] \in ToSet(near)
  <2> SUFFICES ASSUME NEW i \in 1..Len(ab)
               PROVE  ab[i] \in ToSet(near)
    OBVIOUS
  <2>1. Len(a) \in Nat /\ Len(b) \in Nat
    BY <1>3, <1>4
  <2>2. CASE i <= Len(a)
    <3>1. i \in 1..Len(a) /\ ab[i] = a[i]
      BY <1>6, <2>1, <2>2
    <3>2. a[i] \in ToSet(a)
      BY <1>3, <3>1 DEF ToSet
    <3> QED
      BY <1>3, <3>1, <3>2
  <2>3. CASE ~(i <= Len(a))
    <3>1. i - Len(a) \in 1..Len(b) /\ ab[i] = b[i - Len(a)]
      BY <1>6, <2>1, <2>3
    <3>2. b[i - Len(a)] \in ToSet(b)
      BY <1>4, <3>1 DEF ToSet
    <3> QED
      BY <1>4, <3>1, <3>2
  <2> QED
    BY <2>2, <2>3
<1>8. Len(ab) \in Nat /\ Len(ab) >= 1 /\ ab[1] = raw
  <2>1. Len(a) \in Nat /\ Len(b) \in Nat
    BY <1>3, <1>4
  <2> QED
    BY <1>5, <1>6, <2>1
<1> HIDE DEF ab
<1>9. /\ c \in Seq(TypedId) /\ Len(c) \in 0..Len(ab) /\ (c = <<>> => ab = <<>>)
      /\ \A i \in 1..Len(c) : c[i] = ab[i]
  <2>1. MaxCandidates \in Nat \ {0}
    BY ResolutionAssumption
  <2> QED
    BY <1>2, <1>6, <2>1, FirstOfSome
<1>10. known = {c[i] : i \in 1..Len(c)}
  <2>1. DOMAIN c = 1..Len(c)
    BY <1>9
  <2> QED
    BY <2>1, Zenon DEF ToSet
<1>11. raw \in known /\ known \subseteq ToSet(near)
  <2>1. Len(c) # 0 /\ Len(c) \in Nat
    BY <1>8, <1>9
  <2>2. 1 \in 1..Len(c) /\ c[1] = raw
    BY <1>8, <1>9, <2>1
  <2>3. \A i \in 1..Len(c) : i \in 1..Len(ab)
    BY <1>8, <1>9
  <2> HIDE DEF known
  <2> QED
    BY <1>7, <1>9, <1>10, <2>2, <2>3
<1> QED
  BY <1>11 DEF c

\* An id of the fleet that no other reads like is taken as typed.
LEMMA TypedIsChosen ==
    ASSUME NEW near, Fleet(near), NEW raw \in ToSet(near), \A k \in ToSet(near) \ {raw} : Norm(k) # Norm(raw)
    PROVE  ResolveVehicle(raw, near) = Result("exact", <<raw>>)
<1> DEFINE known == ToSet(CandidateIds(raw, near))
           e == Exact(raw, known)
<1>1. raw \in TypedId /\ Norm(raw) # <<>>
  <2>1. near \in Seq(TypedId) /\ Norm(raw) # <<>>
    BY DEF Fleet
  <2> HIDE DEF TypedId
  <2>2. raw \in TypedId
    BY <2>1 DEF ToSet
  <2> QED
    BY <2>1, <2>2
<1>2. raw \in known /\ known \subseteq ToSet(near)
  BY TypedIsCandidate
<1> HIDE DEF known
<1>3. e = {raw}
  <2>1. {k \in known : Norm(k) = Norm(raw)} = {raw}
    BY <1>2
  <2> QED
    BY <2>1, Zenon DEF Exact
<1>4. Cardinality(e) = 1
  BY <1>3, FS_Singleton
<1>5. Ordered(e, ByName(e)) = <<raw>>
  BY <1>1, <1>3, AloneInOrder
<1> HIDE DEF e
<1>6. Resolve(raw, known) = Result("exact", <<raw>>)
  BY <1>1, <1>4, <1>5, Zenon DEF Resolve, e
<1> QED
  BY <1>6 DEF ResolveVehicle, known

LEMMA EntityBoosts ==
    ASSUME NEW call, NEW near, NEW corpus, Fleet(near),
           FoundBy(corpus.dense, corpus.sparse, corpus.length, corpus.model),
           call.entity.kind = "vehicle" => call.entity = Vehicle(call.entity.id),
           call = [domain |-> call.domain, worded |-> call.worded, entity |-> call.entity]
    PROVE  EntityOnlyBoosts(call, near, corpus)
<1> DEFINE bare == [call EXCEPT !.entity = NoBoost]
           with == RagRetrieval(call, near, corpus)
           without == RagRetrieval(bare, near, corpus)
           fails == ~call.domain \/ ~call.worded \/ ~corpus.fits
           Found(boost) == Search(corpus.dense, corpus.sparse, About(corpus, boost), corpus.length, corpus.model)
           named == Boost(call.entity, near)
<1>1. bare.domain = call.domain /\ bare.worded = call.worded /\ bare.entity = NoBoost
  OBVIOUS
<1>2. Boost(NoBoost, near) = NoBoost
  BY DEF Boost, NoBoost
<1> HIDE DEF bare
<1>3. with = IF fails THEN Failed ELSE Found(named)
  BY Zenon DEF RagRetrieval
<1>4. without = IF fails THEN Failed ELSE Found(NoBoost)
  BY <1>1, <1>2, Zenon DEF RagRetrieval
<1>5. \A boost : /\ Found(boost).status \in {"empty", "below_threshold", "ok"}
                 /\ Found(boost).status = "empty" => ToSet(corpus.dense) \cup ToSet(corpus.sparse) = {}
  BY SearchedOnce
<1>6. Failed.status = "failed"
  BY DEF Failed
<1>7. ASSUME call.entity.kind = "vehicle", ~Chosen(ResolveVehicle(call.entity.id, near))
      PROVE  with = without
  <2>1. named = NoBoost
    BY <1>7, Zenon DEF Boost
  <2> QED
    BY <1>3, <1>4, <2>1
<1>8. ASSUME call.entity.kind = "vehicle", call.entity.id \in ToSet(near),
             \A k \in ToSet(near) \ {call.entity.id} : Norm(k) # Norm(call.entity.id)
      PROVE  with = Found(call.entity) \/ with = Failed
  <2>1. ResolveVehicle(call.entity.id, near) = Result("exact", <<call.entity.id>>)
    BY <1>8, TypedIsChosen
  <2>2. Chosen(Result("exact", <<call.entity.id>>)) /\ Result("exact", <<call.entity.id>>).options[1] = call.entity.id
    BY DEF Result, Chosen
  <2>3. named = Vehicle(call.entity.id)
    BY <1>8, <2>1, <2>2, Zenon DEF Boost
  <2>4. named = call.entity
    BY <1>8, <2>3
  <2> QED
    BY <1>3, <2>4
<1> HIDE DEF with, without, fails, named, Found
<1>9. (with.status = "failed") = (without.status = "failed")
  BY <1>3, <1>4, <1>5, <1>6
<1>10. with.status = "empty" => ToSet(corpus.dense) \cup ToSet(corpus.sparse) = {}
  BY <1>3, <1>5, <1>6
<1> QED
  BY <1>7, <1>8, <1>9, <1>10, Zenon DEF EntityOnlyBoosts, with, without, Found, bare

\* Every search is fair, returns what is strong by itself and filters nothing
\* for what is named, whatever both halves found and however many ids are near
\* (rrf_fuse, rerank, apply_threshold, retrieve and the rag_retrieval tool).
THEOREM SearchesAreRight == WellFormed => SearchesAreFair
<1> SUFFICES ASSUME WellFormed
             PROVE  SearchesAreFair
  OBVIOUS
<1>1. ASSUME IsInput("search")
      PROVE  /\ FusionIsFair(input.dense, input.sparse)
             /\ OnlyStrongReturned(input.dense, input.sparse, input.named, input.length, input.model)
  <2>1. FoundBy(input.dense, input.sparse, input.length, input.model)
    BY <1>1 DEF WellFormed
  <2>2. Ranking(input.dense) /\ Ranking(input.sparse)
    BY <2>1 DEF FoundBy, Ranking, Once
  <2>3. FusionIsFair(input.dense, input.sparse)
    BY <2>2, FusedFairly
  <2>4. OnlyStrongReturned(input.dense, input.sparse, input.named, input.length, input.model)
    BY <2>1, SearchedOnce, Zenon DEF OnlyStrongReturned
  <2> QED
    BY <2>3, <2>4
<1>2. ASSUME IsInput("call")
      PROVE  EntityOnlyBoosts(input.call, input.near, input.corpus)
  BY <1>2, EntityBoosts DEF WellFormed
<1> QED
  BY <1>1, <1>2 DEF SearchesAreFair

-----------------------------------------------------------------------------
(* Ids, as they are compared *)

LcsStep(g, a, b, p) ==
    IF p[1] = 0 \/ p[2] = 0 THEN 0
    ELSE IF a[p[1]] = b[p[2]] THEN g[<<p[1] - 1, p[2] - 1>>] + 1
    ELSE Max({g[<<p[1] - 1, p[2]>>], g[<<p[1], p[2] - 1>>]})

LEMMA MaxOfTwo ==
    ASSUME NEW x \in Nat, NEW y \in Nat
    PROVE  Max({x, y}) \in Nat
<1>1. \E m \in {x, y} : \A z \in {x, y} : z <= m
  OBVIOUS
<1>2. Max({x, y}) \in {x, y}
  BY <1>1 DEF Max
<1> QED
  BY <1>2

\* A step reads three places with less in front of them.
LEMMA StepsBack ==
    ASSUME NEW m \in Nat, NEW n \in Nat, NEW p \in (0..m) \X (0..n), p[1] # 0, p[2] # 0
    PROVE  /\ <<p[1] - 1, p[2] - 1>> \in (0..m) \X (0..n) /\ <<p[1] - 1, p[2]>> \in (0..m) \X (0..n)
           /\ <<p[1], p[2] - 1>> \in (0..m) \X (0..n)
           /\ p[1] \in Nat /\ p[2] \in Nat
OBVIOUS

LEMMA StepCounts ==
    ASSUME NEW m \in Nat, NEW n \in Nat, NEW p \in (0..m) \X (0..n), NEW a, NEW b, NEW g,
           \A q \in (0..m) \X (0..n) : q[1] + q[2] < p[1] + p[2] => g[q] \in Nat
    PROVE  LcsStep(g, a, b, p) \in Nat
<1>1. CASE p[1] = 0 \/ p[2] = 0
  BY <1>1 DEF LcsStep
<1>2. CASE p[1] # 0 /\ p[2] # 0
  <2> DEFINE q == <<p[1] - 1, p[2] - 1>>
             r == <<p[1] - 1, p[2]>>
             s == <<p[1], p[2] - 1>>
  <2>1. /\ \A x \in {q, r, s} : x \in (0..m) \X (0..n)
        /\ p[1] \in Nat /\ p[2] \in Nat
    BY <1>2, StepsBack
  <2>2. /\ q[1] + q[2] < p[1] + p[2] /\ r[1] + r[2] < p[1] + p[2] /\ s[1] + s[2] < p[1] + p[2]
    BY <2>1
  <2>3. LcsStep(g, a, b, p) = IF a[p[1]] = b[p[2]] THEN g[q] + 1 ELSE Max({g[r], g[s]})
    BY <1>2, Zenon DEF LcsStep
  <2> HIDE DEF q, r, s
  <2>4. g[q] \in Nat /\ g[r] \in Nat /\ g[s] \in Nat
    BY <2>1, <2>2
  <2>5. g[q] + 1 \in Nat /\ Max({g[r], g[s]}) \in Nat
    BY <2>4, MaxOfTwo
  <2> QED
    BY <2>3, <2>5, Zenon
<1> QED
  BY <1>1, <1>2

LEMMA StepReadsBack ==
    ASSUME NEW m \in Nat, NEW n \in Nat, NEW p \in (0..m) \X (0..n), NEW a, NEW b, NEW g, NEW h,
           \A q \in (0..m) \X (0..n) : q[1] + q[2] < p[1] + p[2] => g[q] = h[q]
    PROVE  LcsStep(g, a, b, p) = LcsStep(h, a, b, p)
<1>1. CASE p[1] = 0 \/ p[2] = 0
  BY <1>1, Zenon DEF LcsStep
<1>2. CASE p[1] # 0 /\ p[2] # 0
  <2> DEFINE q == <<p[1] - 1, p[2] - 1>>
             r == <<p[1] - 1, p[2]>>
             s == <<p[1], p[2] - 1>>
             Of(f) == IF a[p[1]] = b[p[2]] THEN f[q] + 1 ELSE Max({f[r], f[s]})
  <2>1. /\ \A x \in {q, r, s} : x \in (0..m) \X (0..n)
        /\ p[1] \in Nat /\ p[2] \in Nat
    BY <1>2, StepsBack
  <2>2. /\ q[1] + q[2] < p[1] + p[2] /\ r[1] + r[2] < p[1] + p[2] /\ s[1] + s[2] < p[1] + p[2]
    BY <2>1
  <2>3. LcsStep(g, a, b, p) = Of(g) /\ LcsStep(h, a, b, p) = Of(h)
    BY <1>2, Zenon DEF LcsStep
  <2> HIDE DEF q, r, s
  <2>4. g[q] = h[q] /\ g[r] = h[r] /\ g[s] = h[s]
    BY <2>1, <2>2
  <2> QED
    <3>1. Of(g) = Of(h)
      BY <2>4
    <3> HIDE DEF Of
    <3> QED
      BY <2>3, <3>1
<1> QED
  BY <1>1, <1>2

\* The common subsequence has a length.
LEMMA CommonCounts ==
    ASSUME NEW a, NEW b, Len(a) \in Nat, Len(b) \in Nat
    PROVE  Common(a, b) \in Nat
<1> DEFINE m == Len(a)
           n == Len(b)
           P == (0..m) \X (0..n)
           N == m + n
           Lcs(g) == g = [p \in P |-> LcsStep(g, a, b, p)]
           Good(g, k) == g \in [P -> Nat] /\ \A p \in P : p[1] + p[2] <= k => g[p] = LcsStep(g, a, b, p)
           S == {k \in 0..N : \E g : Good(g, k)}
           lcs == CHOOSE g : Lcs(g)
<1>1. Common(a, b) = lcs[<<m, n>>]
  BY Zenon DEF Common, LcsStep
<1>2. m \in Nat /\ n \in Nat /\ N \in Nat
  OBVIOUS
<1>3. \A p \in P : p[1] \in Nat /\ p[2] \in Nat /\ p[1] + p[2] \in 0..N
  <2> SUFFICES ASSUME NEW p \in P
               PROVE  p[1] \in Nat /\ p[2] \in Nat /\ p[1] + p[2] \in 0..N
    OBVIOUS
  <2>1. p[1] \in 0..m /\ p[2] \in 0..n
    OBVIOUS
  <2> QED
    BY <1>2, <2>1
<1>4. <<m, n>> \in P
  BY <1>2
<1> HIDE DEF m, n, N, lcs
<1> HIDE DEF P
<1>5. 0 \in S
  <2> DEFINE g == [p \in P |-> 0]
  <2>1. ASSUME NEW p \in P, p[1] + p[2] <= 0
        PROVE  LcsStep(g, a, b, p) = 0
    <3>1. p[1] = 0
      BY <1>3, <2>1
    <3> QED
      BY <3>1, Zenon DEF LcsStep
  <2>2. \A p \in P : g[p] = 0
    OBVIOUS
  <2>3. g \in [P -> Nat]
    OBVIOUS
  <2> HIDE DEF g
  <2>4. Good(g, 0)
    BY <2>1, <2>2, <2>3
  <2>5. 0 \in 0..N
    BY <1>2
  <2> QED
    BY <2>4, <2>5
<1>6. ASSUME NEW k \in 0..N, k < N, k \in S
      PROVE  k + 1 \in S
  <2>1. PICK g : Good(g, k)
    BY <1>6
  <2> DEFINE h == [p \in P |-> LcsStep(g, a, b, p)]
  <2>2. \A p \in P : LcsStep(g, a, b, p) \in Nat
    <3> SUFFICES ASSUME NEW p \in P
                 PROVE  LcsStep(g, a, b, p) \in Nat
      OBVIOUS
    <3>1. \A q \in P : g[q] \in Nat
      BY <2>1
    <3> QED
      BY <1>2, <3>1, StepCounts DEF P
  <2>3. h \in [P -> Nat] /\ \A p \in P : h[p] = LcsStep(g, a, b, p)
    BY <2>2
  <2> HIDE DEF h
  <2>4. ASSUME NEW p \in P, p[1] + p[2] <= k + 1
        PROVE  h[p] = LcsStep(h, a, b, p)
    <3>1. ASSUME NEW q \in P, q[1] + q[2] < p[1] + p[2]
          PROVE  g[q] = h[q]
      <4>1. q[1] + q[2] <= k
        <5>1. q[1] + q[2] \in Int /\ p[1] + p[2] \in Int /\ k \in Int
          BY <1>2, <1>3
        <5> QED
          BY <2>4, <3>1, <5>1
      <4> QED
        BY <2>1, <2>3, <4>1
    <3>2. LcsStep(g, a, b, p) = LcsStep(h, a, b, p)
      BY <1>2, <3>1, StepReadsBack DEF P
    <3> QED
      BY <2>3, <3>2
  <2>5. Good(h, k + 1) /\ k + 1 \in 0..N
    BY <1>2, <1>6, <2>3, <2>4
  <2> HIDE DEF Good
  <2> QED
    BY <2>5
<1>7. Lcs(lcs)
  <2>1. N \in 0..N
    BY <1>2
  <2> HIDE DEF S
  <2>2. N \in S
    BY <1>2, <1>5, <1>6, <2>1, OneByOne
  <2>3. PICK g : Good(g, N)
    BY <2>2 DEF S
  <2>4. \A p \in P : g[p] = LcsStep(g, a, b, p)
    BY <1>3, <2>3
  <2>5. g = [p \in P |-> g[p]]
    BY <2>3
  <2>6. Lcs(g)
    BY <2>4, <2>5
  <2> HIDE DEF Lcs
  <2> QED
    BY <2>6 DEF lcs
<1>8. \A p \in P : lcs[p] = LcsStep(lcs, a, b, p)
  BY <1>7
<1> DEFINE T == {k \in 0..N : \A p \in P : p[1] + p[2] <= k => lcs[p] \in Nat}
<1>9. ASSUME NEW k \in 0..N, NEW p \in P, p[1] + p[2] <= k, k = 0 \/ (k - 1 \in T)
      PROVE  lcs[p] \in Nat
  <2>1. ASSUME NEW q \in P, q[1] + q[2] < p[1] + p[2]
        PROVE  lcs[q] \in Nat
    <3>1. q[1] + q[2] \in Nat /\ p[1] + p[2] \in Nat /\ k \in Nat
      BY <1>2, <1>3
    <3>2. k # 0 /\ q[1] + q[2] <= k - 1
      BY <1>9, <2>1, <3>1
    <3> QED
      BY <1>9, <3>2
  <2> QED
    BY <1>2, <1>8, <2>1, StepCounts DEF P
<1>10. 0 \in T
  BY <1>2, <1>9
<1>11. \A k \in 0..N : k < N /\ k \in T => k + 1 \in T
  <2> SUFFICES ASSUME NEW k \in 0..N, k < N, k \in T
               PROVE  k + 1 \in T
    OBVIOUS
  <2>1. k + 1 \in 0..N /\ (k + 1) - 1 = k
    BY <1>2
  <2> QED
    BY <1>9, <2>1
<1>12. N \in T
  <2>1. N \in 0..N
    BY <1>2
  <2> HIDE DEF T
  <2> QED
    BY <1>2, <1>10, <1>11, <2>1, OneByOne
<1>13. lcs[<<m, n>>] \in Nat
  <2>1. <<m, n>>[1] + <<m, n>>[2] <= N
    BY <1>2 DEF N
  <2> QED
    BY <1>4, <1>12, <2>1
<1> QED
  BY <1>1, <1>13

\* What is left of digits when the leading zeros are gone.
LEMMA UnpaddedDigits ==
    ASSUME NEW d \in Seq(0..9)
    PROVE  Unpadded(d) \in Seq(0..9)
<1>1. CASE d = <<>>
  BY <1>1 DEF Unpadded
<1>2. CASE d # <<>>
  <2> DEFINE first == {i \in 1..Len(d) : d[i] # 0 \/ i = Len(d)}
  <2>1. Len(d) \in Nat /\ Len(d) # 0
    BY <1>2
  <2>2. first \in SUBSET Nat /\ first # {} /\ first \subseteq 1..Len(d)
    BY <2>1
  <2>3. Unpadded(d) = SubSeq(d, Min(first), Len(d))
    BY <1>2, Zenon DEF Unpadded
  <2> HIDE DEF first
  <2>4. \E x \in first : \A y \in first : x <= y
    BY <2>2, Least
  <2>5. Min(first) \in 1..Len(d)
    BY <2>2, <2>4 DEF Min
  <2>6. Min(first) \in 1..Len(d) + 1 /\ Len(d) \in Min(first) - 1..Len(d)
    BY <2>1, <2>5
  <2> QED
    BY <2>3, <2>6, SubSeqProperties
<1> QED
  BY <1>1, <1>2

\* Letters are not digits, so an id is read in one way.
LEMMA SplitOnce ==
    ASSUME NEW a \in Seq(Nat \ 0..9), NEW b \in Seq(0..9), NEW c \in Seq(Nat \ 0..9), NEW d \in Seq(0..9), a \o b = c \o d
    PROVE  a = c /\ b = d
<1> DEFINE s == a \o b
<1>1. Len(a) \in Nat /\ Len(b) \in Nat /\ Len(c) \in Nat /\ Len(d) \in Nat
  OBVIOUS
<1>2. /\ Len(s) = Len(a) + Len(b) /\ Len(s) = Len(c) + Len(d)
      /\ \A i \in 1..Len(s) : s[i] = IF i <= Len(a) THEN a[i] ELSE b[i - Len(a)]
      /\ \A i \in 1..Len(s) : s[i] = IF i <= Len(c) THEN c[i] ELSE d[i - Len(c)]
  <2>1. a \in Seq(Nat) /\ b \in Seq(Nat) /\ c \in Seq(Nat) /\ d \in Seq(Nat)
    OBVIOUS
  <2>2. /\ Len(a \o b) = Len(a) + Len(b)
        /\ \A i \in 1..Len(a) + Len(b) : (a \o b)[i] = IF i <= Len(a) THEN a[i] ELSE b[i - Len(a)]
    BY <2>1, ConcatProperties
  <2>3. /\ Len(c \o d) = Len(c) + Len(d)
        /\ \A i \in 1..Len(c) + Len(d) : (c \o d)[i] = IF i <= Len(c) THEN c[i] ELSE d[i - Len(c)]
    BY <2>1, ConcatProperties
  <2>4. s = a \o b /\ s = c \o d
    OBVIOUS
  <2> HIDE DEF s
  <2> QED
    BY <2>2, <2>3, <2>4
<1> HIDE DEF s
<1>3. /\ \A i \in 1..Len(a) : a[i] \notin 0..9
      /\ \A i \in 1..Len(b) : b[i] \in 0..9
      /\ \A i \in 1..Len(c) : c[i] \notin 0..9
      /\ \A i \in 1..Len(d) : d[i] \in 0..9
  OBVIOUS
<1>4. ~(Len(a) < Len(c))
  <2> SUFFICES ASSUME Len(a) < Len(c)
               PROVE  FALSE
    OBVIOUS
  <2> DEFINE i == Len(a) + 1
  <2>1. i \in 1..Len(s) /\ i \in 1..Len(c) /\ i <= Len(c) /\ ~(i <= Len(a)) /\ i - Len(a) = 1 /\ 1 \in 1..Len(b)
    BY <1>1, <1>2, SMTT(30)
  <2> HIDE DEF i
  <2>2. s[i] = b[1] /\ s[i] = c[i]
    BY <1>2, <2>1
  <2> QED
    BY <1>3, <2>1, <2>2
<1>5. ~(Len(c) < Len(a))
  <2> SUFFICES ASSUME Len(c) < Len(a)
               PROVE  FALSE
    OBVIOUS
  <2> DEFINE i == Len(c) + 1
  <2>1. i \in 1..Len(s) /\ i \in 1..Len(a) /\ i <= Len(a) /\ ~(i <= Len(c)) /\ i - Len(c) = 1 /\ 1 \in 1..Len(d)
    BY <1>1, <1>2, SMTT(30)
  <2> HIDE DEF i
  <2>2. s[i] = d[1] /\ s[i] = a[i]
    BY <1>2, <2>1
  <2> QED
    BY <1>3, <2>1, <2>2
<1>6. Len(a) = Len(c) /\ Len(b) = Len(d)
  BY <1>1, <1>2, <1>4, <1>5
<1>7. \A i \in 1..Len(a) : a[i] = c[i]
  <2> SUFFICES ASSUME NEW i \in 1..Len(a)
               PROVE  a[i] = c[i]
    OBVIOUS
  <2>1. i \in 1..Len(s) /\ i <= Len(a) /\ i <= Len(c)
    BY <1>1, <1>2, <1>6
  <2> QED
    BY <1>2, <2>1
<1>8. \A i \in 1..Len(b) : b[i] = d[i]
  <2> SUFFICES ASSUME NEW i \in 1..Len(b)
               PROVE  b[i] = d[i]
    OBVIOUS
  <2> DEFINE k == Len(a) + i
  <2>1. k \in 1..Len(s) /\ ~(k <= Len(a)) /\ ~(k <= Len(c)) /\ k - Len(a) = i /\ k - Len(c) = i
    BY <1>1, <1>2, <1>6
  <2> HIDE DEF k
  <2>2. s[k] = b[i] /\ s[k] = d[i]
    BY <1>2, <2>1
  <2> QED
    BY <2>2
<1>9. a = c
  <2>1. a = [i \in 1..Len(a) |-> a[i]] /\ c = [i \in 1..Len(c) |-> c[i]]
    OBVIOUS
  <2> QED
    BY <1>6, <1>7, <2>1
<1>10. b = d
  <2>1. b = [i \in 1..Len(b) |-> b[i]] /\ d = [i \in 1..Len(d) |-> d[i]]
    OBVIOUS
  <2> QED
    BY <1>6, <1>8, <2>1
<1> QED
  BY <1>9, <1>10

LEMMA NormsSplit ==
    ASSUME NEW id \in TypedId, NEW k \in TypedId
    PROVE  /\ Norm(id) \in Seq(Nat) /\ Name(id) \in Seq(Nat)
           /\ Norm(id) = Norm(k) => Unpadded(id.digits) = Unpadded(k.digits)
           /\ Name(id) = Name(k) => id = k
<1>1. /\ id.letters \in Seq(Nat \ 0..9) /\ id.digits \in Seq(0..9)
      /\ k.letters \in Seq(Nat \ 0..9) /\ k.digits \in Seq(0..9)
      /\ id = [letters |-> id.letters, digits |-> id.digits] /\ k = [letters |-> k.letters, digits |-> k.digits]
  BY DEF TypedId
<1>2. Unpadded(id.digits) \in Seq(0..9) /\ Unpadded(k.digits) \in Seq(0..9)
  BY <1>1, UnpaddedDigits
<1>3. Norm(id) \in Seq(Nat) /\ Name(id) \in Seq(Nat)
  <2>1. \A s : s \in Seq(0..9) => s \in Seq(Nat)
    OBVIOUS
  <2>2. \A s : s \in Seq(Nat \ 0..9) => s \in Seq(Nat)
    OBVIOUS
  <2>3. id.letters \in Seq(Nat) /\ id.digits \in Seq(Nat) /\ Unpadded(id.digits) \in Seq(Nat)
    BY <1>1, <1>2, <2>1, <2>2, Zenon
  <2> QED
    BY <2>3, ConcatProperties DEF Norm, Name
<1>4. Norm(id) = Norm(k) => Unpadded(id.digits) = Unpadded(k.digits)
  BY <1>1, <1>2, SplitOnce, Zenon DEF Norm
<1>5. Name(id) = Name(k) => id.letters = k.letters /\ id.digits = k.digits
  BY <1>1, SplitOnce, Zenon DEF Name
<1>6. Name(id) = Name(k) => id = k
  BY <1>1, <1>5, Zenon
<1> QED
  BY <1>3, <1>4, <1>6

\* The order of names: the first place where they differ decides.
LEMMA SoonerOrders ==
    ASSUME NEW s \in Seq(Nat), NEW t \in Seq(Nat)
    PROVE  /\ s = t \/ Sooner(s, t) \/ Sooner(t, s)
           /\ \A u \in Seq(Nat) : Sooner(s, t) /\ Sooner(t, u) => Sooner(s, u)
<1> DEFINE M == Len(s)
           N == Len(t)
<1>1. M \in Nat /\ N \in Nat /\ (\A i \in 1..M : s[i] \in Nat) /\ (\A i \in 1..N : t[i] \in Nat)
  OBVIOUS
<1>2. s = t \/ Sooner(s, t) \/ Sooner(t, s)
  <2> DEFINE D == {n \in Nat : n < M /\ n < N /\ s[n + 1] # t[n + 1]}
  <2>1. CASE D # {}
    <3>1. D \in SUBSET Nat
      OBVIOUS
    <3> HIDE DEF D
    <3>2. PICK n \in D : \A m \in D : n <= m
      BY <2>1, <3>1, Least
    <3>3. n \in Nat /\ n < M /\ n < N /\ s[n + 1] # t[n + 1]
      BY <3>2 DEF D
    <3>4. ASSUME NEW i \in 1..n
          PROVE  s[i] = t[i]
      <4>1. i - 1 \in Nat /\ i - 1 < n /\ (i - 1) + 1 = i /\ i - 1 < M /\ i - 1 < N
        BY <1>1, <3>3
      <4>2. i - 1 \notin D
        BY <3>2, <3>3, <4>1
      <4> QED
        BY <4>1, <4>2 DEF D
    <3>5. n + 1 \in 1..M /\ n + 1 \in 1..N /\ n \in 0..M /\ n \in 0..N
      BY <1>1, <3>3
    <3>6. s[n + 1] < t[n + 1] \/ t[n + 1] < s[n + 1]
      BY <1>1, <3>3, <3>5
    <3> QED
      BY <3>3, <3>4, <3>5, <3>6 DEF Sooner, M, N
  <2>2. CASE D = {}
    <3>1. ASSUME NEW i \in 1..M, i <= N
          PROVE  s[i] = t[i]
      <4>1. i - 1 \in Nat /\ i - 1 < M /\ i - 1 < N /\ (i - 1) + 1 = i
        BY <1>1, <3>1
      <4>2. i - 1 \notin D
        BY <2>2
      <4> QED
        BY <4>1, <4>2
    <3>2. CASE M = N
      <4>1. \A i \in 1..M : s[i] = t[i]
        BY <1>1, <3>1, <3>2
      <4> QED
        BY <3>2, <4>1
    <3>3. CASE M < N
      <4>1. M \in 0..M /\ \A i \in 1..M : s[i] = t[i]
        BY <1>1, <3>1, <3>3
      <4> QED
        BY <3>3, <4>1 DEF Sooner
    <3>4. CASE N < M
      <4>1. N \in 0..N /\ \A i \in 1..N : t[i] = s[i]
        BY <1>1, <3>1, <3>4
      <4> QED
        BY <3>4, <4>1 DEF Sooner
    <3> QED
      BY <1>1, <3>2, <3>3, <3>4
  <2> QED
    BY <2>1, <2>2
<1>3. ASSUME NEW u \in Seq(Nat), Sooner(s, t), Sooner(t, u)
      PROVE  Sooner(s, u)
  <2> DEFINE L == Len(u)
  <2>1. L \in Nat /\ \A i \in 1..L : u[i] \in Nat
    OBVIOUS
  <2>2. PICK m \in 0..M : m < N /\ (\A i \in 1..m : s[i] = t[i]) /\ (m = M \/ s[m + 1] < t[m + 1])
    BY <1>3 DEF Sooner
  <2>3. PICK n \in 0..N : n < L /\ (\A i \in 1..n : t[i] = u[i]) /\ (n = N \/ t[n + 1] < u[n + 1])
    BY <1>3 DEF Sooner
  <2> HIDE DEF L, M, N
  <2>4. CASE m < n
    <3>1. m < L /\ \A i \in 1..m : s[i] = u[i]
      BY <1>1, <2>1, <2>2, <2>3, <2>4
    <3>2. t[m + 1] = u[m + 1]
      BY <1>1, <2>2, <2>3, <2>4
    <3>3. m = M \/ s[m + 1] < u[m + 1]
      BY <2>2, <3>2
    <3> QED
      BY <2>2, <3>1, <3>3 DEF Sooner, L, M
  <2>5. CASE n < m
    <3>1. n \in 0..M /\ n # N /\ n # M /\ \A i \in 1..n : s[i] = u[i]
      BY <1>1, <2>1, <2>2, <2>3, <2>5
    <3>2. s[n + 1] = t[n + 1]
      BY <1>1, <2>2, <2>3, <2>5
    <3>3. s[n + 1] < u[n + 1]
      BY <2>3, <3>1, <3>2
    <3> QED
      BY <2>3, <3>1, <3>3 DEF Sooner, L, M
  <2>6. CASE m = n
    <3>1. m < L /\ n # N /\ \A i \in 1..m : s[i] = u[i]
      BY <1>1, <2>1, <2>2, <2>3, <2>6
    <3>2. m = M \/ s[m + 1] < u[m + 1]
      <4> SUFFICES ASSUME m # M
                   PROVE  s[m + 1] < u[m + 1]
        OBVIOUS
      <4>1. s[m + 1] < t[m + 1] /\ t[m + 1] < u[m + 1]
        BY <2>2, <2>3, <2>6, <3>1
      <4>2. m + 1 \in 1..M /\ m + 1 \in 1..N /\ m + 1 \in 1..L
        BY <1>1, <2>1, <2>2, <2>3, <3>1
      <4>3. s[m + 1] \in Nat /\ t[m + 1] \in Nat /\ u[m + 1] \in Nat
        BY <1>1, <2>1, <4>2
      <4> QED
        BY <4>1, <4>3
    <3> QED
      BY <2>2, <3>1, <3>2 DEF Sooner, L, M
  <2> QED
    BY <1>1, <2>2, <2>3, <2>4, <2>5, <2>6
<1> QED
  BY <1>2, <1>3

\* Fractions: what one is of, the other may be more of.
LEMMA MoreOfMore ==
    ASSUME NEW a \in Nat, NEW b \in Nat, NEW c \in Nat, NEW x \in Nat \ {0}, NEW y \in Nat \ {0}, NEW z \in Nat \ {0},
           b * x <= a * y, c * y <= b * z
    PROVE  /\ c * x <= a * z
           /\ b * x < a * y \/ c * y < b * z => c * x < a * z
<1>1. /\ a * y \in Nat /\ b * x \in Nat /\ b * z \in Nat /\ c * y \in Nat /\ a * z \in Nat /\ c * x \in Nat
  OBVIOUS
<1>2. (b * x) * z <= (a * y) * z /\ (b * x < a * y => (b * x) * z < (a * y) * z)
  <2> DEFINE p == b * x
             q == a * y
  <2>1. p \in Nat /\ q \in Nat /\ p <= q
    BY <1>1
  <2> HIDE DEF p, q
  <2>2. q - p \in Nat /\ q * z = p * z + (q - p) * z
    BY <2>1
  <2>3. (q - p) * z \in Nat /\ (p < q => (q - p) * z > 0) /\ p * z \in Nat
    <3> DEFINE d == q - p
    <3>1. d \in Nat /\ (p < q => d > 0)
      BY <2>1
    <3> HIDE DEF d
    <3>2. d * z \in Nat /\ (d > 0 => d * z > 0)
      BY <3>1
    <3> QED
      BY <2>1, <3>1, <3>2 DEF d
  <2>4. p * z <= q * z /\ (p < q => p * z < q * z)
    BY <2>2, <2>3
  <2> QED
    BY <2>4 DEF p, q
<1>3. (c * y) * x <= (b * z) * x /\ (c * y < b * z => (c * y) * x < (b * z) * x)
  <2> DEFINE p == c * y
             q == b * z
  <2>1. p \in Nat /\ q \in Nat /\ p <= q
    BY <1>1
  <2> HIDE DEF p, q
  <2>2. q - p \in Nat /\ q * x = p * x + (q - p) * x
    BY <2>1
  <2>3. (q - p) * x \in Nat /\ (p < q => (q - p) * x > 0) /\ p * x \in Nat
    <3> DEFINE d == q - p
    <3>1. d \in Nat /\ (p < q => d > 0)
      BY <2>1
    <3> HIDE DEF d
    <3>2. d * x \in Nat /\ (d > 0 => d * x > 0)
      BY <3>1
    <3> QED
      BY <2>1, <3>1, <3>2 DEF d
  <2>4. p * x <= q * x /\ (p < q => p * x < q * x)
    BY <2>2, <2>3
  <2> QED
    BY <2>4 DEF p, q
<1>4. (b * x) * z = (b * z) * x /\ (a * y) * z = (a * z) * y /\ (c * y) * x = (c * x) * y
  OBVIOUS
<1> DEFINE p == c * x
           q == a * z
<1>5. p * y <= q * y /\ (b * x < a * y \/ c * y < b * z => p * y < q * y)
  <2>1. (c * y) * x \in Nat /\ (b * z) * x \in Nat /\ (a * y) * z \in Nat
    BY <1>1
  <2> QED
    BY <1>2, <1>3, <1>4, <2>1
<1>6. p \in Nat /\ q \in Nat
  BY <1>1
<1>7. ASSUME NEW i \in Nat, NEW j \in Nat, i > j
      PROVE  i * y > j * y /\ i * y \in Nat /\ j * y \in Nat
  <2>1. i - j \in Nat /\ i - j > 0 /\ i * y = j * y + (i - j) * y
    BY <1>7
  <2> DEFINE d == i - j
  <2>2. d \in Nat /\ d > 0
    BY <2>1
  <2> HIDE DEF d
  <2>3. d * y \in Nat /\ d * y > 0
    BY <2>2
  <2>4. i * y \in Nat /\ j * y \in Nat
    OBVIOUS
  <2> QED
    BY <2>1, <2>3, <2>4 DEF d
<1>8. p * y \in Nat /\ q * y \in Nat
  BY <1>6
<1> HIDE DEF p, q
<1>9. ~(p > q)
  BY <1>5, <1>6, <1>7, <1>8
<1>10. p * y < q * y => p # q
  BY <1>8
<1> QED
  BY <1>5, <1>6, <1>9, <1>10 DEF p, q

LEMMA Measures ==
    ASSUME NEW raw \in TypedId, Norm(raw) # <<>>, NEW k \in TypedId
    PROVE  Common(Norm(raw), Norm(k)) \in Nat /\ Len(Norm(raw)) + Len(Norm(k)) \in Nat \ {0}
<1>1. Norm(raw) \in Seq(Nat) /\ Norm(k) \in Seq(Nat)
  BY NormsSplit
<1>2. Len(Norm(raw)) \in Nat /\ Len(Norm(k)) \in Nat /\ Len(Norm(raw)) # 0
  BY <1>1
<1> QED
  BY <1>2, CommonCounts

LEMMA CloserInTurn ==
    ASSUME NEW raw \in TypedId, Norm(raw) # <<>>, NEW x \in TypedId, NEW y \in TypedId
    PROVE  /\ Closer(raw, x, y) => ~Closer(raw, y, x)
           /\ \A z \in TypedId : ~Closer(raw, y, x) /\ ~Closer(raw, z, y) =>
                /\ ~Closer(raw, z, x)
                /\ Closer(raw, x, y) \/ Closer(raw, y, z) => Closer(raw, x, z)
           /\ \A score \in Nat : Closer(raw, x, y) /\ Alike(raw, y, score) => Alike(raw, x, score)
<1> DEFINE C(k) == Common(Norm(raw), Norm(k))
           W(k) == Len(Norm(raw)) + Len(Norm(k))
<1>1. \A k \in TypedId : C(k) \in Nat /\ W(k) \in Nat \ {0}
  BY Measures
<1>2. \A k, l : Closer(raw, k, l) <=> C(k) * W(l) > C(l) * W(k)
  BY Zenon DEF Closer
<1>3. \A k, score : Alike(raw, k, score) <=> 200 * C(k) >= score * W(k)
  BY Zenon DEF Alike
<1> HIDE DEF C, W
<1>4. \A k, l \in TypedId : C(k) * W(l) \in Nat
  <2> SUFFICES ASSUME NEW k \in TypedId, NEW l \in TypedId
               PROVE  C(k) * W(l) \in Nat
    OBVIOUS
  <2> DEFINE c == C(k)
             w == W(l)
  <2>1. c \in Nat /\ w \in Nat
    BY <1>1
  <2> HIDE DEF c, w
  <2>2. c * w \in Nat
    BY <2>1
  <2> QED
    BY <2>2 DEF c, w
<1>5. Closer(raw, x, y) => ~Closer(raw, y, x)
  <2>1. C(x) * W(y) \in Nat /\ C(y) * W(x) \in Nat
    BY <1>4
  <2>2. Closer(raw, x, y) <=> C(x) * W(y) > C(y) * W(x)
    BY <1>2
  <2>3. Closer(raw, y, x) <=> C(y) * W(x) > C(x) * W(y)
    BY <1>2
  <2> QED
    BY <2>1, <2>2, <2>3
<1>6. ASSUME NEW z \in TypedId, ~Closer(raw, y, x), ~Closer(raw, z, y)
      PROVE  ~Closer(raw, z, x) /\ (Closer(raw, x, y) \/ Closer(raw, y, z) => Closer(raw, x, z))
  <2>1. /\ C(x) \in Nat /\ C(y) \in Nat /\ C(z) \in Nat
        /\ W(x) \in Nat \ {0} /\ W(y) \in Nat \ {0} /\ W(z) \in Nat \ {0}
    BY <1>1
  <2>2. /\ C(x) * W(y) \in Nat /\ C(y) * W(x) \in Nat /\ C(y) * W(z) \in Nat
        /\ C(z) * W(y) \in Nat /\ C(x) * W(z) \in Nat /\ C(z) * W(x) \in Nat
    BY <1>4
  <2>3. /\ ~(C(y) * W(x) > C(x) * W(y)) /\ ~(C(z) * W(y) > C(y) * W(z))
        /\ Closer(raw, x, y) <=> C(x) * W(y) > C(y) * W(x)
        /\ Closer(raw, y, z) <=> C(y) * W(z) > C(z) * W(y)
        /\ Closer(raw, x, z) <=> C(x) * W(z) > C(z) * W(x)
        /\ Closer(raw, z, x) <=> C(z) * W(x) > C(x) * W(z)
    <3>1. ~(C(y) * W(x) > C(x) * W(y)) /\ ~(C(z) * W(y) > C(y) * W(z))
      BY <1>2, <1>6
    <3>2. Closer(raw, x, y) <=> C(x) * W(y) > C(y) * W(x)
      BY <1>2
    <3>3. Closer(raw, y, z) <=> C(y) * W(z) > C(z) * W(y)
      BY <1>2
    <3>4. Closer(raw, x, z) <=> C(x) * W(z) > C(z) * W(x)
      BY <1>2
    <3>5. Closer(raw, z, x) <=> C(z) * W(x) > C(x) * W(z)
      BY <1>2
    <3> QED
      BY <3>1, <3>2, <3>3, <3>4, <3>5
  <2>4. C(y) * W(x) <= C(x) * W(y) /\ C(z) * W(y) <= C(y) * W(z)
    BY <2>2, <2>3
  <2>5. /\ C(z) * W(x) <= C(x) * W(z)
        /\ C(y) * W(x) < C(x) * W(y) \/ C(z) * W(y) < C(y) * W(z) => C(z) * W(x) < C(x) * W(z)
    BY <2>1, <2>4, MoreOfMore
  <2> QED
    BY <2>2, <2>3, <2>5
<1>7. ASSUME NEW score \in Nat, Closer(raw, x, y), Alike(raw, y, score)
      PROVE  Alike(raw, x, score)
  <2>1. C(x) \in Nat /\ C(y) \in Nat /\ W(x) \in Nat \ {0} /\ W(y) \in Nat \ {0} /\ 200 \in Nat \ {0}
    BY <1>1
  <2>2. C(x) * W(y) \in Nat /\ C(y) * W(x) \in Nat
    BY <1>4
  <2>3. C(y) * W(x) <= C(x) * W(y)
    <3>1. C(x) * W(y) > C(y) * W(x)
      BY <1>2, <1>7
    <3> QED
      BY <2>2, <3>1
  <2>4. score * W(y) <= C(y) * 200
    <3>1. 200 * C(y) >= score * W(y)
      BY <1>3, <1>7
    <3> DEFINE a == score * W(y)
    <3>2. a \in Int
      BY <2>1
    <3> HIDE DEF a
    <3>3. 200 * C(y) >= a
      BY <3>1 DEF a
    <3>4. a <= C(y) * 200
      BY <2>1, <3>2, <3>3
    <3> QED
      BY <3>4 DEF a
  <2>5. score * W(x) <= C(x) * 200
    <3> DEFINE h == 200
    <3>1. h \in Nat \ {0} /\ score * W(y) <= C(y) * h
      BY <2>4
    <3> HIDE DEF h
    <3>2. score * W(x) <= C(x) * h
      BY <2>1, <2>3, <3>1, MoreOfMore
    <3> QED
      BY <3>2 DEF h
  <2>6. 200 * C(x) >= score * W(x)
    <3> DEFINE a == score * W(x)
    <3>1. a \in Int
      BY <2>1
    <3> HIDE DEF a
    <3>2. a <= C(x) * 200
      BY <2>5 DEF a
    <3>3. 200 * C(x) >= a
      BY <2>1, <3>1, <3>2
    <3> QED
      BY <3>3 DEF a
  <2> QED
    BY <1>3, <2>6
<1> QED
  BY <1>5, <1>6, <1>7

LEMMA NamesInTurn ==
    ASSUME NEW x \in TypedId, NEW y \in TypedId
    PROVE  /\ ~(Sooner(Name(x), Name(y)) /\ Sooner(Name(y), Name(x)))
           /\ x = y \/ Sooner(Name(x), Name(y)) \/ Sooner(Name(y), Name(x))
           /\ \A z \in TypedId : Sooner(Name(x), Name(y)) /\ Sooner(Name(y), Name(z)) => Sooner(Name(x), Name(z))
<1>1. \A k \in TypedId : Name(k) \in Seq(Nat)
  BY NormsSplit
<1>2. /\ Name(x) = Name(y) \/ Sooner(Name(x), Name(y)) \/ Sooner(Name(y), Name(x))
      /\ \A u \in Seq(Nat) : Sooner(Name(x), Name(y)) /\ Sooner(Name(y), u) => Sooner(Name(x), u)
  BY <1>1, SoonerOrders
<1>3. ~Sooner(Name(x), Name(x))
  BY <1>1, NotSoonerItself
<1>4. Name(x) = Name(y) => x = y
  BY NormsSplit
<1> QED
  BY <1>1, <1>2, <1>3, <1>4

LEMMA ByNameOrders ==
    ASSUME NEW S \in SUBSET TypedId
    PROVE  StrictOrder(S, ByName(S))
<1>1. \A x, y \in S : <<x, y>> \in ByName(S) <=> Sooner(Name(x), Name(y))
  BY DEF ByName
<1>2. \A x, y, z \in S :
        /\ ~(Sooner(Name(x), Name(y)) /\ Sooner(Name(y), Name(x)))
        /\ x = y \/ Sooner(Name(x), Name(y)) \/ Sooner(Name(y), Name(x))
        /\ Sooner(Name(x), Name(y)) /\ Sooner(Name(y), Name(z)) => Sooner(Name(x), Name(z))
  BY NamesInTurn
<1> QED
  BY <1>1, <1>2 DEF StrictOrder

LEMMA ByScoreOrders ==
    ASSUME NEW raw \in TypedId, Norm(raw) # <<>>, NEW S \in SUBSET TypedId
    PROVE  StrictOrder(S, ByScore(raw, S))
<1> DEFINE Before(x, y) == Closer(raw, x, y) \/ (~Closer(raw, y, x) /\ Sooner(Name(x), Name(y)))
<1>1. \A x, y \in S : <<x, y>> \in ByScore(raw, S) <=> Before(x, y)
  BY DEF ByScore
<1>2. ASSUME NEW x \in S, NEW y \in S
      PROVE  /\ Before(x, y) => ~Before(y, x)
             /\ x = y \/ Before(x, y) \/ Before(y, x)
             /\ Before(x, y) => ~Closer(raw, y, x)
  <2>1. /\ x \in TypedId /\ y \in TypedId
        /\ Closer(raw, x, y) => ~Closer(raw, y, x)
        /\ Closer(raw, y, x) => ~Closer(raw, x, y)
    BY CloserInTurn
  <2>2. /\ ~(Sooner(Name(x), Name(y)) /\ Sooner(Name(y), Name(x)))
        /\ x = y \/ Sooner(Name(x), Name(y)) \/ Sooner(Name(y), Name(x))
    BY <2>1, NamesInTurn
  <2> QED
    BY <2>1, <2>2
<1>3. ASSUME NEW x \in S, NEW y \in S, NEW z \in S, Before(x, y), Before(y, z)
      PROVE  Before(x, z)
  <2>1. x \in TypedId /\ y \in TypedId /\ z \in TypedId /\ ~Closer(raw, y, x) /\ ~Closer(raw, z, y)
    BY <1>2, <1>3
  <2>2. ~Closer(raw, z, x) /\ (Closer(raw, x, y) \/ Closer(raw, y, z) => Closer(raw, x, z))
    BY <2>1, CloserInTurn
  <2>3. Sooner(Name(x), Name(y)) /\ Sooner(Name(y), Name(z)) => Sooner(Name(x), Name(z))
    BY <2>1, NamesInTurn
  <2> QED
    BY <1>3, <2>2, <2>3
<1> HIDE DEF Before
<1> QED
  BY <1>1, <1>2, <1>3 DEF StrictOrder

\* The first of a set in order: of the set, and the first one before all.
LEMMA FirstsOf ==
    ASSUME NEW S, IsFiniteSet(S), S # {}, NEW before, StrictOrder(S, before), NEW k \in Nat \ {0}
    PROVE  LET o == Ordered(S, before)
               f == FirstOf(o, k)
           IN  /\ f # <<>> /\ ToSet(f) \subseteq S /\ (\A i \in 1..Len(f) : f[i] \in S)
               /\ f[1] = o[1] /\ f[1] \in S
               /\ \A y \in S : y = f[1] \/ <<f[1], y>> \in before
               /\ Cardinality(S) <= k => ToSet(f) = S
<1> DEFINE o == Ordered(S, before)
           n == Cardinality(S)
           f == FirstOf(o, k)
<1>1. /\ n \in Nat /\ o = [i \in 1..n |-> o[i]]
      /\ \A i \in 1..n : o[i] \in S
      /\ \A x \in S : \E i \in 1..n : o[i] = x
      /\ \A i, l \in 1..n : i < l => <<o[i], o[l]>> \in before
  BY OrderedSorts
<1>2. n # 0
  BY <1>1
<1> HIDE DEF o, n
<1>3. o \in Seq(S) /\ Len(o) = n
  <2>1. o \in [1..n -> S]
    BY <1>1
  <2> QED
    BY <1>1, <2>1
<1>4. /\ f \in Seq(S) /\ Len(f) \in 0..n /\ (n <= k => Len(f) = n) /\ (f = <<>> => o = <<>>)
      /\ \A i \in 1..Len(f) : f[i] = o[i]
  BY <1>3, FirstOfSome
<1> HIDE DEF f
<1>5. f # <<>> /\ 1 \in 1..Len(f) /\ 1 \in 1..n
  <2>1. o # <<>>
    BY <1>2, <1>3
  <2>2. Len(f) # 0 /\ Len(f) \in Nat
    BY <1>4, <2>1
  <2> QED
    BY <1>1, <1>4, <2>1, <2>2
<1>6. ToSet(f) = {f[i] : i \in 1..Len(f)}
  <2>1. DOMAIN f = 1..Len(f)
    BY <1>4
  <2> QED
    BY <2>1, Zenon DEF ToSet
<1>7. \A i \in 1..Len(f) : f[i] \in S
  BY <1>4
<1>8. f[1] = o[1] /\ f[1] \in S
  BY <1>4, <1>5, <1>7
<1>9. ASSUME NEW y \in S, y # f[1]
      PROVE  <<f[1], y>> \in before
  <2>1. PICK i \in 1..n : o[i] = y
    BY <1>1
  <2>2. i # 1
    BY <1>8, <1>9, <2>1
  <2>3. 1 < i
    BY <1>1, <2>2
  <2> QED
    BY <1>1, <1>5, <1>8, <2>1, <2>3
<1>10. n <= k => ToSet(f) = S
  <2> SUFFICES ASSUME n <= k
               PROVE  S \subseteq ToSet(f)
    BY <1>6, <1>7
  <2>1. Len(f) = n
    BY <1>4
  <2>2. \A i \in 1..n : f[i] = o[i]
    BY <1>4, <2>1
  <2> QED
    BY <1>1, <1>6, <2>1, <2>2
<1> QED
  BY <1>5, <1>6, <1>7, <1>8, <1>9, <1>10 DEF f, n, o

\* What is exact reads as typed, or has its digits when letters are missing,
\* and every id that reads like an exact one is exact itself.
LEMMA ExactReads ==
    ASSUME NEW raw \in TypedId, NEW known \in SUBSET TypedId
    PROVE  /\ Exact(raw, known) \in SUBSET known
           /\ \A x \in Exact(raw, known) :
                /\ Unpadded(x.digits) = Unpadded(raw.digits)
                /\ \A k \in known : Norm(k) = Norm(x) => k \in Exact(raw, known)
           /\ \A k \in known : Norm(k) = Norm(raw) =>
                k \in Exact(raw, known) /\ \A x \in Exact(raw, known) : Norm(x) = Norm(raw)
<1> DEFINE same == {k \in known : Norm(k) = Norm(raw)}
           e == Exact(raw, known)
<1>1. \A k \in known, l \in known \cup {raw} : Norm(k) = Norm(l) => Unpadded(k.digits) = Unpadded(l.digits)
  <2>1. \A k, l \in TypedId : Norm(k) = Norm(l) => Unpadded(k.digits) = Unpadded(l.digits)
    BY NormsSplit
  <2>2. \A k \in known \cup {raw} : k \in TypedId
    OBVIOUS
  <2> HIDE DEF same, e
  <2> QED
    BY <2>1, <2>2
<1>2. CASE same # {} \/ raw.letters # <<>>
  <2>1. e = same
    BY <1>2, Zenon DEF Exact
  <2>2. \A x \in same : Unpadded(x.digits) = Unpadded(raw.digits)
    BY <1>1
  <2> QED
    BY <2>1, <2>2
<1>3. CASE ~(same # {} \/ raw.letters # <<>>)
  <2>1. e = {k \in known : Unpadded(k.digits) = Unpadded(raw.digits)}
    BY <1>3, Zenon DEF Exact
  <2>2. \A k \in known : Norm(k) # Norm(raw)
    BY <1>3
  <2> QED
    BY <1>1, <2>1, <2>2
<1> QED
  BY <1>2, <1>3

\* An id is not guessed, whichever ids are known.
LEMMA AsksFirst ==
    ASSUME NEW raw \in TypedId, NEW known \in SUBSET TypedId, IsFiniteSet(known), \A k \in known : Norm(k) # <<>>
    PROVE  AsksRatherThanGuesses(raw, known)
<1> DEFINE exact == Exact(raw, known)
           strong == {k \in known : Alike(raw, k, AutoAccept)}
           close == {k \in known : Alike(raw, k, Disambiguate)}
           firsts == FirstOf(Ordered(exact, ByName(exact)), MaxSuggestions)
           best == Ordered(strong, ByScore(raw, strong))[1]
           nearest == FirstOf(Ordered(close, ByScore(raw, close)), MaxSuggestions)
           Asks(status, options) ==
               /\ ToSet(options) \subseteq known
               /\ status \in {"exact", "fuzzy"} => \A k \in known \ ToSet(options) :
                    Norm(k) # Norm(options[1]) /\ (status = "fuzzy" => ~Alike(raw, k, AutoAccept))
               /\ status # "exact" /\ options # <<>> =>
                    \/ \A k \in known : ~Closer(raw, k, options[1])
                    \/ \A i \in 1..Len(options) : Unpadded(options[i].digits) = Unpadded(raw.digits)
               /\ status = "not_found" => \A k \in known : Norm(k) # Norm(raw)
<1>1. ASSUME NEW status, NEW options, Resolve(raw, known) = Result(status, options), Asks(status, options)
      PROVE  AsksRatherThanGuesses(raw, known)
  <2> DEFINE r == Resolve(raw, known)
  <2>1. r.status = status /\ r.options = options
    BY <1>1 DEF Result
  <2> HIDE DEF r
  <2>2. Asks(r.status, r.options)
    BY <1>1, <2>1
  <2> QED
    BY <2>2, Zenon DEF AsksRatherThanGuesses, Chosen, r
<1>2. /\ exact \in SUBSET known
      /\ \A x \in exact : /\ Unpadded(x.digits) = Unpadded(raw.digits)
                          /\ \A k \in known : Norm(k) = Norm(x) => k \in exact
      /\ \A k \in known : Norm(k) = Norm(raw) => k \in exact
  BY ExactReads
<1>3. strong \in SUBSET known /\ close \in SUBSET known
  OBVIOUS
<1>4. /\ IsFiniteSet(exact) /\ IsFiniteSet(strong) /\ IsFiniteSet(close)
      /\ exact \in SUBSET TypedId /\ strong \in SUBSET TypedId /\ close \in SUBSET TypedId
  <2> HIDE DEF exact, strong, close
  <2> QED
    BY <1>2, <1>3, FS_Subset
<1>5. MaxSuggestions \in Nat \ {0} /\ AutoAccept \in Nat /\ Disambiguate \in Nat
  BY ResolutionAssumption
<1>6. ToSet(<<>>) = {}
  BY DEF ToSet
<1>7. \A x \in TypedId : ToSet(<<x>>) = {x} /\ Len(<<x>>) = 1 /\ (<<x>>)[1] = x
  <2> SUFFICES ASSUME NEW x
               PROVE  ToSet(<<x>>) = {x} /\ Len(<<x>>) = 1 /\ (<<x>>)[1] = x
    OBVIOUS
  <2>1. DOMAIN <<x>> = 1..1 /\ Len(<<x>>) = 1 /\ (<<x>>)[1] = x
    OBVIOUS
  <2> QED
    BY <2>1 DEF ToSet
<1> DEFINE R == Resolve(raw, known)
<1>8. R = IF Norm(raw) = <<>> THEN Result("not_found", <<>>)
          ELSE IF Cardinality(exact) = 1 THEN Result("exact", Ordered(exact, ByName(exact)))
          ELSE IF exact # {} THEN Result("ambiguous", firsts)
          ELSE IF PicksFuzzy(strong) THEN Result("fuzzy", <<best>>)
          ELSE IF close # {} THEN Result("ambiguous", nearest)
          ELSE Result("not_found", <<>>)
  BY Zenon DEF Resolve
<1>9. \A k \in known : Alike(raw, k, AutoAccept) <=> k \in strong
  OBVIOUS
<1>10. \A k \in known : Alike(raw, k, Disambiguate) <=> k \in close
  OBVIOUS
<1> HIDE DEF exact, strong, close, firsts, best, nearest, R
<1>11. CASE Norm(raw) = <<>>
  <2>1. R = Result("not_found", <<>>)
    BY <1>8, <1>11, Zenon
  <2>2. \A k \in known : Norm(k) # Norm(raw)
    BY <1>11
  <2>3. Asks("not_found", <<>>)
    BY <1>6, <2>2
  <2> HIDE DEF Asks
  <2> QED
    BY <1>1, <2>1, <2>3, Zenon DEF R
<1>12. CASE Norm(raw) # <<>> /\ Cardinality(exact) = 1
  <2>1. PICK x : exact = {x}
    BY <1>4, <1>12, FS_Singleton
  <2>2. x \in TypedId /\ x \in known /\ x \in exact
    BY <1>2, <1>4, <2>1
  <2>3. R = Result("exact", <<x>>)
    <3>1. Ordered(exact, ByName(exact)) = <<x>>
      BY <2>1, <2>2, AloneInOrder
    <3> QED
      BY <1>8, <1>12, <3>1, Zenon
  <2> DEFINE o == <<x>>
  <2>4. ToSet(o) = {x} /\ o[1] = x
    BY <1>7, <2>2
  <2> HIDE DEF o
  <2>5. \A k \in known \ {x} : Norm(k) # Norm(x)
    BY <1>2, <2>1, <2>2
  <2>6. Asks("exact", o)
    BY <2>2, <2>4, <2>5
  <2>7. R = Result("exact", o)
    BY <2>3 DEF o
  <2> HIDE DEF Asks
  <2> QED
    BY <1>1, <2>6, <2>7, Zenon DEF R
<1>13. CASE Norm(raw) # <<>> /\ Cardinality(exact) # 1 /\ exact # {}
  <2>1. R = Result("ambiguous", firsts)
    BY <1>8, <1>13, Zenon
  <2>2. ToSet(firsts) \subseteq exact /\ \A i \in 1..Len(firsts) : firsts[i] \in exact
    <3>1. StrictOrder(exact, ByName(exact))
      BY <1>4, ByNameOrders
    <3> QED
      BY <1>4, <1>5, <1>13, <3>1, FirstsOf DEF firsts
  <2>3. \A i \in 1..Len(firsts) : Unpadded(firsts[i].digits) = Unpadded(raw.digits)
    BY <1>2, <2>2
  <2>4. Asks("ambiguous", firsts)
    BY <1>2, <2>2, <2>3
  <2> HIDE DEF Asks
  <2> QED
    BY <1>1, <2>1, <2>4, Zenon DEF R
<1>14. CASE Norm(raw) # <<>> /\ exact = {} /\ PicksFuzzy(strong)
  <2>1. PICK x : strong = {x}
    BY <1>4, <1>14, FS_Singleton DEF PicksFuzzy
  <2>2. x \in TypedId /\ x \in known /\ x \in strong
    BY <1>3, <1>4, <2>1 DEF strong
  <2>3. best = x
    <3>1. StrictOrder(strong, ByScore(raw, strong))
      BY <1>4, <1>14, ByScoreOrders
    <3>2. Ordered(strong, ByScore(raw, strong))[1] \in strong
      BY <1>4, <1>5, <2>1, <3>1, FirstsOf
    <3> QED
      BY <2>1, <3>2 DEF best
  <2>4. Cardinality(exact) # 1
    BY <1>14, FS_EmptySet
  <2>5. R = Result("fuzzy", <<x>>)
    BY <1>8, <1>14, <2>3, <2>4, Zenon
  <2>6. ASSUME NEW k \in known \ {x}
        PROVE  Norm(k) # Norm(x) /\ ~Alike(raw, k, AutoAccept)
    <3>1. ~Alike(raw, k, AutoAccept) /\ Alike(raw, x, AutoAccept)
      BY <1>9, <2>1, <2>2
    <3>2. Norm(k) = Norm(x) => (Alike(raw, k, AutoAccept) <=> Alike(raw, x, AutoAccept))
      BY Zenon DEF Alike
    <3> QED
      BY <3>1, <3>2
  <2>7. ASSUME NEW k \in known
        PROVE  ~Closer(raw, k, x)
    <3>1. k \in TypedId
      OBVIOUS
    <3>2. Closer(raw, k, x) => ~Closer(raw, x, k)
      BY <1>14, <2>2, <3>1, CloserInTurn
    <3>3. Closer(raw, k, x) => Alike(raw, k, AutoAccept)
      BY <1>5, <1>9, <1>14, <2>2, <3>1, CloserInTurn
    <3> QED
      BY <2>6, <3>2, <3>3
  <2> DEFINE o == <<x>>
  <2>8. ToSet(o) = {x} /\ o[1] = x
    BY <1>7, <2>2
  <2> HIDE DEF o
  <2>9. Asks("fuzzy", o)
    BY <2>2, <2>6, <2>7, <2>8
  <2>10. R = Result("fuzzy", o)
    BY <2>5 DEF o
  <2> HIDE DEF Asks
  <2> QED
    BY <1>1, <2>9, <2>10, Zenon DEF R
<1>15. CASE Norm(raw) # <<>> /\ exact = {} /\ ~PicksFuzzy(strong) /\ close # {}
  <2>1. Cardinality(exact) # 1
    BY <1>15, FS_EmptySet
  <2>2. R = Result("ambiguous", nearest)
    BY <1>8, <1>15, <2>1, Zenon
  <2> DEFINE x == nearest[1]
  <2>3. ToSet(nearest) \subseteq close /\ x \in close /\ \A y \in close : y = x \/ <<x, y>> \in ByScore(raw, close)
    <3>1. StrictOrder(close, ByScore(raw, close))
      BY <1>4, <1>15, ByScoreOrders
    <3> QED
      BY <1>4, <1>5, <1>15, <3>1, FirstsOf DEF nearest
  <2> HIDE DEF x
  <2>4. x \in TypedId /\ x \in known /\ Alike(raw, x, Disambiguate)
    BY <1>3, <1>4, <1>10, <2>3 DEF close
  <2>5. ASSUME NEW k \in known
        PROVE  ~Closer(raw, k, x)
    <3>1. k \in TypedId
      OBVIOUS
    <3>2. (Closer(raw, k, x) => ~Closer(raw, x, k)) /\ (Closer(raw, x, k) => ~Closer(raw, k, x))
      BY <1>15, <2>4, <3>1, CloserInTurn
    <3>3. Closer(raw, k, x) => Alike(raw, k, Disambiguate)
      BY <1>5, <1>15, <2>4, <3>1, CloserInTurn
    <3>4. k \in close => k = x \/ ~Closer(raw, k, x)
      BY <2>3, <3>2 DEF ByScore
    <3> QED
      BY <1>10, <3>2, <3>3, <3>4
  <2>6. ToSet(nearest) \subseteq known
    BY <1>3, <2>3 DEF close
  <2>7. \A k \in known : ~Closer(raw, k, nearest[1])
    BY <2>5 DEF x
  <2>8. Asks("ambiguous", nearest)
    BY <2>6, <2>7
  <2> HIDE DEF Asks
  <2> QED
    BY <1>1, <2>2, <2>8, Zenon DEF R
<1>16. CASE Norm(raw) # <<>> /\ exact = {} /\ ~PicksFuzzy(strong) /\ close = {}
  <2>1. Cardinality(exact) # 1
    BY <1>16, FS_EmptySet
  <2>2. R = Result("not_found", <<>>)
    BY <1>8, <1>16, <2>1, Zenon
  <2>3. \A k \in known : Norm(k) # Norm(raw)
    BY <1>2, <1>16
  <2>4. Asks("not_found", <<>>)
    BY <1>6, <2>3
  <2> HIDE DEF Asks
  <2> QED
    BY <1>1, <2>2, <2>4, Zenon DEF R
<1> HIDE DEF Asks
<1> QED
  BY <1>11, <1>12, <1>13, <1>14, <1>15, <1>16, Zenon

\* What is typed as it stands is chosen or shown, if as many are shown as
\* read the same.
LEMMA TypedIsShown ==
    ASSUME NEW near, Fleet(near), NEW raw
    PROVE  TypedIsFound(raw, near)
<1> DEFINE alike == {k \in ToSet(near) : Norm(k) = Norm(raw)}
           known == ToSet(CandidateIds(raw, near))
           exact == Exact(raw, known)
           o == Ordered(exact, ByName(exact))
<1> SUFFICES ASSUME raw \in ToSet(near), Cardinality(alike) <= MaxSuggestions
             PROVE  raw \in ToSet(Resolve(raw, known).options)
  BY DEF TypedIsFound, ResolveVehicle
<1>1. /\ near \in Seq(TypedId) /\ Once(near)
      /\ \A k \in ToSet(near) : Norm(k) # <<>>
  BY DEF Fleet, Once
<1>2. ToSet(near) \in SUBSET TypedId /\ IsFiniteSet(ToSet(near))
  <2>1. ToSet(near) \in SUBSET TypedId
    <3> HIDE DEF TypedId
    <3> QED
      BY <1>1 DEF ToSet
  <2> HIDE DEF TypedId
  <2> QED
    BY <1>1, <2>1, OnceCounted
<1>3. raw \in known /\ known \subseteq ToSet(near)
  BY TypedIsCandidate
<1> HIDE DEF known
<1>4. raw \in TypedId /\ known \in SUBSET TypedId /\ IsFiniteSet(known)
  BY <1>2, <1>3, FS_Subset
<1>5. raw \in exact /\ exact \in SUBSET known /\ \A x \in exact : Norm(x) = Norm(raw)
  BY <1>3, <1>4, ExactReads
<1> HIDE DEF exact
<1>6. exact \in SUBSET alike /\ IsFiniteSet(alike)
  <2>1. alike \in SUBSET ToSet(near)
    OBVIOUS
  <2>2. exact \in SUBSET alike
    BY <1>3, <1>5
  <2> HIDE DEF alike
  <2> QED
    BY <1>2, <2>1, <2>2, FS_Subset
<1> HIDE DEF alike
<1>7. IsFiniteSet(exact) /\ Cardinality(exact) \in Nat /\ Cardinality(exact) <= MaxSuggestions /\ exact # {}
  <2>1. IsFiniteSet(exact) /\ Cardinality(exact) <= Cardinality(alike)
    BY <1>6, FS_Subset
  <2>2. Cardinality(exact) \in Nat /\ Cardinality(alike) \in Nat /\ MaxSuggestions \in Nat
    BY <1>6, <2>1, FS_CardinalityType, ResolutionAssumption
  <2> QED
    BY <1>5, <2>1, <2>2
<1>8. exact \in SUBSET TypedId
  BY <1>4, <1>5
<1>9. CASE Cardinality(exact) = 1
  <2>1. PICK x : exact = {x}
    BY <1>7, <1>9, FS_Singleton
  <2>2. exact = {raw}
    BY <1>5, <2>1
  <2>3. o = <<raw>>
    BY <1>4, <2>2, AloneInOrder
  <2>4. Resolve(raw, known) = Result("exact", <<raw>>)
    <3>1. Norm(raw) # <<>>
      BY <1>1
    <3> QED
      BY <1>9, <2>3, <3>1, Zenon DEF Resolve, exact
  <2>5. Resolve(raw, known).options = <<raw>>
    BY <2>4 DEF Result
  <2>6. raw \in ToSet(<<raw>>)
    <3>1. 1 \in DOMAIN <<raw>> /\ (<<raw>>)[1] = raw
      OBVIOUS
    <3> QED
      BY <3>1 DEF ToSet
  <2> QED
    BY <2>5, <2>6
<1>10. CASE Cardinality(exact) # 1
  <2> DEFINE f == FirstOf(o, MaxSuggestions)
  <2>1. Norm(raw) # <<>>
    BY <1>1
  <2>2. Resolve(raw, known) = Result("ambiguous", f)
    BY <1>7, <1>10, <2>1, Zenon DEF Resolve, exact
  <2>3. ToSet(f) = exact
    <3>1. StrictOrder(exact, ByName(exact)) /\ MaxSuggestions \in Nat \ {0}
      BY <1>8, ByNameOrders, ResolutionAssumption
    <3> QED
      BY <1>7, <3>1, FirstsOf
  <2> HIDE DEF f
  <2>4. Resolve(raw, known).options = f
    BY <2>2 DEF Result
  <2> QED
    BY <1>5, <2>3, <2>4
<1> QED
  BY <1>9, <1>10

\* No vehicle is guessed, whatever is typed and however large the fleet is,
\* and what is typed as it stands is found (resolve_against, _CANDIDATES_SQL).
THEOREM IdsAreAskedFor == WellFormed => IdsAreNotGuessed
<1> SUFFICES ASSUME WellFormed, IsInput("id")
             PROVE  AsksRatherThanGuesses(input.raw, input.known) /\ TypedIsFound(input.raw, input.near)
  BY DEF IdsAreNotGuessed
<1>1. input.raw \in TypedId /\ Fleet(input.near) /\ input.known = ToSet(input.near)
  BY DEF WellFormed
<1>2. input.near \in Seq(TypedId) /\ Once(input.near) /\ \A k \in ToSet(input.near) : Norm(k) # <<>>
  BY <1>1 DEF Fleet, Once
<1> HIDE DEF TypedId
<1>3. input.known \in SUBSET TypedId /\ IsFiniteSet(input.known)
  <2>1. ToSet(input.near) \in SUBSET TypedId
    BY <1>2 DEF ToSet
  <2> QED
    BY <1>1, <1>2, <2>1, OnceCounted
<1> QED
  BY <1>1, <1>2, <1>3, AsksFirst, TypedIsShown

-----------------------------------------------------------------------------
(* Sequences, one element after another *)

\* What holds of the empty sequence and stays with every element more.
LEMMA OneMore ==
    ASSUME NEW X, NEW Good, <<>> \in Good,
           \A s \in Seq(X) : s \in Good => \A e \in X : Append(s, e) \in Good
    PROVE  \A s \in Seq(X) : s \in Good
<1> TAKE s \in Seq(X)
<1> DEFINE S == {k \in Nat : SubSeq(s, 1, k) \in Good}
<1>1. Len(s) \in Nat
  OBVIOUS
<1>2. 0 \in S
  <2>1. SubSeq(s, 1, 0) = <<>>
    BY SubSeqEmpty
  <2> QED
    BY <2>1
<1>3. ASSUME NEW k \in 0..Len(s), k < Len(s), k \in S
      PROVE  k + 1 \in S
  <2>1. SubSeq(s, 1, k) \in Seq(X)
    BY <1>3, SubSeqProperties
  <2>2. SubSeq(s, 1, k + 1) = SubSeq(s, 1, k) \o <<s[k + 1]>>
    <3>1. k + 1 \in 1..Len(s) /\ 1 \in 1..Len(s) /\ k + 1 \in 1..Len(s) /\ k + 1 - 1 = k
      BY <1>1, <1>3
    <3> QED
      BY <3>1, SubSeqRecursiveSecond
  <2>3. s[k + 1] \in X
    BY <1>3
  <2>4. SubSeq(s, 1, k + 1) = Append(SubSeq(s, 1, k), s[k + 1])
    BY <2>1, <2>2, <2>3, AppendIsConcat
  <2>5. SubSeq(s, 1, k) \in Good
    BY <1>3
  <2>6. Append(SubSeq(s, 1, k), s[k + 1]) \in Good
    BY <2>1, <2>3, <2>5
  <2>7. k + 1 \in Nat
    BY <1>1
  <2>8. SubSeq(s, 1, k + 1) \in Good
    BY <2>4, <2>6
  <2> QED
    BY <2>7, <2>8
<1> HIDE DEF S
<1>4. Len(s) \in S
  <2>1. Len(s) \in 0..Len(s)
    BY <1>1
  <2> QED
    BY <1>1, <1>2, <1>3, <2>1, OneByOne
<1> QED
  BY <1>4, SubSeqFull DEF S

\* What is computed step by step has a value for every step.
StepsBy(g, n, X, first, step) ==
    g \in [0..n -> X] /\ g[0] = first /\ \A k \in 1..n : g[k] = step[<<k, g[k - 1]>>]

LEMMA Stepwise ==
    ASSUME NEW n \in Nat, NEW X, NEW first \in X, NEW step \in [(1..n) \X X -> X]
    PROVE  \E g : StepsBy(g, n, X, first, step)
<1> DEFINE Rec(g, m) == g[0] = first /\ \A k \in 1..m : g[k] = step[<<k, g[k - 1]>>]
           S == {m \in Nat : \E g \in [0..m -> X] : Rec(g, m)}
<1>1. 0 \in S
  <2> DEFINE g == [k \in 0..0 |-> first]
  <2>1. g \in [0..0 -> X] /\ Rec(g, 0)
    OBVIOUS
  <2> QED
    BY <2>1
<1>2. ASSUME NEW m \in 0..n, m < n, m \in S
      PROVE  m + 1 \in S
  <2>1. PICK g \in [0..m -> X] : Rec(g, m)
    BY <1>2
  <2> DEFINE h == [k \in 0..m + 1 |-> IF k = m + 1 THEN step[<<m + 1, g[m]>>] ELSE g[k]]
  <2>2. g[m] \in X /\ <<m + 1, g[m]>> \in (1..n) \X X
    BY <1>2, <2>1
  <2>3. h \in [0..m + 1 -> X]
    BY <2>1, <2>2
  <2>4. \A k \in 0..m : h[k] = g[k]
    BY <1>2
  <2>5. h[m + 1] = step[<<m + 1, g[m]>>]
    BY <1>2
  <2> HIDE DEF h
  <2>6. h[0] = first
    BY <2>1, <2>4
  <2>7. ASSUME NEW k \in 1..m + 1
        PROVE  h[k] = step[<<k, h[k - 1]>>]
    <3>1. CASE k = m + 1
      BY <1>2, <2>4, <2>5, <3>1
    <3>2. CASE k \in 1..m
      BY <1>2, <2>1, <2>4, <3>2
    <3> QED
      BY <2>7, <3>1, <3>2
  <2> QED
    BY <2>3, <2>6, <2>7
<1> HIDE DEF S
<1>3. n \in S
  BY <1>1, <1>2, OneByOne
<1> QED
  BY <1>3 DEF S, StepsBy

\* The first m of f are the numbers of A, the smaller first.
Counts(f, m, A) ==
    /\ \A k \in 1..m : f[k] \in A
    /\ \A a \in A : \E k \in 1..m : f[k] = a
    /\ \A k, l \in 1..m : k < l => f[k] < f[l]

LEMMA CountsMore ==
    ASSUME NEW m \in Nat, NEW A \in SUBSET Int, NEW x \in Int, \A a \in A : a < x,
           NEW f, Counts(f, m, A), NEW g, Counts(g, m + 1, A \cup {x})
    PROVE  g[m + 1] = x /\ \A k \in 1..m : g[k] = f[k]
<1> USE DEF Counts
<1> DEFINE S == {j \in Nat : \A k \in 1..j : k <= m => g[k] = f[k]}
<1>1. 0 \in S
  OBVIOUS
<1>2. ASSUME NEW j \in 0..m, j < m, j \in S
      PROVE  j + 1 \in S
  <2> DEFINE k == j + 1
  <2>1. k \in 1..m /\ k \in 1..m + 1 /\ \A l \in 1..m : l < k => g[l] = f[l]
    BY <1>2
  <2> HIDE DEF k
  <2>2. f[k] \in A /\ f[k] < x /\ f[k] \in Int
    BY <2>1
  <2>3. PICK p \in 1..m + 1 : g[p] = f[k]
    BY <2>2
  <2>4. ~(p < k)
    <3> SUFFICES ASSUME p < k
                 PROVE  FALSE
      OBVIOUS
    <3>1. p \in 1..m /\ g[p] = f[p]
      BY <2>1
    <3>2. f[p] < f[k]
      BY <2>1, <3>1
    <3> QED
      BY <2>2, <2>3, <3>1, <3>2
  <2>5. g[k] \in Int /\ g[k] <= f[k]
    <3>1. p = k \/ k < p
      BY <2>1, <2>4
    <3>2. g[k] \in A \cup {x} /\ A \cup {x} \subseteq Int
      BY <2>1
    <3>3. k < p => g[k] < g[p]
      BY <2>1
    <3>4. g[k] \in Int
      BY <3>2
    <3> QED
      BY <2>2, <2>3, <3>1, <3>3, <3>4
  <2>6. g[k] \in A
    BY <2>1, <2>2, <2>5
  <2>7. PICK q \in 1..m : f[q] = g[k]
    BY <2>6
  <2>8. ~(q < k)
    <3> SUFFICES ASSUME q < k
                 PROVE  FALSE
      OBVIOUS
    <3>1. q \in 1..m + 1 /\ g[q] = f[q]
      BY <2>1
    <3>2. g[q] < g[k]
      BY <2>1, <3>1
    <3> QED
      BY <2>5, <2>7, <3>1, <3>2
  <2>9. f[k] <= g[k]
    <3>1. q = k \/ k < q
      BY <2>1, <2>8
    <3> QED
      BY <2>1, <2>2, <2>5, <2>7, <3>1
  <2>10. g[k] = f[k]
    BY <2>2, <2>5, <2>9
  <2> QED
    BY <1>2, <2>10 DEF k
<1> HIDE DEF S
<1>3. m \in S
  BY <1>1, <1>2, OneByOne
<1>4. \A k \in 1..m : g[k] = f[k]
  BY <1>3 DEF S
<1>5. PICK p \in 1..m + 1 : g[p] = x
  OBVIOUS
<1>6. p = m + 1
  <2> SUFFICES ASSUME p \in 1..m
               PROVE  FALSE
    OBVIOUS
  <2>1. f[p] = x /\ f[p] \in A
    BY <1>4, <1>5
  <2> QED
    BY <2>1
<1> QED
  BY <1>4, <1>5, <1>6
\* What is kept depends on which members are kept, and of nothing there is
\* nothing to keep.
LEMMA KeptSame ==
    ASSUME NEW s, NEW S, NEW T, \A i \in 1..Len(s) : s[i] \in S <=> s[i] \in T
    PROVE  Kept(s, S) = Kept(s, T)
<1>1. {i \in 1..Len(s) : s[i] \in S} = {i \in 1..Len(s) : s[i] \in T}
  OBVIOUS
<1> QED
  BY <1>1, Zenon DEF Kept

LEMMA KeptNone ==
    ASSUME NEW S
    PROVE  Kept(<<>>, S) = <<>>
<1> DEFINE nothing == <<>>
<1>1. nothing \in Seq({}) /\ Len(nothing) = 0
  BY EmptySeq
<1> HIDE DEF nothing
<1>2. Kept(nothing, S) \in Seq({})
  BY <1>1, KeptSome
<1>3. Kept(nothing, S) = <<>>
  <2> SUFFICES ASSUME Kept(nothing, S) # <<>>
               PROVE  FALSE
    OBVIOUS
  <2>1. Len(Kept(nothing, S)) \in Nat \ {0}
    BY <1>2, EmptySeq
  <2>2. 1 \in 1..Len(Kept(nothing, S))
    BY <2>1
  <2> QED
    BY <1>2, <2>2, ElementOfSeq
<1> QED
  BY <1>3 DEF nothing

\* Of one element more, it is kept, too, or the same is kept.
LEMMA KeptAppend ==
    ASSUME NEW X, NEW s \in Seq(X), NEW e \in X, NEW S
    PROVE  Kept(Append(s, e), S) = IF e \in S THEN Append(Kept(s, S), e) ELSE Kept(s, S)
<1> DEFINE n == Len(s)
           t == Append(s, e)
           at == {i \in 1..n : s[i] \in S}
           more == {i \in 1..Len(t) : t[i] \in S}
           before == {p \in at \X at : p[1] < p[2]}
           after == {p \in more \X more : p[1] < p[2]}
           o == Ordered(at, before)
           q == Ordered(more, after)
           m == Cardinality(at)
<1>1. /\ n \in Nat /\ t \in Seq(X) /\ Len(t) = n + 1
      /\ t[n + 1] = e /\ \A i \in 1..n : t[i] = s[i]
  BY AppendProperties
<1>2. /\ Kept(s, S) = [k \in 1..m |-> s[o[k]]]
      /\ Kept(t, S) = [k \in 1..Cardinality(more) |-> t[q[k]]]
  BY DEF Kept
<1>3. /\ \A i, j \in at : <<i, j>> \in before <=> i < j
      /\ \A i, j \in more : <<i, j>> \in after <=> i < j
  OBVIOUS
<1> HIDE DEF t
<1>4. at \in SUBSET (1..n) /\ more = IF e \in S THEN at \cup {n + 1} ELSE at
  <2>1. \A i \in 1..n + 1 : i \in 1..n \/ i = n + 1
    BY <1>1
  <2>2. \A i \in 1..n : i \in 1..n + 1 /\ i # n + 1
    BY <1>1
  <2>3. n + 1 \in 1..n + 1
    BY <1>1
  <2>4. more = {i \in 1..n + 1 : t[i] \in S}
    BY <1>1
  <2> QED
    BY <1>1, <2>1, <2>2, <2>3, <2>4
<1>5. IsFiniteSet(at) /\ IsFiniteSet(more) /\ more \in SUBSET (1..n + 1)
  <2>1. IsFiniteSet(1..n) /\ IsFiniteSet(1..n + 1)
    BY <1>1, FS_Interval
  <2>2. more \in SUBSET (1..n + 1)
    BY <1>1
  <2> HIDE DEF at, more
  <2> QED
    BY <1>4, <2>1, <2>2, FS_Subset
<1> HIDE DEF before, after, n
<1>6. CASE e \notin S
  <2>1. more = at /\ after = before
    BY <1>4, <1>6 DEF before, after
  <2>2. o = q /\ Cardinality(more) = m
    BY <2>1
  <2>3. m \in Nat /\ \A k \in 1..m : o[k] \in 1..n
    <3> HIDE DEF at
    <3>1. StrictOrder(at, before)
      BY <1>1, <1>3, <1>4 DEF StrictOrder
    <3>2. m \in Nat /\ \A k \in 1..m : o[k] \in at
      BY <1>5, <3>1, OrderedSorts
    <3> QED
      BY <1>4, <3>2
  <2> HIDE DEF o, q, m, at, more
  <2>4. \A k \in 1..m : t[q[k]] = s[o[k]]
    BY <1>1, <2>2, <2>3
  <2>5. Kept(t, S) = Kept(s, S)
    BY <1>2, <2>2, <2>4
  <2> QED
    BY <1>6, <2>5 DEF t
<1>7. CASE e \in S
  <2>1. more = at \cup {n + 1}
    BY <1>4, <1>7
  <2> HIDE DEF at, more
  <2>2. at \in SUBSET Int /\ more \in SUBSET Int /\ n + 1 \in Int /\ \A a \in at : a < n + 1
    BY <1>1, <1>4, <1>5
  <2>3. StrictOrder(at, before) /\ StrictOrder(more, after)
    BY <1>3, <2>2 DEF StrictOrder
  <2>4. /\ m \in Nat
        /\ \A k \in 1..m : o[k] \in at
        /\ \A x \in at : \E k \in 1..m : o[k] = x
        /\ \A k, l \in 1..m : k < l => <<o[k], o[l]>> \in before
    BY <1>5, <2>3, OrderedSorts
  <2>5. Cardinality(more) = m + 1
    <3>1. n + 1 \notin at
      BY <2>2
    <3> QED
      BY <1>5, <2>1, <3>1, FS_AddElement
  <2>6. /\ \A k \in 1..m + 1 : q[k] \in more
        /\ \A x \in more : \E k \in 1..m + 1 : q[k] = x
        /\ \A k, l \in 1..m + 1 : k < l => <<q[k], q[l]>> \in after
    BY <1>5, <2>3, <2>5, OrderedSorts
  <2> HIDE DEF o, q, m
  <2>7. /\ \A k, l \in 1..m : k < l => o[k] < o[l]
        /\ \A k, l \in 1..m + 1 : k < l => q[k] < q[l]
    BY <1>3, <2>4, <2>6
  <2>8. q[m + 1] = n + 1 /\ \A k \in 1..m : q[k] = o[k]
    <3>1. Counts(o, m, at)
      BY <2>4, <2>7 DEF Counts
    <3>2. Counts(q, m + 1, at \cup {n + 1})
      BY <2>1, <2>6, <2>7 DEF Counts
    <3> QED
      BY <2>2, <2>4, <3>1, <3>2, CountsMore
  <2>9. Kept(s, S) \in Seq(X) /\ Len(Kept(s, S)) = m
    <3>1. Kept(s, S) \in Seq(X)
      BY KeptSome
    <3> QED
      BY <1>2, <2>4, <3>1
  <2>10. Kept(t, S) \in Seq(X) /\ Len(Kept(t, S)) = m + 1
    <3>1. Kept(t, S) \in Seq(X)
      BY <1>1, KeptSome
    <3> QED
      BY <1>2, <2>4, <2>5, <3>1
  <2>11. /\ Append(Kept(s, S), e) \in Seq(X)
         /\ Len(Append(Kept(s, S), e)) = m + 1
         /\ \A k \in 1..m : Append(Kept(s, S), e)[k] = Kept(s, S)[k]
         /\ Append(Kept(s, S), e)[m + 1] = e
    BY <2>9, AppendProperties
  <2>12. ASSUME NEW k \in 1..m + 1
         PROVE  Kept(t, S)[k] = Append(Kept(s, S), e)[k]
    <3>1. CASE k = m + 1
      <4>1. Kept(t, S)[k] = t[n + 1]
        BY <1>2, <2>5, <2>8, <3>1
      <4> QED
        BY <1>1, <2>11, <3>1, <4>1
    <3>2. CASE k \in 1..m
      <4>1. o[k] \in 1..n
        BY <1>4, <2>4, <3>2
      <4>2. Kept(t, S)[k] = t[o[k]] /\ Kept(s, S)[k] = s[o[k]]
        BY <1>2, <2>5, <2>8, <3>2
      <4> QED
        BY <1>1, <2>11, <3>2, <4>1, <4>2
    <3>3. k = m + 1 \/ k \in 1..m
      BY <2>4
    <3> QED
      BY <3>1, <3>2, <3>3
  <2>13. Kept(t, S) = Append(Kept(s, S), e)
    BY <2>10, <2>11, <2>12, SeqEqual
  <2> QED
    BY <1>7, <2>13 DEF t
<1> QED
  BY <1>6, <1>7

LEMMA KeptConcat ==
    ASSUME NEW X, NEW s \in Seq(X), NEW S
    PROVE  \A t \in Seq(X) : Kept(s \o t, S) = Kept(s, S) \o Kept(t, S)
<1> DEFINE Good == {t \in Seq(X) : Kept(s \o t, S) = Kept(s, S) \o Kept(t, S)}
<1>1. Kept(s, S) \in Seq(X)
  BY KeptSome
<1>2. <<>> \in Good
  <2>1. s \o <<>> = s /\ Kept(s, S) \o <<>> = Kept(s, S)
    BY <1>1, ConcatEmptySeq
  <2>2. <<>> \in Seq(X)
    BY EmptySeq
  <2>3. Kept(s \o <<>>, S) = Kept(s, S) \o Kept(<<>>, S)
    BY <2>1, KeptNone
  <2> QED
    BY <2>2, <2>3
<1>3. ASSUME NEW t \in Seq(X), t \in Good, NEW e \in X
      PROVE  Append(t, e) \in Good
  <2>1. /\ Kept(t, S) \in Seq(X) /\ s \o t \in Seq(X) /\ Append(t, e) \in Seq(X)
    BY KeptSome, ConcatProperties, AppendProperties
  <2>2. s \o Append(t, e) = Append(s \o t, e)
    BY <2>1, AppendIsConcat, ConcatAssociative
  <2>3. Kept(s, S) \o Append(Kept(t, S), e) = Append(Kept(s, S) \o Kept(t, S), e)
    BY <1>1, <2>1, AppendIsConcat, ConcatAssociative
  <2>4. Kept(s \o t, S) = Kept(s, S) \o Kept(t, S)
    BY <1>3
  <2>5. Kept(s \o Append(t, e), S) = IF e \in S THEN Append(Kept(s, S) \o Kept(t, S), e) ELSE Kept(s, S) \o Kept(t, S)
    <3>1. Kept(Append(s \o t, e), S) = IF e \in S THEN Append(Kept(s \o t, S), e) ELSE Kept(s \o t, S)
      BY <2>1, KeptAppend
    <3> QED
      BY <2>2, <2>4, <3>1
  <2>6. Kept(Append(t, e), S) = IF e \in S THEN Append(Kept(t, S), e) ELSE Kept(t, S)
    BY KeptAppend
  <2> HIDE DEF Good
  <2>7. Kept(s \o Append(t, e), S) = Kept(s, S) \o Kept(Append(t, e), S)
    BY <2>3, <2>5, <2>6
  <2> QED
    BY <2>1, <2>7 DEF Good
<1> HIDE DEF Good
<1>4. \A t \in Seq(X) : t \in Good
  BY <1>2, <1>3, OneMore
<1> QED
  BY <1>4 DEF Good

-----------------------------------------------------------------------------
(* Sequences of sequences, put together *)

\* What FlattenSeq computes, whichever way it is computed.
LEMMA FlattenedBy ==
    ASSUME NEW X, NEW ss \in Seq(Seq(X)), NEW g, g[0] = <<>>,
           \A k \in 1..Len(ss) : g[k] = g[k - 1] \o ss[k]
    PROVE  FlattenSeq(ss) = g[Len(ss)]
<1> DEFINE n == Len(ss)
           Rec(f) == f = [i \in 1..n |-> IF i = 1 THEN ss[i] ELSE f[i - 1] \o ss[i]]
           flatten == CHOOSE f : Rec(f)
<1>1. n \in Nat /\ \A k \in 1..n : ss[k] \in Seq(X)
  BY ElementOfSeq
<1>2. CASE n = 0
  <2>1. ss = <<>>
    BY <1>2, EmptySeq
  <2> QED
    BY <1>2, <2>1 DEF FlattenSeq
<1>3. CASE n # 0
  <2>1. 1 \in 1..n /\ g[1] = ss[1]
    <3>1. 1 \in 1..n
      BY <1>1, <1>3
    <3>2. g[1] = g[1 - 1] \o ss[1]
      BY <3>1
    <3>3. 1 - 1 = 0
      OBVIOUS
    <3>4. g[1] = <<>> \o ss[1]
      BY <3>2, <3>3
    <3> QED
      BY <1>1, <3>1, <3>4, ConcatEmptySeq
  <2>2. Rec([i \in 1..n |-> g[i]])
    <3> DEFINE h == [i \in 1..n |-> g[i]]
    <3>1. ASSUME NEW i \in 1..n
          PROVE  h[i] = IF i = 1 THEN ss[i] ELSE h[i - 1] \o ss[i]
      <4>1. i # 1 => i - 1 \in 1..n
        BY <1>1
      <4> QED
        BY <2>1, <4>1
    <3>2. h = [i \in 1..n |-> h[i]]
      OBVIOUS
    <3> HIDE DEF h, n
    <3>3. [i \in 1..n |-> h[i]] = [i \in 1..n |-> IF i = 1 THEN ss[i] ELSE h[i - 1] \o ss[i]]
      BY <3>1
    <3>4. Rec(h)
      BY <3>2, <3>3
    <3> QED
      BY <3>4 DEF h
  <2> HIDE DEF Rec
  <2>3. Rec(flatten)
    BY <2>2
  <2>4. FlattenSeq(ss) = flatten[n]
    <3>1. Len(ss) # 0
      BY <1>3
    <3> QED
      BY <3>1 DEF FlattenSeq, Rec
  <2> HIDE DEF flatten
  <2>5. \A i \in 1..n : flatten[i] = IF i = 1 THEN ss[i] ELSE flatten[i - 1] \o ss[i]
    <3>1. flatten = [i \in 1..n |-> IF i = 1 THEN ss[i] ELSE flatten[i - 1] \o ss[i]]
      BY <2>3 DEF Rec
    <3> DEFINE Next(i) == IF i = 1 THEN ss[i] ELSE flatten[i - 1] \o ss[i]
    <3>2. flatten = [i \in 1..n |-> Next(i)]
      BY <3>1
    <3> HIDE DEF n, Next
    <3>3. \A i \in 1..n : flatten[i] = Next(i)
      BY <3>2
    <3> QED
      BY <3>3 DEF Next
  <2> DEFINE S == {k \in Nat : k = 0 \/ flatten[k] = g[k]}
  <2>6. 0 \in S
    OBVIOUS
  <2>7. ASSUME NEW k \in 0..n, k < n, k \in S
        PROVE  k + 1 \in S
    <3>1. k + 1 \in 1..n /\ (k + 1) - 1 = k /\ k + 1 \in Nat
      <4>1. n \in Nat /\ k < n
        BY <1>1, <2>7
      <4> HIDE DEF n, S
      <4> QED
        BY <4>1
    <3>2. CASE k = 0
      BY <2>1, <2>5, <3>1, <3>2
    <3>3. CASE k # 0
      <4>1. flatten[k] = g[k] /\ k + 1 # 1
        BY <2>7, <3>3
      <4>2. flatten[k + 1] = flatten[(k + 1) - 1] \o ss[k + 1]
        <5> HIDE DEF n
        <5>1. flatten[k + 1] = IF k + 1 = 1 THEN ss[k + 1] ELSE flatten[(k + 1) - 1] \o ss[k + 1]
          BY <2>5, <3>1
        <5> QED
          BY <4>1, <5>1
      <4>3. g[k + 1] = g[(k + 1) - 1] \o ss[k + 1]
        <5>1. \A i \in 1..n : g[i] = g[i - 1] \o ss[i]
          OBVIOUS
        <5> HIDE DEF n
        <5> QED
          BY <3>1, <5>1
      <4> QED
        BY <3>1, <4>1, <4>2, <4>3
    <3> QED
      BY <3>2, <3>3
  <2> HIDE DEF S
  <2>8. n \in S
    <3>1. n \in 0..n
      BY <1>1
    <3> QED
      BY <1>1, <2>6, <2>7, <3>1, OneByOne
  <2> QED
    BY <1>3, <2>4, <2>8 DEF S
<1> QED
  BY <1>2, <1>3

LEMMA FlattenAppend ==
    ASSUME NEW X, NEW ss \in Seq(Seq(X)), NEW s \in Seq(X)
    PROVE  /\ FlattenSeq(ss) \in Seq(X)
           /\ FlattenSeq(Append(ss, s)) = FlattenSeq(ss) \o s
<1> DEFINE n == Len(ss)
           tt == Append(ss, s)
           step == [p \in (1..n + 1) \X Seq(X) |-> p[2] \o tt[p[1]]]
<1>1. /\ n \in Nat /\ tt \in Seq(Seq(X)) /\ Len(tt) = n + 1
      /\ tt[n + 1] = s /\ \A k \in 1..n : tt[k] = ss[k]
  BY AppendProperties
<1> HIDE DEF tt
<1>2. \A k \in 1..n + 1 : tt[k] \in Seq(X)
  BY <1>1, ElementOfSeq
<1>3. <<>> \in Seq(X)
  BY EmptySeq
<1>4. step \in [(1..n + 1) \X Seq(X) -> Seq(X)]
  BY <1>2, ConcatProperties
<1>5. PICK g : StepsBy(g, n + 1, Seq(X), <<>>, step)
  <2>1. n + 1 \in Nat
    BY <1>1
  <2> HIDE DEF n, step
  <2> QED
    BY <1>3, <1>4, <2>1, Stepwise
<1>6. \A k \in 1..n + 1 : g[k] = g[k - 1] \o tt[k]
  <2> TAKE k \in 1..n + 1
  <2>1. k - 1 \in 0..n + 1
    BY <1>1
  <2>2. g[k - 1] \in Seq(X)
    BY <1>5, <2>1 DEF StepsBy
  <2>3. g[k] = step[<<k, g[k - 1]>>]
    BY <1>5 DEF StepsBy
  <2> QED
    BY <2>2, <2>3
<1> HIDE DEF step
<1>7. \A k \in 1..n : g[k] = g[k - 1] \o ss[k]
  <2>1. \A k \in 1..n : k \in 1..n + 1
    BY <1>1
  <2> QED
    BY <1>1, <1>6, <2>1
<1>8. FlattenSeq(ss) = g[n]
  BY <1>5, <1>7, FlattenedBy DEF StepsBy
<1>9. FlattenSeq(tt) = g[n + 1]
  BY <1>1, <1>5, <1>6, FlattenedBy DEF StepsBy
<1>10. g[n + 1] = g[n] \o s
  <2>1. n + 1 \in 1..n + 1 /\ (n + 1) - 1 = n
    BY <1>1
  <2>2. g[n + 1] = g[(n + 1) - 1] \o tt[n + 1]
    BY <1>6, <2>1
  <2> QED
    BY <1>1, <2>1, <2>2
<1>11. g[n] \in Seq(X)
  BY <1>1, <1>5 DEF StepsBy
<1> QED
  BY <1>8, <1>9, <1>10, <1>11 DEF tt

LEMMA FlattenNone ==
    FlattenSeq(<<>>) = <<>>
BY DEF FlattenSeq

LEMMA FlattenConcat ==
    ASSUME NEW X, NEW ss \in Seq(Seq(X))
    PROVE  \A tt \in Seq(Seq(X)) : FlattenSeq(ss \o tt) = FlattenSeq(ss) \o FlattenSeq(tt)
<1> DEFINE Good == {tt \in Seq(Seq(X)) : FlattenSeq(ss \o tt) = FlattenSeq(ss) \o FlattenSeq(tt)}
<1>1. FlattenSeq(ss) \in Seq(X)
  BY FlattenAppend, EmptySeq
<1>2. <<>> \in Good
  <2>1. ss \o <<>> = ss /\ FlattenSeq(ss) \o <<>> = FlattenSeq(ss) /\ <<>> \in Seq(Seq(X))
    BY <1>1, ConcatEmptySeq, EmptySeq
  <2>2. FlattenSeq(ss \o <<>>) = FlattenSeq(ss) \o FlattenSeq(<<>>)
    BY <2>1, FlattenNone
  <2> QED
    BY <2>1, <2>2
<1>3. ASSUME NEW tt \in Seq(Seq(X)), tt \in Good, NEW s \in Seq(X)
      PROVE  Append(tt, s) \in Good
  <2>1. FlattenSeq(tt) \in Seq(X) /\ ss \o tt \in Seq(Seq(X)) /\ Append(tt, s) \in Seq(Seq(X))
    BY FlattenAppend, ConcatProperties, AppendProperties
  <2>2. ss \o Append(tt, s) = Append(ss \o tt, s)
    BY <2>1, AppendIsConcat, ConcatAssociative
  <2>3. FlattenSeq(ss \o tt) = FlattenSeq(ss) \o FlattenSeq(tt)
    BY <1>3
  <2> HIDE DEF Good
  <2>4. FlattenSeq(Append(ss \o tt, s)) = (FlattenSeq(ss) \o FlattenSeq(tt)) \o s
    BY <2>1, <2>3, FlattenAppend
  <2>5. FlattenSeq(Append(tt, s)) = FlattenSeq(tt) \o s
    BY FlattenAppend
  <2>6. FlattenSeq(ss \o Append(tt, s)) = FlattenSeq(ss) \o FlattenSeq(Append(tt, s))
    <3> DEFINE a == FlattenSeq(ss)
               b == FlattenSeq(tt)
    <3>1. a \in Seq(X) /\ b \in Seq(X)
      BY <1>1, <2>1
    <3>2. (a \o b) \o s = a \o (b \o s)
      <4> HIDE DEF a, b
      <4> QED
        BY <3>1, ConcatAssociative
    <3> QED
      BY <2>2, <2>4, <2>5, <3>2
  <2> QED
    BY <2>1, <2>6 DEF Good
<1> HIDE DEF Good
<1>4. \A tt \in Seq(Seq(X)) : tt \in Good
  BY <1>2, <1>3, OneMore
<1> QED
  BY <1>4 DEF Good

-----------------------------------------------------------------------------
(* Texts and their letters *)

Blanks == {Break, Space}

LEMMA LettersOf ==
    ASSUME NEW X, NEW s \in Seq(X)
    PROVE  /\ Letters(s) = Kept(s, X \ Blanks)
           /\ Letters(s) \in Seq(X)
           /\ ToSet(Letters(s)) = ToSet(s) \ Blanks
<1>1. \A i \in 1..Len(s) : s[i] \in X /\ s[i] \in ToSet(s)
  BY ElementOfSeq DEF ToSet
<1>2. Letters(s) = Kept(s, X \ Blanks)
  <2>1. Letters(s) = Kept(s, ToSet(s) \ Blanks)
    BY DEF Letters, Blanks
  <2>2. \A i \in 1..Len(s) : s[i] \in ToSet(s) \ Blanks <=> s[i] \in X \ Blanks
    BY <1>1
  <2>3. Kept(s, ToSet(s) \ Blanks) = Kept(s, X \ Blanks)
    BY <2>2, KeptSame
  <2> QED
    BY <2>1, <2>3
<1>3. Kept(s, X \ Blanks) \in Seq(X) /\ ToSet(Kept(s, X \ Blanks)) = ToSet(s) \cap (X \ Blanks)
  BY KeptSome
<1>4. ToSet(s) \subseteq X
  BY <1>1 DEF ToSet
<1> QED
  BY <1>2, <1>3, <1>4

LEMMA LettersNone ==
    Letters(<<>>) = <<>>
BY KeptNone DEF Letters

LEMMA LettersAppend ==
    ASSUME NEW X, NEW s \in Seq(X), NEW e \in X
    PROVE  Letters(Append(s, e)) = IF e \in Blanks THEN Letters(s) ELSE Append(Letters(s), e)
<1>1. Append(s, e) \in Seq(X)
  BY AppendProperties
<1>2. Letters(Append(s, e)) = Kept(Append(s, e), X \ Blanks) /\ Letters(s) = Kept(s, X \ Blanks)
  BY <1>1, LettersOf
<1>3. Kept(Append(s, e), X \ Blanks) = IF e \in X \ Blanks THEN Append(Kept(s, X \ Blanks), e) ELSE Kept(s, X \ Blanks)
  BY KeptAppend
<1> QED
  BY <1>2, <1>3

LEMMA LettersConcat ==
    ASSUME NEW X, NEW s \in Seq(X), NEW t \in Seq(X)
    PROVE  Letters(s \o t) = Letters(s) \o Letters(t)
<1>1. s \o t \in Seq(X)
  BY ConcatProperties
<1>2. /\ Letters(s \o t) = Kept(s \o t, X \ Blanks)
      /\ Letters(s) = Kept(s, X \ Blanks) /\ Letters(t) = Kept(t, X \ Blanks)
  BY <1>1, LettersOf
<1> QED
  BY <1>2, KeptConcat

\* One text beside the other, a blank between them.
LEMMA BesideIt ==
    ASSUME NEW X, NEW current \in Seq(X), NEW sep \in X \cap Blanks, NEW part \in Seq(X)
    PROVE  /\ Beside(current, sep, part) \in Seq(X)
           /\ Letters(Beside(current, sep, part)) = Letters(current) \o Letters(part)
<1>1. Letters(part) \in Seq(X) /\ Letters(current) \in Seq(X)
  BY LettersOf
<1>2. CASE current = <<>>
  <2>1. Letters(current) \o Letters(part) = Letters(part)
    BY <1>1, <1>2, LettersNone, ConcatEmptySeq
  <2> QED
    BY <1>2, <2>1 DEF Beside
<1>3. CASE current # <<>>
  <2>1. current \o <<sep>> = Append(current, sep) /\ Append(current, sep) \in Seq(X)
    BY AppendIsConcat, AppendProperties
  <2>2. Beside(current, sep, part) = Append(current, sep) \o part
    BY <1>3, <2>1 DEF Beside
  <2>3. Letters(Append(current, sep)) = Letters(current)
    BY LettersAppend
  <2> QED
    BY <2>1, <2>2, <2>3, LettersConcat, ConcatProperties
<1> QED
  BY <1>2, <1>3

\* The letters of texts in a row.
LettersIn(texts) == FlattenSeq([k \in 1..Len(texts) |-> Letters(texts[k])])

LEMMA LettersInNone ==
    LettersIn(<<>>) = <<>>
<1>1. [k \in 1..Len(<<>>) |-> Letters(<<>>[k])] = <<>>
  OBVIOUS
<1> QED
  BY <1>1, FlattenNone DEF LettersIn

LEMMA LettersInAppend ==
    ASSUME NEW X, NEW texts \in Seq(Seq(X)), NEW t \in Seq(X)
    PROVE  /\ LettersIn(texts) \in Seq(X)
           /\ LettersIn(Append(texts, t)) = LettersIn(texts) \o Letters(t)
<1> DEFINE n == Len(texts)
           more == Append(texts, t)
           a == [k \in 1..n |-> Letters(texts[k])]
           b == [k \in 1..Len(more) |-> Letters(more[k])]
<1>1. /\ n \in Nat /\ Len(more) = n + 1 /\ more[n + 1] = t
      /\ \A k \in 1..n : more[k] = texts[k]
  BY AppendProperties
<1>2. \A k \in 1..n : texts[k] \in Seq(X)
  BY ElementOfSeq
<1>3. Letters(t) \in Seq(X) /\ \A k \in 1..n : Letters(texts[k]) \in Seq(X)
  BY <1>2, LettersOf
<1>4. LettersIn(texts) = FlattenSeq(a) /\ LettersIn(more) = FlattenSeq(b)
  BY DEF LettersIn
<1>5. a \in Seq(Seq(X)) /\ Len(a) = n /\ \A k \in 1..n : a[k] = Letters(texts[k])
  BY <1>1, <1>3
<1>6. b \in Seq(Seq(X)) /\ Len(b) = n + 1 /\ \A k \in 1..n + 1 : b[k] = Letters(more[k])
  <2> HIDE DEF more
  <2>1. \A k \in 1..n + 1 : Letters(more[k]) \in Seq(X)
    <3> TAKE k \in 1..n + 1
    <3>1. k = n + 1 \/ k \in 1..n
      BY <1>1
    <3> QED
      BY <1>1, <1>3, <3>1
  <2> QED
    BY <1>1, <2>1
<1> HIDE DEF a, b, n, more
<1>7. /\ Append(a, Letters(t)) \in Seq(Seq(X)) /\ Len(Append(a, Letters(t))) = n + 1
      /\ Append(a, Letters(t))[n + 1] = Letters(t)
      /\ \A k \in 1..n : Append(a, Letters(t))[k] = a[k]
  BY <1>3, <1>5, AppendProperties
<1>8. b = Append(a, Letters(t))
  <2>1. ASSUME NEW k \in 1..n + 1
        PROVE  b[k] = Append(a, Letters(t))[k]
    <3>1. k = n + 1 \/ k \in 1..n
      BY <1>1
    <3> QED
      BY <1>1, <1>5, <1>6, <1>7, <3>1
  <2> QED
    BY <1>6, <1>7, <2>1, SeqEqual
<1>9. FlattenSeq(a) \in Seq(X) /\ FlattenSeq(b) = FlattenSeq(a) \o Letters(t)
  BY <1>3, <1>5, <1>8, FlattenAppend
<1> QED
  BY <1>4, <1>9 DEF more

LEMMA LettersInConcat ==
    ASSUME NEW X, NEW ss \in Seq(Seq(X))
    PROVE  \A tt \in Seq(Seq(X)) : LettersIn(ss \o tt) = LettersIn(ss) \o LettersIn(tt)
<1> DEFINE Good == {tt \in Seq(Seq(X)) : LettersIn(ss \o tt) = LettersIn(ss) \o LettersIn(tt)}
<1>1. LettersIn(ss) \in Seq(X)
  BY LettersInAppend, EmptySeq
<1>2. <<>> \in Good
  <2>1. ss \o <<>> = ss /\ LettersIn(ss) \o <<>> = LettersIn(ss) /\ <<>> \in Seq(Seq(X))
    BY <1>1, ConcatEmptySeq, EmptySeq
  <2>2. LettersIn(ss \o <<>>) = LettersIn(ss) \o LettersIn(<<>>)
    BY <2>1, LettersInNone
  <2> QED
    BY <2>1, <2>2
<1>3. ASSUME NEW tt \in Seq(Seq(X)), tt \in Good, NEW s \in Seq(X)
      PROVE  Append(tt, s) \in Good
  <2>1. LettersIn(tt) \in Seq(X) /\ ss \o tt \in Seq(Seq(X)) /\ Append(tt, s) \in Seq(Seq(X))
    BY LettersInAppend, ConcatProperties, AppendProperties
  <2>2. ss \o Append(tt, s) = Append(ss \o tt, s)
    BY <2>1, AppendIsConcat, ConcatAssociative
  <2>3. LettersIn(ss \o tt) = LettersIn(ss) \o LettersIn(tt)
    BY <1>3
  <2> HIDE DEF Good
  <2>4. LettersIn(Append(ss \o tt, s)) = (LettersIn(ss) \o LettersIn(tt)) \o Letters(s)
    BY <2>1, <2>3, LettersInAppend
  <2>5. LettersIn(Append(tt, s)) = LettersIn(tt) \o Letters(s)
    BY LettersInAppend
  <2>6. Letters(s) \in Seq(X)
    BY LettersOf
  <2>7. (LettersIn(ss) \o LettersIn(tt)) \o Letters(s) = LettersIn(ss) \o (LettersIn(tt) \o Letters(s))
    <3> DEFINE a == LettersIn(ss)
               b == LettersIn(tt)
               c == Letters(s)
    <3>1. a \in Seq(X) /\ b \in Seq(X) /\ c \in Seq(X)
      BY <1>1, <2>1, <2>6
    <3> HIDE DEF a, b, c
    <3>2. (a \o b) \o c = a \o (b \o c)
      BY <3>1, ConcatAssociative
    <3> QED
      BY <3>2 DEF a, b, c
  <2>8. LettersIn(ss \o Append(tt, s)) = LettersIn(ss) \o LettersIn(Append(tt, s))
    BY <2>2, <2>4, <2>5, <2>7
  <2> QED
    BY <2>1, <2>8 DEF Good
<1> HIDE DEF Good
<1>4. \A tt \in Seq(Seq(X)) : tt \in Good
  BY <1>2, <1>3, OneMore
<1> QED
  BY <1>4 DEF Good

\* A letter of texts in a row is a letter of one of them.
LEMMA LettersFrom ==
    ASSUME NEW X
    PROVE  \A texts \in Seq(Seq(X)) : \A c :
              c \in ToSet(LettersIn(texts)) <=> c \notin Blanks /\ \E k \in 1..Len(texts) : c \in ToSet(texts[k])
<1> DEFINE Some(texts, c) == \E k \in 1..Len(texts) : c \in ToSet(texts[k])
           Says(texts) == \A c : c \in ToSet(LettersIn(texts)) <=> c \notin Blanks /\ Some(texts, c)
           Good == {texts \in Seq(Seq(X)) : Says(texts)}
<1>1. <<>> \in Good
  <2>1. <<>> \in Seq(Seq(X)) /\ Len(<<>>) = 0
    BY EmptySeq
  <2>2. ToSet(LettersIn(<<>>)) = {}
    BY LettersInNone DEF ToSet
  <2> QED
    BY <2>1, <2>2
<1>2. ASSUME NEW texts \in Seq(Seq(X)), texts \in Good, NEW t \in Seq(X)
      PROVE  Append(texts, t) \in Good
  <2>1. /\ Append(texts, t) \in Seq(Seq(X)) /\ Len(Append(texts, t)) = Len(texts) + 1 /\ Len(texts) \in Nat
        /\ Append(texts, t)[Len(texts) + 1] = t /\ \A k \in 1..Len(texts) : Append(texts, t)[k] = texts[k]
    BY AppendProperties
  <2>2. LettersIn(Append(texts, t)) = LettersIn(texts) \o Letters(t)
    BY LettersInAppend
  <2>3. LettersIn(texts) \in Seq(X) /\ Letters(t) \in Seq(X) /\ ToSet(Letters(t)) = ToSet(t) \ Blanks
    BY LettersInAppend, LettersOf
  <2>4. ToSet(LettersIn(texts) \o Letters(t)) = ToSet(LettersIn(texts)) \cup ToSet(Letters(t))
    <3>1. /\ Range(LettersIn(texts) \o Letters(t)) = Range(LettersIn(texts)) \cup Range(Letters(t))
      BY <2>3, RangeConcatenation
    <3>2. \A s \in Seq(X) : ToSet(s) = Range(s)
      BY RangeEquality DEF ToSet
    <3> QED
      BY <2>3, <3>1, <3>2, ConcatProperties
  <2>5. Says(texts)
    BY <1>2
  <2> DEFINE more == Append(texts, t)
  <2>6. \A c : Some(more, c) <=> Some(texts, c) \/ c \in ToSet(t)
    <3> HIDE DEF more
    <3>1. \A k \in 1..Len(texts) + 1 : k \in 1..Len(texts) \/ k = Len(texts) + 1
      BY <2>1
    <3>2. Len(texts) + 1 \in 1..Len(texts) + 1 /\ \A k \in 1..Len(texts) : k \in 1..Len(texts) + 1
      BY <2>1
    <3> QED
      BY <2>1, <3>1, <3>2 DEF more
  <2> HIDE DEF more, Some
  <2>7. Says(more)
    BY <2>2, <2>3, <2>4, <2>5, <2>6 DEF more
  <2> HIDE DEF Says
  <2> QED
    BY <2>1, <2>7 DEF more
<1> HIDE DEF Good
<1>3. \A texts \in Seq(Seq(X)) : texts \in Good
  BY <1>1, <1>2, OneMore
<1> QED
  BY <1>3 DEF Good

-----------------------------------------------------------------------------
(* What is split keeps its letters *)

\* The state of a text that is put together from its parts.
Accs(X) == [out : Seq(Seq(X)), current : Seq(X)]

\* What stays true of every step.
LEMMA AtEachStep ==
    ASSUME NEW n \in Nat, NEW X, NEW g, g[0] \in X, \A k \in 1..n : g[k - 1] \in X => g[k] \in X
    PROVE  \A k \in 0..n : g[k] \in X
<1> DEFINE S == {k \in 0..n : g[k] \in X}
<1>1. 0 \in S
  OBVIOUS
<1>2. ASSUME NEW k \in 0..n, k < n, k \in S
      PROVE  k + 1 \in S
  <2>1. k + 1 \in 1..n /\ (k + 1) - 1 = k /\ g[k] \in X
    BY <1>2
  <2>2. g[k + 1] \in X
    BY <2>1
  <2> QED
    BY <2>1, <2>2
<1> HIDE DEF S
<1>3. \A k \in 0..n : k \in S
  BY <1>1, <1>2, OneByOne
<1> QED
  BY <1>3 DEF S

LEMMA ScannedStep ==
    ASSUME NEW X, NEW text \in Seq(X), NEW sep
    PROVE  LET g == Scanned(text, sep)
           IN  /\ g[0] = Nothing
               /\ \A k \in 1..Len(text) : g[k] = WithChar(g[k - 1], text[k], sep)
               /\ \A k \in 0..Len(text) : g[k] \in Accs(X)
<1> DEFINE n == Len(text)
           Q == Accs(X)
           step == [p \in (1..n) \X Q |-> WithChar(p[2], text[p[1]], sep)]
           Rec(f) == f = [k \in 0..n |-> IF k = 0 THEN Nothing ELSE WithChar(f[k - 1], text[k], sep)]
           g == Scanned(text, sep)
<1>1. n \in Nat /\ \A k \in 1..n : text[k] \in X
  BY ElementOfSeq
<1>2. ASSUME NEW acc \in Q, NEW c \in X
      PROVE  WithChar(acc, c, sep) \in Q
  <2>1. acc.out \in Seq(Seq(X)) /\ acc.current \in Seq(X) /\ <<>> \in Seq(X)
    BY EmptySeq DEF Accs
  <2>2. Append(acc.out, acc.current) \in Seq(Seq(X)) /\ Append(acc.current, c) \in Seq(X)
    BY <2>1, AppendProperties
  <2> QED
    BY <2>1, <2>2 DEF WithChar, Accs
<1>3. Nothing \in Q
  BY EmptySeq DEF Nothing, Accs
<1>4. step \in [(1..n) \X Q -> Q]
  BY <1>1, <1>2
<1>5. PICK h : StepsBy(h, n, Q, Nothing, step)
  <2> HIDE DEF step, n, Q
  <2> QED
    BY <1>1, <1>3, <1>4, Stepwise
<1>6. \A k \in 0..n : h[k] = IF k = 0 THEN Nothing ELSE WithChar(h[k - 1], text[k], sep)
  <2> TAKE k \in 0..n
  <2>1. CASE k = 0
    BY <1>5, <2>1 DEF StepsBy
  <2>2. CASE k # 0
    <3>1. k \in 1..n /\ k - 1 \in 0..n
      BY <1>1, <2>2
    <3>2. h[k - 1] \in Q /\ h[k] = step[<<k, h[k - 1]>>]
      BY <1>5, <3>1 DEF StepsBy
    <3> QED
      BY <2>2, <3>1, <3>2
  <2> QED
    BY <2>1, <2>2
<1>7. Rec(h)
  <2> DEFINE Now(k) == IF k = 0 THEN Nothing ELSE WithChar(h[k - 1], text[k], sep)
  <2>1. h = [k \in 0..n |-> h[k]]
    BY <1>5 DEF StepsBy
  <2> HIDE DEF n
  <2>2. \A k \in 0..n : h[k] = Now(k)
    BY <1>6
  <2> HIDE DEF Now
  <2>3. h = [k \in 0..n |-> Now(k)]
    BY <2>1, <2>2
  <2> QED
    BY <2>3 DEF Now
<1>8. g = CHOOSE f : Rec(f)
  BY Zenon DEF Scanned
<1> HIDE DEF Rec
<1>9. Rec(g)
  BY <1>7, <1>8
<1> HIDE DEF g
<1>10. \A k \in 0..n : g[k] = IF k = 0 THEN Nothing ELSE WithChar(g[k - 1], text[k], sep)
  <2> DEFINE Now(k) == IF k = 0 THEN Nothing ELSE WithChar(g[k - 1], text[k], sep)
  <2>1. g = [k \in 0..n |-> Now(k)]
    BY <1>9 DEF Rec
  <2> HIDE DEF n, Now
  <2>2. \A k \in 0..n : g[k] = Now(k)
    BY <2>1
  <2> QED
    BY <2>2 DEF Now
<1> HIDE DEF n, Q
<1>11. g[0] = Nothing /\ \A k \in 1..n : g[k] = WithChar(g[k - 1], text[k], sep)
  <2>1. 0 \in 0..n /\ \A k \in 1..n : k \in 0..n /\ k # 0
    BY <1>1
  <2> QED
    BY <1>10, <2>1
<1>12. \A k \in 0..n : g[k] \in Q
  <2>1. g[0] \in Q /\ \A k \in 1..n : g[k - 1] \in Q => g[k] \in Q
    BY <1>1, <1>2, <1>3, <1>11
  <2> QED
    BY <1>1, <2>1, AtEachStep
<1> QED
  BY <1>11, <1>12 DEF g, n, Q

\* str.split loses nothing but the separators.
LEMMA SplitByKeeps ==
    ASSUME NEW X, NEW text \in Seq(X), NEW sep \in X \cap Blanks
    PROVE  /\ SplitBy(text, sep) \in Seq(Seq(X)) /\ SplitBy(text, sep) # <<>>
           /\ LettersIn(SplitBy(text, sep)) = Letters(text)
<1> DEFINE n == Len(text)
           g == Scanned(text, sep)
           read(k) == SubSeq(text, 1, k)
           S == {k \in 0..n : LettersIn(g[k].out) \o Letters(g[k].current) = Letters(read(k))}
<1>1. n \in Nat /\ \A k \in 1..n : text[k] \in X
  BY ElementOfSeq
<1>2. /\ g[0] = Nothing
      /\ \A k \in 1..n : g[k] = WithChar(g[k - 1], text[k], sep)
      /\ \A k \in 0..n : g[k] \in Accs(X)
  BY ScannedStep
<1> HIDE DEF g
<1>3. \A k \in 0..n : g[k].out \in Seq(Seq(X)) /\ g[k].current \in Seq(X)
  BY <1>2 DEF Accs
<1>4. 0 \in S
  <2>1. read(0) = <<>>
    BY SubSeqEmpty
  <2>2. g[0].out = <<>> /\ g[0].current = <<>>
    BY <1>2 DEF Nothing
  <2>3. <<>> \o <<>> = <<>>
    BY EmptySeq, ConcatEmptySeq
  <2>4. LettersIn(g[0].out) \o Letters(g[0].current) = Letters(read(0))
    BY <2>1, <2>2, <2>3, LettersNone, LettersInNone
  <2>5. 0 \in 0..n
    BY <1>1
  <2> QED
    BY <2>4, <2>5
<1>5. ASSUME NEW k \in 0..n, k < n, k \in S
      PROVE  k + 1 \in S
  <2> DEFINE c == text[k + 1]
  <2>1. k + 1 \in 1..n /\ k + 1 \in 0..n /\ (k + 1) - 1 = k
    BY <1>1, <1>5
  <2>2. c \in X /\ read(k) \in Seq(X) /\ read(k + 1) = Append(read(k), c)
    <3>1. c \in X
      BY <1>1, <2>1
    <3>2. read(k) \in Seq(X)
      BY <1>1, <1>5, SubSeqProperties
    <3>3. 1 \in 1..n
      BY <1>1, <2>1
    <3>4. read(k + 1) = SubSeq(text, 1, (k + 1) - 1) \o <<c>>
      BY <2>1, <3>3, SubSeqRecursiveSecond
    <3> QED
      BY <2>1, <3>1, <3>2, <3>4, AppendIsConcat
  <2>3. g[k + 1] = WithChar(g[k], c, sep)
    BY <1>2, <2>1
  <2>4. g[k].out \in Seq(Seq(X)) /\ g[k].current \in Seq(X)
    BY <1>3
  <2>5. LettersIn(g[k].out) \in Seq(X) /\ Letters(g[k].current) \in Seq(X)
    BY <2>4, LettersInAppend, LettersOf
  <2>6. LettersIn(g[k].out) \o Letters(g[k].current) = Letters(read(k))
    BY <1>5
  <2>7. Letters(read(k + 1)) = IF c \in Blanks THEN Letters(read(k)) ELSE Append(Letters(read(k)), c)
    BY <2>2, LettersAppend
  <2> HIDE DEF read, c, S
  <2>8. CASE c = sep
    <3>1. g[k + 1].out = Append(g[k].out, g[k].current) /\ g[k + 1].current = <<>>
      BY <2>3, <2>8 DEF WithChar
    <3>2. LettersIn(g[k + 1].out) = Letters(read(k))
      BY <2>4, <2>6, <3>1, LettersInAppend
    <3>3. Letters(read(k)) \in Seq(X)
      BY <2>2, LettersOf
    <3>4. LettersIn(g[k + 1].out) \o Letters(g[k + 1].current) = Letters(read(k + 1))
      BY <2>7, <2>8, <3>1, <3>2, <3>3, LettersNone, ConcatEmptySeq
    <3> QED
      BY <2>1, <3>4 DEF S
  <2>9. CASE c # sep
    <3>1. g[k + 1].out = g[k].out /\ g[k + 1].current = Append(g[k].current, c)
      BY <2>3, <2>4, <2>9, <1>2 DEF WithChar, Accs
    <3>2. Letters(g[k + 1].current) = IF c \in Blanks THEN Letters(g[k].current) ELSE Append(Letters(g[k].current), c)
      BY <2>2, <2>4, <3>1, LettersAppend
    <3>3. LettersIn(g[k].out) \o Append(Letters(g[k].current), c) = Append(LettersIn(g[k].out) \o Letters(g[k].current), c)
      <4>1. LettersIn(g[k].out) \o Letters(g[k].current) \in Seq(X) /\ <<c>> \in Seq(X)
        BY <2>2, <2>5, ConcatProperties
      <4> QED
        BY <2>2, <2>5, <4>1, AppendIsConcat, ConcatAssociative
    <3>4. LettersIn(g[k + 1].out) \o Letters(g[k + 1].current) = Letters(read(k + 1))
      BY <2>6, <2>7, <3>1, <3>2, <3>3
    <3> QED
      BY <2>1, <3>4 DEF S
  <2> QED
    BY <2>8, <2>9
<1>6. LettersIn(g[n].out) \o Letters(g[n].current) = Letters(text)
  <2> HIDE DEF S
  <2>1. n \in S
    <3>1. n \in 0..n
      BY <1>1
    <3> HIDE DEF n
    <3>2. \A k \in 0..n : k \in S
      BY <1>1, <1>4, <1>5, OneByOne
    <3> QED
      BY <3>1, <3>2
  <2>2. read(n) = text
    BY SubSeqFull
  <2> QED
    BY <2>1, <2>2 DEF S
<1>7. SplitBy(text, sep) = Append(g[n].out, g[n].current)
  BY DEF SplitBy, g
<1>8. g[n].out \in Seq(Seq(X)) /\ g[n].current \in Seq(X)
  BY <1>1, <1>3
<1> HIDE DEF n
<1>9. LettersIn(Append(g[n].out, g[n].current)) = LettersIn(g[n].out) \o Letters(g[n].current)
  BY <1>8, LettersInAppend
<1>10. Append(g[n].out, g[n].current) \in Seq(Seq(X)) /\ Append(g[n].out, g[n].current) # <<>>
  <2> DEFINE out == g[n].out
             current == g[n].current
  <2>1. out \in Seq(Seq(X)) /\ current \in Seq(X)
    BY <1>8
  <2> HIDE DEF out, current
  <2>2. Append(out, current) \in Seq(Seq(X)) /\ Append(out, current) # <<>>
    BY <2>1, AppendProperties
  <2> QED
    BY <2>2 DEF out, current
<1> QED
  BY <1>6, <1>7, <1>9, <1>10

\* What text is split into: pieces that fit, with all its letters.
PiecesOf(pieces, text, X) ==
    /\ pieces \in Seq(Seq(X)) /\ LettersIn(pieces) = Letters(text)
    /\ \A k \in 1..Len(pieces) : Len(pieces[k]) <= Size

\* A text of one piece, and pieces behind other pieces.
LEMMA OnePiece ==
    ASSUME NEW X, NEW text \in Seq(X), Len(text) <= Size
    PROVE  PiecesOf(<<text>>, text, X)
<1>1. /\ <<text>> \in Seq(Seq(X)) /\ Len(<<text>>) = 1 /\ \A k \in 1..1 : <<text>>[k] = text
      /\ <<>> \in Seq(Seq(X)) /\ <<text>> = Append(<<>>, text)
  BY EmptySeq
<1>2. LettersIn(<<text>>) = LettersIn(<<>>) \o Letters(text)
  BY <1>1, LettersInAppend
<1>3. Letters(text) \in Seq(X)
  BY LettersOf
<1>4. LettersIn(<<text>>) = Letters(text)
  BY <1>2, <1>3, LettersInNone, ConcatEmptySeq
<1> QED
  BY <1>1, <1>4 DEF PiecesOf

LEMMA MinOfTwo ==
    ASSUME NEW x \in Int, NEW y \in Int
    PROVE  Min({x, y}) = IF x <= y THEN x ELSE y
<1>1. \E z \in {x, y} : \A w \in {x, y} : z <= w
  OBVIOUS
<1>2. Min({x, y}) \in {x, y} /\ \A w \in {x, y} : Min({x, y}) <= w
  BY <1>1 DEF Min
<1> QED
  BY <1>2

\* Text without a separator is cut, every Size characters.
LEMMA CutKeeps ==
    ASSUME NEW X, NEW text \in Seq(X)
    PROVE  PiecesOf(Cut(text), text, X)
<1> DEFINE n == Len(text)
           m == (n + Size - 1) \div Size
           end(k) == Min({Size * k, n})
           pieces == Cut(text)
           S == {k \in 0..m : LettersIn(SubSeq(pieces, 1, k)) = Letters(SubSeq(text, 1, end(k)))}
<1>1. n \in Nat /\ (\A i \in 1..n : text[i] \in X) /\ Size \in Nat \ {0}
  BY ElementOfSeq, ChunkingAssumption
<1>2. m \in Nat /\ \A k \in Int : k <= m <=> k * Size <= n + Size - 1
  <2> DEFINE x == n + Size - 1
  <2>1. x \in Nat
    BY <1>1
  <2> HIDE DEF x
  <2>2. x \div Size \in Nat /\ \A k \in Int : k <= x \div Size <=> k * Size <= x
    BY <1>1, <2>1, Quotients
  <2> QED
    BY <2>2 DEF x
<1>3. pieces = [k \in 1..m |-> SubSeq(text, Size * (k - 1) + 1, end(k))]
  BY DEF Cut
<1> HIDE DEF n, m, pieces
<1>4. \A k \in Nat : Size * k \in Nat /\ Size * (k + 1) = Size * k + Size
  BY <1>1
<1>5. \A k \in 0..m : end(k) = IF Size * k <= n THEN Size * k ELSE n
  BY <1>1, <1>4, MinOfTwo
<1> HIDE DEF end
<1>6. ASSUME NEW k \in 0..m, k < m
      PROVE  /\ Size * k < n /\ end(k) = Size * k /\ end(k + 1) \in Size * k + 1..n
             /\ end(k + 1) <= Size * k + Size
             /\ pieces[k + 1] = SubSeq(text, Size * k + 1, end(k + 1))
  <2>1. k + 1 \in 1..m /\ k + 1 \in 0..m /\ k \in Nat /\ (k + 1) - 1 = k
    BY <1>2, <1>6
  <2>2. (k + 1) * Size <= n + Size - 1
    BY <1>2, <2>1
  <2>3. (k + 1) * Size = Size * k + Size /\ Size * k \in Nat
    BY <1>1, <1>4, <2>1
  <2>4. Size * k < n
    BY <1>1, <2>2, <2>3
  <2>5. Size * (k + 1) = Size * k + Size
    BY <1>4, <2>1
  <2>6. end(k) = Size * k
    <3>1. Size * k <= n
      BY <1>1, <2>3, <2>4
    <3> QED
      BY <1>5, <3>1
  <2>7. end(k + 1) = IF Size * k + Size <= n THEN Size * k + Size ELSE n
    BY <1>5, <2>1, <2>5
  <2>8. pieces[k + 1] = SubSeq(text, Size * k + 1, end(k + 1))
    BY <1>3, <2>1
  <2> QED
    BY <1>1, <2>3, <2>4, <2>6, <2>7, <2>8
<1>7. ASSUME NEW k \in 0..m, k < m
      PROVE  pieces[k + 1] \in Seq(X) /\ Len(pieces[k + 1]) <= Size
  <2>1. /\ Size * k + 1 \in Int /\ end(k + 1) \in Int
        /\ \A i \in Size * k + 1..end(k + 1) : text[i] \in X
    BY <1>1, <1>4, <1>6, <1>7
  <2>2. /\ SubSeq(text, Size * k + 1, end(k + 1)) \in Seq(X)
        /\ Len(SubSeq(text, Size * k + 1, end(k + 1))) =
               IF Size * k + 1 <= end(k + 1) THEN end(k + 1) - (Size * k + 1) + 1 ELSE 0
    BY <2>1, SubSeqProperties
  <2> DEFINE a == Size * k
             b == end(k + 1)
  <2>3. a \in Nat /\ a < n /\ b \in a + 1..n /\ b <= a + Size
    BY <1>4, <1>6, <1>7
  <2>4. pieces[k + 1] \in Seq(X) /\ Len(pieces[k + 1]) = IF a + 1 <= b THEN b - (a + 1) + 1 ELSE 0
    BY <1>6, <1>7, <2>2
  <2> HIDE DEF a, b
  <2> QED
    BY <1>1, <2>3, <2>4
<1>8. \A k \in 1..m : pieces[k] \in Seq(X) /\ Len(pieces[k]) <= Size
  <2> TAKE k \in 1..m
  <2>1. k - 1 \in 0..m /\ k - 1 < m /\ (k - 1) + 1 = k
    BY <1>2
  <2>2. pieces[(k - 1) + 1] \in Seq(X) /\ Len(pieces[(k - 1) + 1]) <= Size
    BY <1>7, <2>1
  <2> QED
    BY <2>1, <2>2
<1>9. pieces \in Seq(Seq(X)) /\ Len(pieces) = m
  <2>1. pieces \in [1..m -> Seq(X)]
    BY <1>3, <1>8
  <2> QED
    BY <1>2, <2>1
<1>10. 0 \in S
  <2>1. Size * 0 = 0 /\ 0 \in 0..m
    BY <1>1, <1>2
  <2>2. end(0) = 0
    BY <1>1, <1>5, <2>1
  <2>3. SubSeq(text, 1, 0) = <<>> /\ SubSeq(pieces, 1, 0) = <<>>
    BY SubSeqEmpty
  <2> QED
    BY <2>1, <2>2, <2>3, LettersNone, LettersInNone
<1>11. ASSUME NEW k \in 0..m, k < m, k \in S
       PROVE  k + 1 \in S
  <2>1. k + 1 \in 1..m /\ k + 1 \in 0..m /\ (k + 1) - 1 = k /\ 1 \in 1..m
    BY <1>2, <1>11
  <2>2. SubSeq(pieces, 1, k) \in Seq(Seq(X))
    <3>1. \A i \in 1..k : pieces[i] \in Seq(X)
      BY <1>2, <1>8
    <3> QED
      BY <3>1, SubSeqProperties
  <2>3. SubSeq(pieces, 1, k + 1) = Append(SubSeq(pieces, 1, k), pieces[k + 1])
    <3>1. SubSeq(pieces, 1, k + 1) = SubSeq(pieces, 1, (k + 1) - 1) \o <<pieces[k + 1]>>
      BY <1>9, <2>1, SubSeqRecursiveSecond
    <3> QED
      BY <1>8, <2>1, <2>2, <3>1, AppendIsConcat
  <2>4. LettersIn(SubSeq(pieces, 1, k + 1)) = Letters(SubSeq(text, 1, Size * k)) \o Letters(pieces[k + 1])
    <3>1. pieces[k + 1] \in Seq(X)
      BY <1>8, <2>1
    <3>2. LettersIn(SubSeq(pieces, 1, k)) = Letters(SubSeq(text, 1, Size * k))
      BY <1>6, <1>11
    <3> QED
      BY <2>2, <2>3, <3>1, <3>2, LettersInAppend
  <2>5. SubSeq(text, 1, Size * k) \o pieces[k + 1] = SubSeq(text, 1, end(k + 1))
    <3> DEFINE a == Size * k
               b == end(k + 1)
    <3>1. a \in Nat /\ a < n /\ b \in a + 1..n /\ pieces[k + 1] = SubSeq(text, a + 1, b)
      BY <1>4, <1>6, <1>11
    <3> HIDE DEF a, b
    <3>2. 1 \in 1..n + 1 /\ a \in 1 - 1..n /\ b \in a..n
      BY <1>1, <3>1
    <3>3. SubSeq(text, 1, a) \o SubSeq(text, a + 1, b) = SubSeq(text, 1, b)
      BY <3>2, ConcatAdjacentSubSeq DEF n
    <3> QED
      BY <3>1, <3>3 DEF a, b
  <2>6. Letters(SubSeq(text, 1, Size * k) \o pieces[k + 1]) = Letters(SubSeq(text, 1, Size * k)) \o Letters(pieces[k + 1])
    <3>1. SubSeq(text, 1, Size * k) \in Seq(X)
      <4>1. Size * k \in Int /\ \A i \in 1..Size * k : text[i] \in X
        BY <1>1, <1>4, <1>6, <1>11
      <4> QED
        BY <4>1, SubSeqProperties
    <3>2. pieces[k + 1] \in Seq(X)
      BY <1>8, <2>1
    <3> QED
      BY <3>1, <3>2, LettersConcat
  <2> QED
    BY <2>1, <2>4, <2>5, <2>6
<1>12. LettersIn(pieces) = Letters(text)
  <2>1. m \in S
    <3>1. m \in 0..m
      BY <1>2
    <3> HIDE DEF S
    <3>2. \A k \in 0..m : k \in S
      BY <1>2, <1>10, <1>11, OneByOne
    <3> QED
      BY <3>1, <3>2
  <2>2. end(m) = n
    <3>1. m + 1 \in Int /\ ~(m + 1 <= m) /\ m \in Nat /\ m \in 0..m
      BY <1>2
    <3>2. ~((m + 1) * Size <= n + Size - 1)
      BY <1>2, <3>1
    <3>3. (m + 1) * Size = Size * m + Size /\ Size * m \in Nat
      BY <1>1, <1>4, <3>1
    <3>4. Size * m >= n
      BY <1>1, <3>2, <3>3
    <3>5. end(m) = IF Size * m <= n THEN Size * m ELSE n
      BY <1>5, <3>1
    <3> QED
      BY <1>1, <3>3, <3>4, <3>5
  <2>3. SubSeq(pieces, 1, m) = pieces /\ SubSeq(text, 1, n) = text
    BY <1>9, SubSeqFull DEF n
  <2> QED
    BY <2>1, <2>2, <2>3
<1> QED
  BY <1>8, <1>9, <1>12 DEF PiecesOf, pieces

\* What of the texts is put together already.
Holding(acc, texts, X) ==
    /\ acc \in Accs(X)
    /\ LettersIn(acc.out) \o Letters(acc.current) = LettersIn(texts)
    /\ Len(acc.current) <= Size /\ \A k \in 1..Len(acc.out) : Len(acc.out[k]) <= Size

LEMMA DoneKeeps ==
    ASSUME NEW X, NEW acc, NEW texts \in Seq(Seq(X)), Holding(acc, texts, X)
    PROVE  /\ Done(acc) \in Seq(Seq(X)) /\ LettersIn(Done(acc)) = LettersIn(texts)
           /\ \A k \in 1..Len(Done(acc)) : Len(Done(acc)[k]) <= Size
<1> DEFINE out == acc.out
           current == acc.current
<1>1. /\ out \in Seq(Seq(X)) /\ current \in Seq(X) /\ Len(current) <= Size
      /\ LettersIn(out) \o Letters(current) = LettersIn(texts)
      /\ \A k \in 1..Len(out) : Len(out[k]) <= Size
  BY DEF Holding, Accs
<1>2. Done(acc) = IF current = <<>> THEN out ELSE Append(out, current)
  BY DEF Done
<1> HIDE DEF out, current
<1>3. CASE current = <<>>
  <2>1. LettersIn(out) \in Seq(X)
    BY <1>1, LettersInAppend
  <2>2. LettersIn(out) \o <<>> = LettersIn(out)
    BY <2>1, ConcatEmptySeq
  <2>3. LettersIn(out) = LettersIn(texts)
    BY <1>1, <1>3, <2>2, LettersNone
  <2> QED
    BY <1>1, <1>2, <1>3, <2>3
<1>4. CASE current # <<>>
  <2>1. /\ Append(out, current) \in Seq(Seq(X)) /\ Len(Append(out, current)) = Len(out) + 1 /\ Len(out) \in Nat
        /\ \A k \in 1..Len(out) : Append(out, current)[k] = out[k]
        /\ Append(out, current)[Len(out) + 1] = current
    BY <1>1, AppendProperties
  <2>2. LettersIn(Append(out, current)) = LettersIn(texts)
    BY <1>1, LettersInAppend
  <2>3. ASSUME NEW k \in 1..Len(out) + 1
        PROVE  Len(Append(out, current)[k]) <= Size
    <3>1. k \in 1..Len(out) \/ k = Len(out) + 1
      BY <2>1
    <3> QED
      BY <1>1, <2>1, <3>1
  <2> QED
    BY <1>2, <1>4, <2>1, <2>2, <2>3
<1> QED
  BY <1>3, <1>4

LEMMA PartAdded ==
    ASSUME NEW X, NEW acc, NEW texts \in Seq(Seq(X)), Holding(acc, texts, X),
           NEW part \in Seq(X), NEW sep \in X \cap Blanks, NEW pieces, PiecesOf(pieces, part, X)
    PROVE  Holding(WithPart(acc, part, sep, pieces), Append(texts, part), X)
<1> DEFINE out == acc.out
           current == acc.current
           beside == Beside(current, sep, part)
           next == WithPart(acc, part, sep, pieces)
           more == Append(texts, part)
<1>1. /\ acc = [out |-> out, current |-> current]
      /\ out \in Seq(Seq(X)) /\ current \in Seq(X) /\ Len(current) <= Size
      /\ LettersIn(out) \o Letters(current) = LettersIn(texts)
      /\ \A k \in 1..Len(out) : Len(out[k]) <= Size
  BY DEF Holding, Accs
<1>2. next = IF Len(beside) <= Size THEN [out |-> out, current |-> beside]
             ELSE IF Len(part) > Size THEN [out |-> Done(acc) \o pieces, current |-> <<>>]
             ELSE [out |-> Done(acc), current |-> part]
  <2>1. [acc EXCEPT !.current = Beside(@, sep, part)] = [out |-> out, current |-> beside]
    BY <1>1
  <2> QED
    BY <2>1, Zenon DEF WithPart
<1>3. more \in Seq(Seq(X)) /\ LettersIn(more) = LettersIn(texts) \o Letters(part)
  BY LettersInAppend, AppendProperties
<1>4. beside \in Seq(X) /\ Letters(beside) = Letters(current) \o Letters(part)
  BY <1>1, BesideIt
<1>5. /\ Done(acc) \in Seq(Seq(X)) /\ LettersIn(Done(acc)) = LettersIn(texts)
      /\ \A k \in 1..Len(Done(acc)) : Len(Done(acc)[k]) <= Size
  BY DoneKeeps
<1>6. LettersIn(texts) \in Seq(X) /\ LettersIn(out) \in Seq(X) /\ Letters(current) \in Seq(X) /\ Letters(part) \in Seq(X)
  BY <1>1, LettersInAppend, LettersOf
<1>7. Len(part) \in Nat /\ Len(beside) \in Nat /\ Size \in Nat \ {0}
  BY <1>4, LenProperties, ChunkingAssumption
<1>8. pieces \in Seq(Seq(X)) /\ LettersIn(pieces) = Letters(part) /\ \A k \in 1..Len(pieces) : Len(pieces[k]) <= Size
  BY DEF PiecesOf
<1> HIDE DEF out, current, beside, next, more
<1>9. CASE Len(beside) <= Size
  <2>1. next = [out |-> out, current |-> beside]
    BY <1>2, <1>9
  <2>2. LettersIn(out) \o Letters(beside) = LettersIn(more)
    <3>1. (LettersIn(out) \o Letters(current)) \o Letters(part) = LettersIn(out) \o (Letters(current) \o Letters(part))
      <4> DEFINE a == LettersIn(out)
                 b == Letters(current)
                 c == Letters(part)
      <4>1. a \in Seq(X) /\ b \in Seq(X) /\ c \in Seq(X)
        BY <1>6
      <4> HIDE DEF a, b, c
      <4>2. (a \o b) \o c = a \o (b \o c)
        BY <4>1, ConcatAssociative
      <4> QED
        BY <4>2 DEF a, b, c
    <3> QED
      BY <1>1, <1>3, <1>4, <3>1
  <2>3. next \in Accs(X) /\ next.out = out /\ next.current = beside
    BY <1>1, <1>4, <2>1 DEF Accs
  <2>4. Holding(next, more, X)
    BY <1>1, <1>9, <2>2, <2>3 DEF Holding
  <2> QED
    BY <2>4 DEF next, more
<1>10. CASE ~(Len(beside) <= Size) /\ Len(part) > Size
  <2> DEFINE all == Done(acc) \o pieces
  <2>1. next = [out |-> all, current |-> <<>>]
    BY <1>2, <1>10
  <2>2. all \in Seq(Seq(X)) /\ LettersIn(all) = LettersIn(more)
    <3>1. LettersIn(all) = LettersIn(Done(acc)) \o LettersIn(pieces)
      BY <1>5, <1>8, LettersInConcat
    <3>2. all \in Seq(Seq(X))
      BY <1>5, <1>8, ConcatProperties
    <3> QED
      BY <1>3, <1>5, <1>8, <3>1, <3>2
  <2>3. \A k \in 1..Len(all) : Len(all[k]) <= Size
    <3>1. /\ Len(all) = Len(Done(acc)) + Len(pieces) /\ Len(pieces) \in Nat /\ Len(Done(acc)) \in Nat
          /\ \A k \in 1..Len(Done(acc)) + Len(pieces) :
                all[k] = IF k <= Len(Done(acc)) THEN Done(acc)[k] ELSE pieces[k - Len(Done(acc))]
      BY <1>5, <1>8, ConcatProperties
    <3> HIDE DEF all
    <3> TAKE k \in 1..Len(all)
    <3>2. k \in 1..Len(Done(acc)) + Len(pieces)
      BY <3>1
    <3>3. CASE k <= Len(Done(acc))
      <4>1. all[k] = Done(acc)[k] /\ k \in 1..Len(Done(acc))
        BY <3>1, <3>2, <3>3
      <4> QED
        BY <1>5, <4>1
    <3>4. CASE ~(k <= Len(Done(acc)))
      <4>1. all[k] = pieces[k - Len(Done(acc))] /\ k - Len(Done(acc)) \in 1..Len(pieces)
        BY <3>1, <3>2, <3>4
      <4> QED
        BY <1>8, <4>1
    <3> QED
      BY <3>3, <3>4
  <2> HIDE DEF all
  <2>4. <<>> \in Seq(X) /\ Len(<<>>) = 0 /\ LettersIn(more) \o Letters(<<>>) = LettersIn(more)
    <3>1. LettersIn(more) \in Seq(X)
      BY <1>3, LettersInAppend
    <3> QED
      BY <3>1, EmptySeq, LettersNone, ConcatEmptySeq
  <2> QED
    BY <1>7, <2>1, <2>2, <2>3, <2>4 DEF Holding, Accs, next, more
<1>11. CASE ~(Len(beside) <= Size) /\ ~(Len(part) > Size)
  <2>1. next = [out |-> Done(acc), current |-> part]
    BY <1>2, <1>11
  <2> QED
    BY <1>3, <1>5, <1>7, <1>11, <2>1 DEF Holding, Accs, next, more
<1> QED
  BY <1>9, <1>10, <1>11

LEMMA RegroupedStep ==
    ASSUME NEW X, NEW parts \in Seq(Seq(X)), NEW sep \in X \cap Blanks, NEW pieces,
           \A k \in 1..Len(parts) : PiecesOf(pieces[k], parts[k], X)
    PROVE  LET g == Regrouped(parts, sep, pieces)
           IN  /\ g[0] = Nothing
               /\ \A k \in 1..Len(parts) : g[k] = WithPart(g[k - 1], parts[k], sep, pieces[k])
<1> DEFINE n == Len(parts)
           Q == Accs(X)
           step == [p \in (1..n) \X Q |-> WithPart(p[2], parts[p[1]], sep, pieces[p[1]])]
           Rec(f) == f = [k \in 0..n |-> IF k = 0 THEN Nothing ELSE WithPart(f[k - 1], parts[k], sep, pieces[k])]
           g == Regrouped(parts, sep, pieces)
<1>1. n \in Nat /\ \A k \in 1..n : parts[k] \in Seq(X) /\ pieces[k] \in Seq(Seq(X))
  BY ElementOfSeq DEF PiecesOf
<1>2. ASSUME NEW acc \in Q, NEW part \in Seq(X), NEW some \in Seq(Seq(X))
      PROVE  WithPart(acc, part, sep, some) \in Q
  <2>1. acc.out \in Seq(Seq(X)) /\ acc.current \in Seq(X) /\ <<>> \in Seq(X)
    BY EmptySeq DEF Accs
  <2>2. Beside(acc.current, sep, part) \in Seq(X)
    BY <2>1, BesideIt
  <2>3. Done(acc) \in Seq(Seq(X))
    BY <2>1, AppendProperties DEF Done
  <2>4. Done(acc) \o some \in Seq(Seq(X))
    BY <2>3, ConcatProperties
  <2> QED
    BY <2>1, <2>2, <2>3, <2>4 DEF WithPart, Accs
<1>3. Nothing \in Q
  BY EmptySeq DEF Nothing, Accs
<1>4. step \in [(1..n) \X Q -> Q]
  BY <1>1, <1>2
<1>5. PICK h : StepsBy(h, n, Q, Nothing, step)
  <2> HIDE DEF step, n, Q
  <2> QED
    BY <1>1, <1>3, <1>4, Stepwise
<1>6. \A k \in 0..n : h[k] = IF k = 0 THEN Nothing ELSE WithPart(h[k - 1], parts[k], sep, pieces[k])
  <2> TAKE k \in 0..n
  <2>1. CASE k = 0
    BY <1>5, <2>1 DEF StepsBy
  <2>2. CASE k # 0
    <3>1. k \in 1..n /\ k - 1 \in 0..n
      BY <1>1, <2>2
    <3>2. h[k - 1] \in Q /\ h[k] = step[<<k, h[k - 1]>>]
      BY <1>5, <3>1 DEF StepsBy
    <3> QED
      BY <2>2, <3>1, <3>2
  <2> QED
    BY <2>1, <2>2
<1>7. Rec(h)
  <2> DEFINE Now(k) == IF k = 0 THEN Nothing ELSE WithPart(h[k - 1], parts[k], sep, pieces[k])
  <2>1. h = [k \in 0..n |-> h[k]]
    BY <1>5 DEF StepsBy
  <2> HIDE DEF n
  <2>2. \A k \in 0..n : h[k] = Now(k)
    BY <1>6
  <2> HIDE DEF Now
  <2>3. h = [k \in 0..n |-> Now(k)]
    BY <2>1, <2>2
  <2> QED
    BY <2>3 DEF Now
<1>8. g = CHOOSE f : Rec(f)
  BY Zenon DEF Regrouped
<1> HIDE DEF Rec
<1>9. Rec(g)
  BY <1>7, <1>8
<1> HIDE DEF g
<1>10. \A k \in 0..n : g[k] = IF k = 0 THEN Nothing ELSE WithPart(g[k - 1], parts[k], sep, pieces[k])
  <2> DEFINE Now(k) == IF k = 0 THEN Nothing ELSE WithPart(g[k - 1], parts[k], sep, pieces[k])
  <2>1. g = [k \in 0..n |-> Now(k)]
    BY <1>9 DEF Rec
  <2> HIDE DEF n, Now
  <2>2. \A k \in 0..n : g[k] = Now(k)
    BY <2>1
  <2> QED
    BY <2>2 DEF Now
<1> HIDE DEF n
<1>11. 0 \in 0..n /\ \A k \in 1..n : k \in 0..n /\ k # 0
  BY <1>1
<1>12. g[0] = Nothing /\ \A k \in 1..n : g[k] = WithPart(g[k - 1], parts[k], sep, pieces[k])
  BY <1>10, <1>11
<1> QED
  BY <1>12 DEF g, n

LEMMA RegroupedKeeps ==
    ASSUME NEW X, NEW parts \in Seq(Seq(X)), NEW sep \in X \cap Blanks, NEW pieces,
           \A k \in 1..Len(parts) : PiecesOf(pieces[k], parts[k], X)
    PROVE  Holding(Regrouped(parts, sep, pieces)[Len(parts)], parts, X)
<1> DEFINE n == Len(parts)
           g == Regrouped(parts, sep, pieces)
           first(k) == SubSeq(parts, 1, k)
           S == {k \in 0..n : Holding(g[k], first(k), X)}
<1>1. n \in Nat /\ \A k \in 1..n : parts[k] \in Seq(X)
  BY ElementOfSeq
<1>2. g[0] = Nothing /\ \A k \in 1..n : g[k] = WithPart(g[k - 1], parts[k], sep, pieces[k])
  BY RegroupedStep
<1> HIDE DEF g
<1>3. 0 \in S
  <2>1. first(0) = <<>>
    BY SubSeqEmpty
  <2>2. <<>> \in Seq(Seq(X)) /\ <<>> \in Seq(X) /\ Len(<<>>) = 0
    BY EmptySeq
  <2>3. LettersIn(<<>>) \o Letters(<<>>) = LettersIn(<<>>)
    BY <2>2, LettersInNone, LettersNone, ConcatEmptySeq
  <2>4. Holding(Nothing, <<>>, X)
    BY <2>2, <2>3, ChunkingAssumption DEF Holding, Accs, Nothing
  <2>5. Holding(g[0], first(0), X)
    <3> HIDE DEF first
    <3> QED
      BY <1>2, <2>1, <2>4
  <2>6. 0 \in 0..n
    BY <1>1
  <2> QED
    BY <2>5, <2>6
<1>4. ASSUME NEW k \in 0..n, k < n, k \in S
      PROVE  k + 1 \in S
  <2>1. k + 1 \in 1..n /\ k + 1 \in 0..n /\ (k + 1) - 1 = k /\ 1 \in 1..n
    BY <1>1, <1>4
  <2>2. first(k) \in Seq(Seq(X))
    BY <1>1, <1>4, SubSeqProperties
  <2>3. parts[k + 1] \in Seq(X) /\ PiecesOf(pieces[k + 1], parts[k + 1], X)
    BY <1>1, <2>1
  <2>4. first(k + 1) = Append(first(k), parts[k + 1])
    <3>1. SubSeq(parts, 1, k + 1) = SubSeq(parts, 1, (k + 1) - 1) \o <<parts[k + 1]>>
      BY <2>1, SubSeqRecursiveSecond
    <3> QED
      BY <2>1, <2>2, <2>3, <3>1, AppendIsConcat
  <2>5. g[k + 1] = WithPart(g[k], parts[k + 1], sep, pieces[k + 1])
    BY <1>2, <2>1
  <2>6. Holding(g[k], first(k), X)
    BY <1>4
  <2> HIDE DEF first, n, S
  <2>7. Holding(g[k + 1], first(k + 1), X)
    BY <2>2, <2>3, <2>4, <2>5, <2>6, PartAdded
  <2> QED
    BY <2>1, <2>7 DEF S
<1>5. n \in S
  <2>1. n \in 0..n
    BY <1>1
  <2> HIDE DEF n, S
  <2>2. \A k \in 0..n : k \in S
    BY <1>1, <1>3, <1>4, OneByOne
  <2> QED
    BY <2>1, <2>2
<1>6. first(n) = parts
  BY SubSeqFull
<1>7. Holding(g[n], first(n), X)
  BY <1>5
<1> QED
  BY <1>6, <1>7 DEF g

\* One separator after the other: pieces that fit, with all the letters.
LEMMA SplitAtKeeps ==
    ASSUME NEW X, NEW text \in Seq(X), NEW sep \in X \cap Blanks, NEW whole, PiecesOf(whole, text, X), NEW pieces,
           \A k \in 1..Len(SplitBy(text, sep)) : PiecesOf(pieces[k], SplitBy(text, sep)[k], X)
    PROVE  LET parts == SplitBy(text, sep)
           IN  PiecesOf(IF Len(text) <= Size THEN <<text>> ELSE IF Len(parts) = 1 THEN whole
                        ELSE Done(Regrouped(parts, sep, pieces)[Len(parts)]), text, X)
<1> DEFINE parts == SplitBy(text, sep)
           all == Done(Regrouped(parts, sep, pieces)[Len(parts)])
<1>1. parts \in Seq(Seq(X)) /\ LettersIn(parts) = Letters(text)
  BY SplitByKeeps
<1>2. Len(text) <= Size => PiecesOf(<<text>>, text, X)
  BY OnePiece
<1> HIDE DEF parts
<1>3. Holding(Regrouped(parts, sep, pieces)[Len(parts)], parts, X)
  BY <1>1, RegroupedKeeps DEF parts
<1>4. PiecesOf(all, text, X)
  BY <1>1, <1>3, DoneKeeps DEF PiecesOf
<1> QED
  BY <1>2, <1>4 DEF parts

LEMMA SplitWordsKeeps ==
    ASSUME NEW X, Space \in X, NEW text \in Seq(X)
    PROVE  PiecesOf(SplitWords(text), text, X)
<1> DEFINE parts == SplitBy(text, Space)
           pieces == [k \in 1..Len(parts) |-> Cut(parts[k])]
<1>1. Space \in X \cap Blanks
  BY DEF Blanks
<1>2. parts \in Seq(Seq(X))
  BY <1>1, SplitByKeeps
<1>3. \A k \in 1..Len(parts) : PiecesOf(pieces[k], parts[k], X)
  BY <1>2, CutKeeps, ElementOfSeq
<1>4. PiecesOf(Cut(text), text, X)
  BY CutKeeps
<1>5. SplitWords(text) = IF Len(text) <= Size THEN <<text>> ELSE IF Len(parts) = 1 THEN Cut(text)
                         ELSE Done(Regrouped(parts, Space, pieces)[Len(parts)])
  BY Zenon DEF SplitWords, SplitAt
<1> HIDE DEF pieces
<1> QED
  BY <1>1, <1>3, <1>4, <1>5, SplitAtKeeps

LEMMA SplitKeeps ==
    ASSUME NEW X, Break \in X, Space \in X, NEW text \in Seq(X)
    PROVE  PiecesOf(Split(text), text, X)
<1> DEFINE parts == SplitBy(text, Break)
           pieces == [k \in 1..Len(parts) |-> SplitWords(parts[k])]
<1>1. Break \in X \cap Blanks
  BY DEF Blanks
<1>2. parts \in Seq(Seq(X))
  BY <1>1, SplitByKeeps
<1>3. \A k \in 1..Len(parts) : PiecesOf(pieces[k], parts[k], X)
  BY <1>2, SplitWordsKeeps, ElementOfSeq
<1>4. PiecesOf(SplitWords(text), text, X)
  BY SplitWordsKeeps
<1>5. Split(text) = IF Len(text) <= Size THEN <<text>> ELSE IF Len(parts) = 1 THEN SplitWords(text)
                    ELSE Done(Regrouped(parts, Break, pieces)[Len(parts)])
  BY Zenon DEF Split, SplitAt
<1> HIDE DEF pieces
<1> QED
  BY <1>1, <1>3, <1>4, <1>5, SplitAtKeeps

-----------------------------------------------------------------------------
(* What is packed keeps its letters *)

TextsOf(s) == [k \in 1..Len(s) |-> s[k].text]

Texted(R, X) == \A r \in R : r.text \in Seq(X)

LEMMA TextsAre ==
    ASSUME NEW X, NEW R, Texted(R, X), NEW s \in Seq(R)
    PROVE  /\ TextsOf(s) \in Seq(Seq(X)) /\ Len(TextsOf(s)) = Len(s)
           /\ \A k \in 1..Len(s) : TextsOf(s)[k] = s[k].text
<1>1. Len(s) \in Nat /\ \A k \in 1..Len(s) : s[k].text \in Seq(X)
  BY ElementOfSeq DEF Texted
<1>2. TextsOf(s) \in [1..Len(s) -> Seq(X)]
  BY <1>1 DEF TextsOf
<1> QED
  BY <1>1, <1>2 DEF TextsOf

LEMMA TextsNone ==
    TextsOf(<<>>) = <<>>
BY DEF TextsOf

LEMMA TextsAppend ==
    ASSUME NEW X, NEW R, Texted(R, X), NEW s \in Seq(R), NEW r \in R
    PROVE  TextsOf(Append(s, r)) = Append(TextsOf(s), r.text)
<1> DEFINE n == Len(s)
           a == TextsOf(Append(s, r))
           b == Append(TextsOf(s), r.text)
<1>1. /\ n \in Nat /\ Append(s, r) \in Seq(R) /\ Len(Append(s, r)) = n + 1
      /\ Append(s, r)[n + 1] = r /\ \A k \in 1..n : Append(s, r)[k] = s[k]
  BY AppendProperties
<1>2. r.text \in Seq(X)
  BY DEF Texted
<1>3. /\ TextsOf(s) \in Seq(Seq(X)) /\ Len(TextsOf(s)) = n
      /\ \A k \in 1..n : TextsOf(s)[k] = s[k].text
  BY TextsAre
<1>4. a \in Seq(Seq(X)) /\ Len(a) = n + 1 /\ \A k \in 1..n + 1 : a[k] = Append(s, r)[k].text
  BY <1>1, TextsAre
<1>5. /\ b \in Seq(Seq(X)) /\ Len(b) = n + 1 /\ b[n + 1] = r.text
      /\ \A k \in 1..n : b[k] = TextsOf(s)[k]
  BY <1>2, <1>3, AppendProperties
<1> HIDE DEF a, b, n
<1>6. ASSUME NEW k \in 1..n + 1
      PROVE  a[k] = b[k]
  <2>1. k \in 1..n \/ k = n + 1
    BY <1>1
  <2> QED
    BY <1>1, <1>3, <1>4, <1>5, <2>1
<1>7. a = b
  BY <1>4, <1>5, <1>6, SeqEqual
<1> QED
  BY <1>7 DEF a, b

LEMMA TextsConcat ==
    ASSUME NEW X, NEW R, Texted(R, X), NEW s \in Seq(R), NEW t \in Seq(R)
    PROVE  TextsOf(s \o t) = TextsOf(s) \o TextsOf(t)
<1> DEFINE n == Len(s)
           m == Len(t)
           a == TextsOf(s \o t)
           b == TextsOf(s) \o TextsOf(t)
<1>1. /\ n \in Nat /\ m \in Nat /\ s \o t \in Seq(R) /\ Len(s \o t) = n + m
      /\ \A k \in 1..n + m : (s \o t)[k] = IF k <= n THEN s[k] ELSE t[k - n]
  BY ConcatProperties
<1>2. /\ TextsOf(s) \in Seq(Seq(X)) /\ Len(TextsOf(s)) = n
      /\ \A k \in 1..n : TextsOf(s)[k] = s[k].text
  BY TextsAre
<1>3. /\ TextsOf(t) \in Seq(Seq(X)) /\ Len(TextsOf(t)) = m
      /\ \A k \in 1..m : TextsOf(t)[k] = t[k].text
  BY TextsAre
<1>4. a \in Seq(Seq(X)) /\ Len(a) = n + m /\ \A k \in 1..n + m : a[k] = (s \o t)[k].text
  BY <1>1, TextsAre
<1>5. /\ b \in Seq(Seq(X)) /\ Len(b) = n + m
      /\ \A k \in 1..n + m : b[k] = IF k <= n THEN TextsOf(s)[k] ELSE TextsOf(t)[k - n]
  <2> DEFINE p == TextsOf(s)
             q == TextsOf(t)
  <2>1. p \in Seq(Seq(X)) /\ Len(p) = n /\ q \in Seq(Seq(X)) /\ Len(q) = m
    BY <1>2, <1>3
  <2> HIDE DEF p, q, n, m
  <2>2. /\ p \o q \in Seq(Seq(X)) /\ Len(p \o q) = n + m
        /\ \A k \in 1..n + m : (p \o q)[k] = IF k <= n THEN p[k] ELSE q[k - n]
    BY <2>1, ConcatProperties
  <2> QED
    BY <2>2 DEF p, q
<1> HIDE DEF a, b, n, m
<1>6. ASSUME NEW k \in 1..n + m
      PROVE  a[k] = b[k]
  <2>1. CASE k <= n
    <3>1. k \in 1..n
      BY <1>1, <2>1
    <3> QED
      BY <1>1, <1>2, <1>4, <1>5, <2>1, <3>1
  <2>2. CASE ~(k <= n)
    <3>1. k - n \in 1..m
      BY <1>1, <2>2
    <3> QED
      BY <1>1, <1>3, <1>4, <1>5, <2>2, <3>1
  <2> QED
    BY <2>1, <2>2
<1>7. a = b
  BY <1>4, <1>5, <1>6, SeqEqual
<1> QED
  BY <1>7 DEF a, b

Fit(X) == {text \in Seq(X) : Len(text) <= Size}
Part(X) == [text : Fit(X), list : BOOLEAN]
Piece(X) == [text : Fit(X), lists : BOOLEAN]

PartsIn(blocks) == FlattenSeq([i \in 1..Len(blocks) |-> PartsOf(blocks[i])])

LEMMA PartsAre ==
    ASSUME NEW X, Break \in X, Space \in X, NEW b, b.text \in Seq(X)
    PROVE  /\ PartsOf(b) \in Seq(Part(X))
           /\ LettersIn(TextsOf(PartsOf(b))) = Letters(b.text)
<1> DEFINE pieces == Split(b.text)
<1>1. /\ pieces \in Seq(Seq(X)) /\ LettersIn(pieces) = Letters(b.text)
      /\ \A k \in 1..Len(pieces) : Len(pieces[k]) <= Size
  BY SplitKeeps DEF PiecesOf
<1>2. PartsOf(b) = [k \in 1..Len(pieces) |-> [text |-> pieces[k], list |-> b.kind = "list"]]
  BY DEF PartsOf
<1> HIDE DEF pieces
<1>3. Len(pieces) \in Nat /\ \A k \in 1..Len(pieces) : pieces[k] \in Fit(X)
  BY <1>1, ElementOfSeq DEF Fit
<1>4. (b.kind = "list") \in BOOLEAN
  OBVIOUS
<1>5. \A k \in 1..Len(pieces) : [text |-> pieces[k], list |-> b.kind = "list"] \in Part(X)
  BY <1>3, <1>4 DEF Part
<1>6. PartsOf(b) \in Seq(Part(X)) /\ Len(PartsOf(b)) = Len(pieces)
  <2>1. PartsOf(b) \in [1..Len(pieces) -> Part(X)]
    BY <1>2, <1>5
  <2> QED
    BY <1>3, <2>1
<1>7. TextsOf(PartsOf(b)) = pieces
  <2>1. TextsOf(PartsOf(b)) = [k \in 1..Len(pieces) |-> pieces[k]]
    BY <1>2, <1>6 DEF TextsOf
  <2>2. pieces = [k \in 1..Len(pieces) |-> pieces[k]]
    BY <1>1
  <2> QED
    BY <2>1, <2>2
<1> QED
  BY <1>1, <1>6, <1>7

LEMMA PartsTexted ==
    ASSUME NEW X
    PROVE  Texted(Part(X), X) /\ Texted(Piece(X), X)
BY DEF Texted, Part, Piece, Fit

LEMMA PartsKeep ==
    ASSUME NEW X, Break \in X, Space \in X, NEW B, Texted(B, X)
    PROVE  \A blocks \in Seq(B) : /\ PartsIn(blocks) \in Seq(Part(X))
                                  /\ LettersIn(TextsOf(PartsIn(blocks))) = LettersIn(TextsOf(blocks))
<1> DEFINE Says(blocks) == /\ PartsIn(blocks) \in Seq(Part(X))
                           /\ LettersIn(TextsOf(PartsIn(blocks))) = LettersIn(TextsOf(blocks))
           Good == {blocks \in Seq(B) : Says(blocks)}
<1>1. <<>> \in Good
  <2>1. <<>> \in Seq(B) /\ <<>> \in Seq(Part(X)) /\ Len(<<>>) = 0
    BY EmptySeq
  <2>2. PartsIn(<<>>) = <<>>
    <3>1. [i \in 1..Len(<<>>) |-> PartsOf(<<>>[i])] = <<>>
      OBVIOUS
    <3> QED
      BY <3>1, FlattenNone DEF PartsIn
  <2> QED
    BY <2>1, <2>2, TextsNone
<1>2. ASSUME NEW blocks \in Seq(B), blocks \in Good, NEW b \in B
      PROVE  Append(blocks, b) \in Good
  <2> DEFINE n == Len(blocks)
             more == Append(blocks, b)
             each == [i \in 1..n |-> PartsOf(blocks[i])]
             all == [i \in 1..Len(more) |-> PartsOf(more[i])]
  <2>1. /\ n \in Nat /\ more \in Seq(B) /\ Len(more) = n + 1 /\ more[n + 1] = b
        /\ \A i \in 1..n : more[i] = blocks[i] /\ blocks[i] \in B
    BY AppendProperties, ElementOfSeq
  <2>2. PartsIn(blocks) = FlattenSeq(each) /\ PartsIn(more) = FlattenSeq(all)
    BY DEF PartsIn
  <2>3. /\ each \in Seq(Seq(Part(X))) /\ Len(each) = n
        /\ PartsOf(b) \in Seq(Part(X)) /\ LettersIn(TextsOf(PartsOf(b))) = Letters(b.text)
    <3>1. b.text \in Seq(X) /\ \A i \in 1..n : blocks[i].text \in Seq(X)
      BY <2>1 DEF Texted
    <3>2. each \in [1..n -> Seq(Part(X))]
      BY <3>1, PartsAre
    <3> QED
      BY <2>1, <3>1, <3>2, PartsAre
  <2>4. all = Append(each, PartsOf(b))
    <3>1. /\ Append(each, PartsOf(b)) \in Seq(Seq(Part(X))) /\ Len(Append(each, PartsOf(b))) = n + 1
          /\ Append(each, PartsOf(b))[n + 1] = PartsOf(b)
          /\ \A i \in 1..n : Append(each, PartsOf(b))[i] = each[i]
      BY <2>3, AppendProperties
    <3>2. Append(each, PartsOf(b)) = [i \in 1..n + 1 |-> Append(each, PartsOf(b))[i]]
      BY <3>1
    <3>3. \A i \in 1..n : each[i] = PartsOf(blocks[i])
      OBVIOUS
    <3> HIDE DEF each, more, n
    <3>4. \A i \in 1..n + 1 : Append(each, PartsOf(b))[i] = PartsOf(more[i])
      <4> TAKE i \in 1..n + 1
      <4>1. i \in 1..n \/ i = n + 1
        BY <2>1
      <4> QED
        BY <2>1, <3>1, <3>3, <4>1
    <3> QED
      BY <2>1, <3>2, <3>4
  <2> HIDE DEF each, all, more
  <2>5. PartsIn(more) = PartsIn(blocks) \o PartsOf(b)
    BY <2>2, <2>3, <2>4, FlattenAppend
  <2>6. Says(blocks)
    BY <1>2
  <2>7. PartsIn(more) \in Seq(Part(X)) /\ TextsOf(PartsIn(more)) = TextsOf(PartsIn(blocks)) \o TextsOf(PartsOf(b))
    BY <2>3, <2>5, <2>6, PartsTexted, TextsConcat, ConcatProperties
  <2>8. TextsOf(PartsIn(blocks)) \in Seq(Seq(X)) /\ TextsOf(PartsOf(b)) \in Seq(Seq(X))
    BY <2>3, <2>6, PartsTexted, TextsAre
  <2>9. LettersIn(TextsOf(PartsIn(more))) = LettersIn(TextsOf(blocks)) \o Letters(b.text)
    <3>1. LettersIn(TextsOf(PartsIn(blocks)) \o TextsOf(PartsOf(b))) =
             LettersIn(TextsOf(PartsIn(blocks))) \o LettersIn(TextsOf(PartsOf(b)))
      BY <2>8, LettersInConcat
    <3> QED
      BY <2>3, <2>6, <2>7, <3>1
  <2>10. LettersIn(TextsOf(more)) = LettersIn(TextsOf(blocks)) \o Letters(b.text)
    <3>1. TextsOf(more) = Append(TextsOf(blocks), b.text)
      BY TextsAppend DEF more
    <3>2. TextsOf(blocks) \in Seq(Seq(X)) /\ b.text \in Seq(X)
      BY TextsAre DEF Texted
    <3> QED
      BY <3>1, <3>2, LettersInAppend
  <2> QED
    BY <2>1, <2>7, <2>9, <2>10 DEF more
<1> HIDE DEF Good
<1>3. \A blocks \in Seq(B) : blocks \in Good
  BY <1>1, <1>2, OneMore
<1> QED
  BY <1>3 DEF Good

Packs(X) == [out : Seq(Piece(X)), text : Fit(X), lists : BOOLEAN]

LEMMA EmptyFits ==
    ASSUME NEW X
    PROVE  <<>> \in Fit(X)
BY EmptySeq, ChunkingAssumption DEF Fit

LEMMA ClosedKeeps ==
    ASSUME NEW X, NEW acc \in Packs(X)
    PROVE  /\ Closed(acc) \in Seq(Piece(X))
           /\ LettersIn(TextsOf(Closed(acc))) = LettersIn(TextsOf(acc.out)) \o Letters(acc.text)
<1> DEFINE out == acc.out
           text == acc.text
           piece == [text |-> text, lists |-> acc.lists]
<1>1. out \in Seq(Piece(X)) /\ text \in Fit(X) /\ text \in Seq(X) /\ piece \in Piece(X)
  BY DEF Packs, Fit, Piece
<1>2. Closed(acc) = IF text = <<>> THEN out ELSE Append(out, piece)
  BY DEF Closed
<1>3. piece.text = text
  OBVIOUS
<1> HIDE DEF out, text, piece
<1>4. TextsOf(out) \in Seq(Seq(X)) /\ LettersIn(TextsOf(out)) \in Seq(X)
  <2>1. TextsOf(out) \in Seq(Seq(X))
    BY <1>1, PartsTexted, TextsAre
  <2> QED
    BY <1>1, <2>1, LettersInAppend
<1>5. CASE text = <<>>
  <2>1. LettersIn(TextsOf(out)) \o Letters(text) = LettersIn(TextsOf(out))
    BY <1>4, <1>5, LettersNone, ConcatEmptySeq
  <2> QED
    BY <1>1, <1>2, <1>5, <2>1 DEF out, text
<1>6. CASE text # <<>>
  <2>1. TextsOf(Append(out, piece)) = Append(TextsOf(out), text)
    BY <1>1, <1>3, PartsTexted, TextsAppend
  <2>2. LettersIn(Append(TextsOf(out), text)) = LettersIn(TextsOf(out)) \o Letters(text)
    BY <1>1, <1>4, LettersInAppend
  <2>3. Append(out, piece) \in Seq(Piece(X))
    BY <1>1, AppendProperties
  <2> QED
    BY <1>2, <1>6, <2>1, <2>2, <2>3 DEF out, text
<1> QED
  BY <1>5, <1>6

LEMMA TextAdded ==
    ASSUME NEW X, Break \in X, NEW acc \in Packs(X), NEW part \in Part(X)
    PROVE  /\ WithText(acc, part) \in Packs(X)
           /\ LettersIn(TextsOf(Closed(WithText(acc, part)))) = LettersIn(TextsOf(Closed(acc))) \o Letters(part.text)
<1> DEFINE out == acc.out
           text == acc.text
           more == part.text
           beside == Beside(text, Break, more)
           next == WithText(acc, part)
<1>1. /\ out \in Seq(Piece(X)) /\ text \in Seq(X) /\ Len(text) <= Size /\ acc.lists \in BOOLEAN
      /\ more \in Seq(X) /\ Len(more) <= Size /\ part.list \in BOOLEAN
      /\ acc = [out |-> out, text |-> text, lists |-> acc.lists]
  BY DEF Packs, Fit, Part
<1>2. beside \in Seq(X) /\ Letters(beside) = Letters(text) \o Letters(more)
  <2>1. Break \in X \cap Blanks
    BY DEF Blanks
  <2> HIDE DEF text, more
  <2> QED
    BY <1>1, <2>1, BesideIt
<1>3. /\ Closed(acc) \in Seq(Piece(X))
      /\ LettersIn(TextsOf(Closed(acc))) = LettersIn(TextsOf(out)) \o Letters(text)
  BY ClosedKeeps
<1>4. text = <<>> => beside = more
  BY DEF Beside
<1>5. TextsOf(out) \in Seq(Seq(X))
  BY <1>1, PartsTexted, TextsAre
<1>6. LettersIn(TextsOf(out)) \in Seq(X) /\ Letters(text) \in Seq(X) /\ Letters(more) \in Seq(X)
  BY <1>1, <1>5, LettersInAppend, LettersOf
<1>7. Len(beside) \in Nat /\ Size \in Nat
  BY <1>2, LenProperties, ChunkingAssumption
<1>8. CASE text # <<>> /\ Len(beside) > Size
  <2>1. next = [out |-> Closed(acc), text |-> more, lists |-> part.list]
    BY <1>8, Zenon DEF WithText
  <2>2. next \in Packs(X) /\ next.out = Closed(acc) /\ next.text = more
    BY <1>1, <1>3, <2>1 DEF Packs, Fit
  <2>3. LettersIn(TextsOf(Closed(next))) = LettersIn(TextsOf(next.out)) \o Letters(next.text)
    BY <2>2, ClosedKeeps
  <2> QED
    BY <2>2, <2>3
<1>9. CASE ~(text # <<>> /\ Len(beside) > Size)
  <2>1. next = [acc EXCEPT !.text = Beside(@, Break, part.text), !.lists = @ /\ part.list]
    BY <1>9, Zenon DEF WithText
  <2>2. next.out = out /\ next.text = beside /\ next.lists = (acc.lists /\ part.list) /\ next \in [out : {out}, text : {beside}, lists : {acc.lists /\ part.list}]
    BY <1>1, <2>1
  <2>3. Len(beside) <= Size
    BY <1>1, <1>4, <1>7, <1>9
  <2>4. (acc.lists /\ part.list) \in BOOLEAN
    OBVIOUS
  <2> HIDE DEF out, text, more, beside, next
  <2>5. next \in Packs(X)
    BY <1>1, <1>2, <2>2, <2>3, <2>4 DEF Packs, Fit
  <2>6. LettersIn(TextsOf(Closed(next))) = LettersIn(TextsOf(next.out)) \o Letters(next.text)
    BY <2>5, ClosedKeeps
  <2>7. (LettersIn(TextsOf(out)) \o Letters(text)) \o Letters(more) = LettersIn(TextsOf(out)) \o (Letters(text) \o Letters(more))
    <3> DEFINE a == LettersIn(TextsOf(out))
               b == Letters(text)
               c == Letters(more)
    <3>1. a \in Seq(X) /\ b \in Seq(X) /\ c \in Seq(X)
      BY <1>6
    <3> HIDE DEF a, b, c
    <3>2. (a \o b) \o c = a \o (b \o c)
      BY <3>1, ConcatAssociative
    <3> QED
      BY <3>2 DEF a, b, c
  <2>8. LettersIn(TextsOf(Closed(next))) = LettersIn(TextsOf(Closed(acc))) \o Letters(more)
    BY <1>2, <1>3, <2>2, <2>6, <2>7
  <2> QED
    BY <2>5, <2>8 DEF next, more
<1> QED
  BY <1>8, <1>9

LEMMA PackingsStep ==
    ASSUME NEW X, Break \in X, NEW parts \in Seq(Part(X))
    PROVE  LET g == Packings(parts)
           IN  /\ g[0] = [out |-> <<>>, text |-> <<>>, lists |-> TRUE]
               /\ \A k \in 1..Len(parts) : g[k] = WithText(g[k - 1], parts[k])
               /\ \A k \in 0..Len(parts) : g[k] \in Packs(X)
<1> DEFINE n == Len(parts)
           Q == Packs(X)
           first == [out |-> <<>>, text |-> <<>>, lists |-> TRUE]
           step == [p \in (1..n) \X Q |-> WithText(p[2], parts[p[1]])]
           Rec(f) == f = [k \in 0..n |-> IF k = 0 THEN first ELSE WithText(f[k - 1], parts[k])]
           g == Packings(parts)
<1>1. n \in Nat /\ \A k \in 1..n : parts[k] \in Part(X)
  BY ElementOfSeq
<1>2. first \in Q
  BY EmptyFits, EmptySeq DEF Packs
<1>3. step \in [(1..n) \X Q -> Q]
  BY <1>1, TextAdded
<1> HIDE DEF first
<1>4. PICK h : StepsBy(h, n, Q, first, step)
  <2> HIDE DEF step, n, Q
  <2> QED
    BY <1>1, <1>2, <1>3, Stepwise
<1>5. \A k \in 0..n : h[k] = IF k = 0 THEN first ELSE WithText(h[k - 1], parts[k])
  <2> TAKE k \in 0..n
  <2>1. CASE k = 0
    BY <1>4, <2>1 DEF StepsBy
  <2>2. CASE k # 0
    <3>1. k \in 1..n /\ k - 1 \in 0..n
      BY <1>1, <2>2
    <3>2. h[k - 1] \in Q /\ h[k] = step[<<k, h[k - 1]>>]
      BY <1>4, <3>1 DEF StepsBy
    <3> QED
      BY <2>2, <3>1, <3>2
  <2> QED
    BY <2>1, <2>2
<1>6. Rec(h)
  <2> DEFINE Now(k) == IF k = 0 THEN first ELSE WithText(h[k - 1], parts[k])
  <2>1. h = [k \in 0..n |-> h[k]]
    BY <1>4 DEF StepsBy
  <2> HIDE DEF n
  <2>2. \A k \in 0..n : h[k] = Now(k)
    BY <1>5
  <2> HIDE DEF Now
  <2>3. h = [k \in 0..n |-> Now(k)]
    BY <2>1, <2>2
  <2> QED
    BY <2>3 DEF Now
<1>7. g = CHOOSE f : Rec(f)
  BY Zenon DEF Packings, first
<1> HIDE DEF Rec
<1>8. Rec(g)
  BY <1>6, <1>7
<1> HIDE DEF g
<1>9. \A k \in 0..n : g[k] = IF k = 0 THEN first ELSE WithText(g[k - 1], parts[k])
  <2> DEFINE Now(k) == IF k = 0 THEN first ELSE WithText(g[k - 1], parts[k])
  <2>1. g = [k \in 0..n |-> Now(k)]
    BY <1>8 DEF Rec
  <2> HIDE DEF n, Now
  <2>2. \A k \in 0..n : g[k] = Now(k)
    BY <2>1
  <2> QED
    BY <2>2 DEF Now
<1> HIDE DEF n, Q
<1>10. g[0] = first /\ \A k \in 1..n : g[k] = WithText(g[k - 1], parts[k])
  <2>1. 0 \in 0..n /\ \A k \in 1..n : k \in 0..n /\ k # 0
    BY <1>1
  <2> QED
    BY <1>9, <2>1
<1>11. \A k \in 0..n : g[k] \in Q
  <2>1. g[0] \in Q /\ \A k \in 1..n : g[k - 1] \in Q => g[k] \in Q
    BY <1>1, <1>2, <1>10, TextAdded DEF Q
  <2> QED
    BY <1>1, <2>1, AtEachStep
<1> QED
  BY <1>10, <1>11 DEF g, n, Q, first

\* The pieces of one section: each fits, and they have all its letters.
LEMMA PackedKeeps ==
    ASSUME NEW X, Break \in X, Space \in X, NEW B, Texted(B, X), NEW blocks \in Seq(B)
    PROVE  /\ Packed(blocks) \in Seq(Piece(X))
           /\ LettersIn(TextsOf(Packed(blocks))) = LettersIn(TextsOf(blocks))
<1> DEFINE parts == PartsIn(blocks)
           n == Len(parts)
           g == Packings(parts)
           read(k) == SubSeq(parts, 1, k)
           S == {k \in 0..n : LettersIn(TextsOf(Closed(g[k]))) = LettersIn(TextsOf(read(k)))}
<1>1. parts \in Seq(Part(X)) /\ LettersIn(TextsOf(parts)) = LettersIn(TextsOf(blocks))
  BY PartsKeep
<1>2. Packed(blocks) = Closed(g[n])
  BY DEF Packed, PartsIn
<1> HIDE DEF parts
<1>3. n \in Nat /\ \A k \in 1..n : parts[k] \in Part(X)
  BY <1>1, ElementOfSeq
<1>4. /\ g[0] = [out |-> <<>>, text |-> <<>>, lists |-> TRUE]
      /\ \A k \in 1..n : g[k] = WithText(g[k - 1], parts[k])
      /\ \A k \in 0..n : g[k] \in Packs(X)
  BY <1>1, PackingsStep
<1> HIDE DEF g
<1>5. 0 \in S
  <2>1. read(0) = <<>>
    BY SubSeqEmpty
  <2>2. Closed(g[0]) = <<>>
    BY <1>4 DEF Closed
  <2>3. 0 \in 0..n
    BY <1>3
  <2>4. LettersIn(TextsOf(Closed(g[0]))) = LettersIn(TextsOf(read(0)))
    BY <2>1, <2>2
  <2> QED
    BY <2>3, <2>4
<1>6. ASSUME NEW k \in 0..n, k < n, k \in S
      PROVE  k + 1 \in S
  <2> DEFINE part == parts[k + 1]
  <2>1. k + 1 \in 1..n /\ k + 1 \in 0..n /\ (k + 1) - 1 = k /\ 1 \in 1..n
    BY <1>3, <1>6
  <2>2. part \in Part(X) /\ part.text \in Seq(X)
    BY <1>3, <2>1 DEF Part, Fit
  <2>3. read(k) \in Seq(Part(X)) /\ read(k + 1) = Append(read(k), part)
    <3>1. read(k) \in Seq(Part(X))
      BY <1>3, <1>6, SubSeqProperties
    <3>2. read(k + 1) = SubSeq(parts, 1, (k + 1) - 1) \o <<part>>
      BY <1>1, <2>1, SubSeqRecursiveSecond
    <3> QED
      BY <2>1, <2>2, <3>1, <3>2, AppendIsConcat
  <2>4. g[k] \in Packs(X) /\ g[k + 1] = WithText(g[k], part)
    BY <1>4, <2>1
  <2>5. LettersIn(TextsOf(Closed(g[k]))) = LettersIn(TextsOf(read(k)))
    BY <1>6
  <2> HIDE DEF read, part, n, S
  <2>6. TextsOf(read(k + 1)) = Append(TextsOf(read(k)), part.text)
    <3>1. Texted(Part(X), X)
      BY PartsTexted
    <3>2. TextsOf(Append(read(k), part)) = Append(TextsOf(read(k)), part.text)
      BY <2>2, <2>3, <3>1, TextsAppend
    <3> QED
      BY <2>3, <3>2
  <2>7. LettersIn(TextsOf(read(k + 1))) = LettersIn(TextsOf(read(k))) \o Letters(part.text)
    <3>1. TextsOf(read(k)) \in Seq(Seq(X))
      BY <2>3, PartsTexted, TextsAre
    <3> QED
      BY <2>2, <2>6, <3>1, LettersInAppend
  <2>8. LettersIn(TextsOf(Closed(g[k + 1]))) = LettersIn(TextsOf(read(k + 1)))
    BY <2>2, <2>4, <2>5, <2>7, TextAdded
  <2> QED
    BY <2>1, <2>8 DEF S
<1>7. n \in S
  <2>1. n \in 0..n
    BY <1>3
  <2> HIDE DEF n, S
  <2>2. \A k \in 0..n : k \in S
    BY <1>3, <1>5, <1>6, OneByOne
  <2> QED
    BY <2>1, <2>2
<1>8. read(n) = parts
  BY <1>1, SubSeqFull
<1>9. LettersIn(TextsOf(Closed(g[n]))) = LettersIn(TextsOf(read(n)))
  BY <1>7
<1>10. g[n] \in Packs(X)
  BY <1>3, <1>4
<1> QED
  BY <1>1, <1>2, <1>8, <1>9, <1>10, ClosedKeeps

-----------------------------------------------------------------------------
(* The chunks of blocks *)

BlockKinds == {"paragraph", "list", "code", "table"}
BlocksOf(X, Z) == [kind : BlockKinds, text : Seq(X), keys : Seq(X), section : Z]
ChunksOf(X, Z) == [kind : {"prose", "list", "table", "table_row"}, section : Z, lead : Seq(X), text : Seq(X)]

LEMMA BlocksTexted ==
    ASSUME NEW X, NEW Z
    PROVE  Texted(BlocksOf(X, Z), X)
BY DEF Texted, BlocksOf

OwnText(c) == IF c.kind = "table" THEN c.lead \o c.text ELSE IF c.kind = "table_row" THEN <<>> ELSE c.text
OwnTexts(chunks) == [k \in 1..Len(chunks) |-> OwnText(chunks[k])]

LEMMA OwnTextIs ==
    ASSUME NEW X, NEW Z, NEW c \in ChunksOf(X, Z)
    PROVE  OwnText(c) \in Seq(X) /\ Own(c) = Letters(OwnText(c))
<1>1. c.lead \in Seq(X) /\ c.text \in Seq(X) /\ <<>> \in Seq(X)
  BY EmptySeq DEF ChunksOf
<1>2. c.lead \o c.text \in Seq(X)
  BY <1>1, ConcatProperties
<1> QED
  BY <1>1, <1>2 DEF OwnText, Own

LEMMA OwnTextsAre ==
    ASSUME NEW X, NEW Z, NEW s \in Seq(ChunksOf(X, Z))
    PROVE  /\ OwnTexts(s) \in Seq(Seq(X)) /\ Len(OwnTexts(s)) = Len(s)
           /\ \A k \in 1..Len(s) : OwnTexts(s)[k] = OwnText(s[k])
<1>1. Len(s) \in Nat /\ \A k \in 1..Len(s) : OwnText(s[k]) \in Seq(X)
  BY OwnTextIs, ElementOfSeq
<1>2. OwnTexts(s) \in [1..Len(s) -> Seq(X)]
  BY <1>1 DEF OwnTexts
<1> QED
  BY <1>1, <1>2 DEF OwnTexts

LEMMA OwnTextsConcat ==
    ASSUME NEW X, NEW Z, NEW s \in Seq(ChunksOf(X, Z)), NEW t \in Seq(ChunksOf(X, Z))
    PROVE  /\ OwnTexts(s \o t) = OwnTexts(s) \o OwnTexts(t)
           /\ LettersIn(OwnTexts(s \o t)) = LettersIn(OwnTexts(s)) \o LettersIn(OwnTexts(t))
<1> DEFINE n == Len(s)
           m == Len(t)
           p == OwnTexts(s)
           q == OwnTexts(t)
           a == OwnTexts(s \o t)
           b == p \o q
<1>1. /\ n \in Nat /\ m \in Nat /\ s \o t \in Seq(ChunksOf(X, Z)) /\ Len(s \o t) = n + m
      /\ \A k \in 1..n + m : (s \o t)[k] = IF k <= n THEN s[k] ELSE t[k - n]
  BY ConcatProperties
<1>2. p \in Seq(Seq(X)) /\ Len(p) = n /\ \A k \in 1..n : p[k] = OwnText(s[k])
  BY OwnTextsAre
<1>3. q \in Seq(Seq(X)) /\ Len(q) = m /\ \A k \in 1..m : q[k] = OwnText(t[k])
  BY OwnTextsAre
<1>4. a \in Seq(Seq(X)) /\ Len(a) = n + m /\ \A k \in 1..n + m : a[k] = OwnText((s \o t)[k])
  BY <1>1, OwnTextsAre
<1> HIDE DEF p, q, n, m, a
<1>5. /\ b \in Seq(Seq(X)) /\ Len(b) = n + m
      /\ \A k \in 1..n + m : b[k] = IF k <= n THEN p[k] ELSE q[k - n]
  BY <1>2, <1>3, ConcatProperties
<1>6. LettersIn(b) = LettersIn(p) \o LettersIn(q)
  BY <1>2, <1>3, LettersInConcat
<1> HIDE DEF b
<1>7. ASSUME NEW k \in 1..n + m
      PROVE  a[k] = b[k]
  <2>1. CASE k <= n
    <3>1. k \in 1..n
      BY <1>1, <2>1
    <3> QED
      BY <1>1, <1>2, <1>4, <1>5, <2>1, <3>1
  <2>2. CASE ~(k <= n)
    <3>1. k - n \in 1..m
      BY <1>1, <2>2
    <3> QED
      BY <1>1, <1>3, <1>4, <1>5, <2>2, <3>1
  <2> QED
    BY <2>1, <2>2
<1>8. a = b
  BY <1>4, <1>5, <1>7, SeqEqual
<1> QED
  BY <1>6, <1>8 DEF a, b, p, q

\* The overlap is of the text it is taken from.
LEMMA LastOfText ==
    ASSUME NEW X, NEW text \in Seq(X)
    PROVE  LastOf(text) \in Seq(X) /\ ToSet(LastOf(text)) \subseteq ToSet(text)
<1> DEFINE n == Len(text)
           tail == SubSeq(text, n - Overlap + 1, n)
           spaces == {i \in 1..Len(tail) : tail[i] = Space}
<1>1. n \in Nat /\ Overlap \in Nat
  BY ChunkingAssumption
<1>2. ASSUME NEW s \in Seq(X), NEW m \in 1..Len(s)
      PROVE  SubSeq(s, m, Len(s)) \in Seq(X) /\ ToSet(SubSeq(s, m, Len(s))) \subseteq ToSet(s)
  <2>1. Len(s) \in Nat /\ \A i \in m..Len(s) : s[i] \in X
    BY ElementOfSeq
  <2>2. /\ SubSeq(s, m, Len(s)) \in Seq(X)
        /\ Len(SubSeq(s, m, Len(s))) = Len(s) - m + 1
        /\ \A i \in 1..Len(s) - m + 1 : SubSeq(s, m, Len(s))[i] = s[m + i - 1]
    BY <2>1, SubSeqProperties
  <2>3. \A i \in 1..Len(s) - m + 1 : m + i - 1 \in 1..Len(s)
    BY <2>1
  <2> QED
    BY <2>2, <2>3 DEF ToSet
<1>3. CASE n <= Overlap
  BY <1>3 DEF LastOf
<1>4. CASE ~(n <= Overlap)
  <2>1. LastOf(text) = IF spaces # {} /\ Min(spaces) < Len(tail) THEN SubSeq(tail, Min(spaces) + 1, Len(tail)) ELSE tail
    BY <1>4 DEF LastOf
  <2>2. n - Overlap + 1 \in 1..n + 1
    BY <1>1, <1>4
  <2>3. tail \in Seq(X) /\ ToSet(tail) \subseteq ToSet(text)
    <3>1. CASE n - Overlap + 1 \in 1..n
      BY <1>2, <3>1
    <3>2. CASE n - Overlap + 1 = n + 1
      <4>1. tail = <<>>
        BY <1>1, <3>2, SubSeqEmpty
      <4>2. ToSet(<<>>) = {} /\ <<>> \in Seq(X)
        BY EmptySeq DEF ToSet
      <4> HIDE DEF tail
      <4> QED
        BY <4>1, <4>2
    <3> QED
      BY <1>1, <2>2, <3>1, <3>2
  <2> HIDE DEF tail
  <2>4. CASE spaces # {} /\ Min(spaces) < Len(tail)
    <3>1. spaces \in SUBSET Nat
      OBVIOUS
    <3>2. \E x \in spaces : \A y \in spaces : x <= y
      <4> HIDE DEF spaces
      <4> QED
        BY <2>4, <3>1, Least
    <3>3. Min(spaces) \in spaces
      BY <3>2 DEF Min
    <3>4. Min(spaces) + 1 \in 1..Len(tail)
      BY <2>3, <2>4, <3>3
    <3>5. /\ SubSeq(tail, Min(spaces) + 1, Len(tail)) \in Seq(X)
          /\ ToSet(SubSeq(tail, Min(spaces) + 1, Len(tail))) \subseteq ToSet(tail)
      BY <1>2, <2>3, <3>4
    <3> QED
      BY <2>1, <2>3, <2>4, <3>5
  <2> QED
    BY <2>1, <2>3, <2>4
<1> QED
  BY <1>3, <1>4

LEMMA MembersOf ==
    ASSUME NEW X, NEW s \in Seq(X)
    PROVE  /\ ToSet(s) \subseteq X /\ Len(s) \in Nat
           /\ \A k \in 1..Len(s) : s[k] \in ToSet(s) /\ s[k] \in X
           /\ \A x \in ToSet(s) : \E k \in 1..Len(s) : s[k] = x
<1>1. ToSet(s) = {s[k] : k \in 1..Len(s)} /\ Len(s) \in Nat
  BY DEF ToSet
<1>2. \A k \in 1..Len(s) : s[k] \in X
  BY ElementOfSeq
<1> QED
  BY <1>1, <1>2

\* The letters a piece has are of a block it was packed from.
LEMMA PieceFrom ==
    ASSUME NEW X, Break \in X, Space \in X, NEW B, Texted(B, X), NEW blocks \in Seq(B),
           NEW k \in 1..Len(Packed(blocks)), NEW ch \in ToSet(Packed(blocks)[k].text) \ Blanks
    PROVE  \E b \in ToSet(blocks) : ch \in ToSet(b.text)
<1> DEFINE pieces == Packed(blocks)
<1>1. pieces \in Seq(Piece(X)) /\ LettersIn(TextsOf(pieces)) = LettersIn(TextsOf(blocks))
  BY PackedKeeps
<1>2. TextsOf(pieces) \in Seq(Seq(X)) /\ Len(TextsOf(pieces)) = Len(pieces) /\ TextsOf(pieces)[k] = pieces[k].text
  BY <1>1, PartsTexted, TextsAre
<1>3. /\ TextsOf(blocks) \in Seq(Seq(X)) /\ Len(TextsOf(blocks)) = Len(blocks)
      /\ \A j \in 1..Len(blocks) : TextsOf(blocks)[j] = blocks[j].text
  BY TextsAre
<1>4. ch \in ToSet(LettersIn(TextsOf(pieces)))
  <2>1. ch \notin Blanks /\ \E j \in 1..Len(TextsOf(pieces)) : ch \in ToSet(TextsOf(pieces)[j])
    BY <1>2
  <2> HIDE DEF pieces
  <2> QED
    BY <1>2, <2>1, LettersFrom
<1>5. PICK j \in 1..Len(TextsOf(blocks)) : ch \in ToSet(TextsOf(blocks)[j])
  BY <1>1, <1>3, <1>4, LettersFrom
<1>6. blocks[j] \in ToSet(blocks)
  BY <1>3, MembersOf
<1> QED
  BY <1>3, <1>5, <1>6

LEMMA SetOfConcat ==
    ASSUME NEW X, NEW s \in Seq(X), NEW t \in Seq(X)
    PROVE  ToSet(s \o t) = ToSet(s) \cup ToSet(t)
<1>1. Range(s \o t) = Range(s) \cup Range(t)
  BY RangeConcatenation
<1>2. \A u \in Seq(X) : ToSet(u) = Range(u)
  BY RangeEquality DEF ToSet
<1> QED
  BY <1>1, <1>2, ConcatProperties

\* A chunk that fits and whose letters are of the blocks R of its section.
Filed(c, R) ==
    /\ c.kind \in {"prose", "list"} => Len(c.text) <= Size
    /\ c.kind # "table_row" => \A ch \in ToSet(Letters(c.lead \o c.text)) :
        \E b \in R : ch \in ToSet(b.text) /\ b.section = c.section

\* Blocks of one section, none of them a table.
OneSection(blocks) == \A b \in ToSet(blocks) : b.kind # "table" /\ b.section = blocks[1].section

LEMMA ProseKeeps ==
    ASSUME NEW X, Break \in X, Space \in X, NEW Z, NEW blocks \in Seq(BlocksOf(X, Z)), blocks # <<>>,
           OneSection(blocks)
    PROVE  /\ ProseChunks(blocks) \in Seq(ChunksOf(X, Z))
           /\ LettersIn(OwnTexts(ProseChunks(blocks))) = LettersIn(TextsOf(blocks))
           /\ \A c \in ToSet(ProseChunks(blocks)) : Filed(c, ToSet(blocks))
<1> DEFINE pieces == Packed(blocks)
           n == Len(pieces)
           section == blocks[1].section
           chunks == ProseChunks(blocks)
           lead(k) == IF k = 1 \/ Overlap = 0 THEN <<>> ELSE LastOf(pieces[k - 1].text)
           chunk(k) == Chunk(IF pieces[k].lists THEN "list" ELSE "prose", section, lead(k), pieces[k].text)
<1>1. Texted(BlocksOf(X, Z), X)
  BY BlocksTexted
<1>2. pieces \in Seq(Piece(X)) /\ LettersIn(TextsOf(pieces)) = LettersIn(TextsOf(blocks))
  BY <1>1, PackedKeeps
<1>3. n \in Nat /\ \A k \in 1..n : pieces[k].text \in Seq(X) /\ Len(pieces[k].text) <= Size
  <2> HIDE DEF pieces
  <2>1. n \in Nat /\ \A k \in 1..n : pieces[k] \in Piece(X)
    BY <1>2, MembersOf
  <2> QED
    BY <2>1 DEF Piece, Fit
<1>4. chunks = [k \in 1..n |-> chunk(k)]
  BY Zenon DEF ProseChunks, InChunks
<1>5. \A k \in 1..n : \A ch : ch \in ToSet(pieces[k].text) \ Blanks => \E b \in ToSet(blocks) : ch \in ToSet(b.text)
  BY <1>1, PieceFrom
<1>6. section \in Z
  <2>1. 1 \in 1..Len(blocks)
    BY EmptySeq
  <2>2. blocks[1] \in BlocksOf(X, Z)
    BY <2>1, ElementOfSeq
  <2> QED
    BY <2>2 DEF BlocksOf
<1> HIDE DEF pieces, n, section
<1>7. ASSUME NEW k \in 1..n
      PROVE  lead(k) \in Seq(X) /\ (lead(k) = <<>> \/ \E j \in 1..n : ToSet(lead(k)) \subseteq ToSet(pieces[j].text))
  <2>1. CASE k = 1 \/ Overlap = 0
    BY <2>1, EmptySeq
  <2>2. CASE ~(k = 1 \/ Overlap = 0)
    <3>1. k - 1 \in 1..n
      BY <1>3, <2>2
    <3>2. LastOf(pieces[k - 1].text) \in Seq(X) /\ ToSet(LastOf(pieces[k - 1].text)) \subseteq ToSet(pieces[k - 1].text)
      BY <1>3, <3>1, LastOfText
    <3> QED
      BY <2>2, <3>1, <3>2
  <2> QED
    BY <2>1, <2>2
<1> HIDE DEF lead
<1>8. ASSUME NEW k \in 1..n
      PROVE  /\ chunk(k) \in ChunksOf(X, Z) /\ Filed(chunk(k), ToSet(blocks))
             /\ OwnText(chunk(k)) = pieces[k].text
  <2> DEFINE c == chunk(k)
  <2>1. /\ c.kind \in {"prose", "list"} /\ c.section = section /\ c.lead = lead(k) /\ c.text = pieces[k].text
        /\ c = [kind |-> c.kind, section |-> section, lead |-> lead(k), text |-> pieces[k].text]
    BY DEF Chunk
  <2> HIDE DEF c
  <2>2. c \in ChunksOf(X, Z)
    BY <1>3, <1>6, <1>7, <2>1 DEF ChunksOf
  <2>3. OwnText(c) = pieces[k].text
    BY <2>1 DEF OwnText
  <2>4. ASSUME NEW ch \in ToSet(Letters(c.lead \o c.text))
        PROVE  \E b \in ToSet(blocks) : ch \in ToSet(b.text) /\ b.section = c.section
    <3>1. c.lead \in Seq(X) /\ c.text \in Seq(X) /\ c.lead \o c.text \in Seq(X)
      BY <1>3, <1>7, <2>1, ConcatProperties
    <3>2. ch \notin Blanks /\ ch \in ToSet(c.lead) \cup ToSet(c.text)
      <4>1. ToSet(Letters(c.lead \o c.text)) = ToSet(c.lead \o c.text) \ Blanks
        BY <3>1, LettersOf
      <4>2. ToSet(c.lead \o c.text) = ToSet(c.lead) \cup ToSet(c.text)
        BY <3>1, SetOfConcat
      <4> QED
        BY <2>4, <4>1, <4>2
    <3>3. ToSet(<<>>) = {}
      BY DEF ToSet
    <3>4. PICK j \in 1..n : ch \in ToSet(pieces[j].text)
      BY <1>7, <2>1, <3>2, <3>3
    <3>5. PICK b \in ToSet(blocks) : ch \in ToSet(b.text)
      BY <1>5, <3>2, <3>4
    <3>6. b.section = section
      BY DEF OneSection, section
    <3> QED
      BY <2>1, <3>5, <3>6
  <2>5. Filed(c, ToSet(blocks))
    BY <1>3, <2>1, <2>4 DEF Filed
  <2> QED
    BY <2>2, <2>3, <2>5 DEF c
<1> HIDE DEF chunk
<1>9. chunks \in Seq(ChunksOf(X, Z)) /\ Len(chunks) = n /\ \A k \in 1..n : chunks[k] = chunk(k)
  <2>1. chunks \in [1..n -> ChunksOf(X, Z)]
    BY <1>4, <1>8
  <2> HIDE DEF chunks
  <2> QED
    BY <1>3, <1>4, <2>1
<1> HIDE DEF chunks
<1>10. OwnTexts(chunks) = TextsOf(pieces)
  <2>1. OwnTexts(chunks) = [k \in 1..n |-> OwnText(chunks[k])] /\ TextsOf(pieces) = [k \in 1..n |-> pieces[k].text]
    BY <1>9 DEF OwnTexts, TextsOf, n
  <2> QED
    BY <1>8, <1>9, <2>1
<1>11. \A c \in ToSet(chunks) : Filed(c, ToSet(blocks))
  BY <1>8, <1>9 DEF ToSet
<1> QED
  BY <1>2, <1>9, <1>10, <1>11 DEF chunks

LEMMA NoLetters ==
    \A texts \in Seq({<<>>}) : LettersIn(texts) = <<>>
<1> DEFINE Good == {texts \in Seq({<<>>}) : LettersIn(texts) = <<>>}
           X == {0}
<1>1. <<>> \in Good
  BY LettersInNone, EmptySeq
<1>2. ASSUME NEW texts \in Seq({<<>>}), texts \in Good, NEW t \in {<<>>}
      PROVE  Append(texts, t) \in Good
  <2>1. texts \in Seq(Seq(X)) /\ t \in Seq(X) /\ t = <<>>
    <3>1. {<<>>} \subseteq Seq(X)
      BY EmptySeq
    <3> QED
      BY <3>1, SeqMonotonic
  <2>2. LettersIn(Append(texts, t)) = LettersIn(texts) \o Letters(t)
    BY <2>1, LettersInAppend
  <2>3. LettersIn(Append(texts, t)) = <<>>
    <3>1. LettersIn(texts) = <<>> /\ Letters(t) = <<>>
      BY <1>2, <2>1, LettersNone
    <3>2. <<>> \o <<>> = <<>>
      BY EmptySeq, ConcatEmptySeq
    <3> QED
      BY <2>2, <3>1, <3>2
  <2> QED
    BY <2>3, AppendProperties
<1> HIDE DEF Good
<1>3. \A texts \in Seq({<<>>}) : texts \in Good
  BY <1>1, <1>2, OneMore
<1> QED
  BY <1>3 DEF Good

\* The chunks of a table: itself behind its caption, and its rows.
LEMMA TableKeeps ==
    ASSUME NEW X, NEW Z, NEW b \in BlocksOf(X, Z), NEW caption \in Seq(X)
    PROVE  LET chunks == TableChunks(b, caption)
           IN  /\ chunks \in Seq(ChunksOf(X, Z))
               /\ LettersIn(OwnTexts(chunks)) = Letters(caption) \o Letters(b.text)
               /\ \A c \in ToSet(chunks) :
                    \/ c.kind = "table_row"
                    \/ c.kind = "table" /\ c.section = b.section /\ c.lead = caption /\ c.text = b.text
               /\ \E c \in ToSet(chunks) : c.kind = "table" /\ c.text = b.text
<1> DEFINE C == ChunksOf(X, Z)
           table == Chunk("table", b.section, caption, b.text)
           row(k) == Chunk("table_row", b.section, <<>>, <<b.keys[k]>>)
           rows == IF IsLookup(b) THEN [k \in 1..Len(b.keys) |-> row(k)] ELSE <<>>
           chunks == TableChunks(b, caption)
<1>1. b.text \in Seq(X) /\ b.keys \in Seq(X) /\ b.section \in Z
  BY DEF BlocksOf
<1>2. /\ table \in C /\ OwnText(table) = caption \o b.text
      /\ table.kind = "table" /\ table.section = b.section /\ table.lead = caption /\ table.text = b.text
  BY <1>1 DEF Chunk, ChunksOf, OwnText
<1>3. chunks = <<table>> \o rows
  BY Zenon DEF TableChunks
<1>4. ASSUME NEW k \in 1..Len(b.keys)
      PROVE  row(k) \in C /\ row(k).kind = "table_row" /\ OwnText(row(k)) = <<>>
  <2>1. b.keys[k] \in X
    BY <1>1, MembersOf
  <2>2. <<b.keys[k]>> \in Seq(X) /\ <<>> \in Seq(X)
    BY <2>1, EmptySeq
  <2> QED
    BY <1>1, <2>2 DEF Chunk, ChunksOf, OwnText
<1> HIDE DEF table, row
<1>5. /\ rows \in Seq(C)
      /\ \A k \in 1..Len(rows) : rows[k].kind = "table_row" /\ OwnText(rows[k]) = <<>>
  <2>1. CASE IsLookup(b)
    <3>1. Len(b.keys) \in Nat
      BY <1>1
    <3>2. rows \in [1..Len(b.keys) -> C] /\ \A k \in 1..Len(b.keys) : rows[k] = row(k)
      BY <1>4, <2>1
    <3> HIDE DEF rows
    <3>3. rows \in Seq(C) /\ Len(rows) = Len(b.keys)
      BY <3>1, <3>2
    <3> QED
      BY <1>4, <3>2, <3>3
  <2>2. CASE ~IsLookup(b)
    <3>1. rows = <<>> /\ Len(<<>>) = 0 /\ <<>> \in Seq(C)
      BY <2>2, EmptySeq
    <3> HIDE DEF rows
    <3> QED
      BY <3>1
  <2> QED
    BY <2>1, <2>2
<1> HIDE DEF rows, C, chunks
<1>6. LettersIn(OwnTexts(rows)) = <<>>
  <2>1. Len(rows) \in Nat /\ OwnTexts(rows) \in [1..Len(rows) -> {<<>>}]
    BY <1>5 DEF OwnTexts
  <2>2. OwnTexts(rows) \in Seq({<<>>})
    BY <2>1
  <2> QED
    BY <2>2, NoLetters
<1>7. LettersIn(OwnTexts(<<table>>)) = Letters(caption \o b.text)
  <2> DEFINE own == caption \o b.text
  <2>1. own \in Seq(X)
    BY <1>1, ConcatProperties
  <2>2. OwnTexts(<<table>>) = <<OwnText(table)>>
    BY DEF OwnTexts
  <2>3. OwnText(table) = own
    BY <1>2
  <2> HIDE DEF own
  <2>4. /\ <<>> \in Seq(Seq(X)) /\ <<own>> = Append(<<>>, own) /\ Letters(own) \in Seq(X)
    <3>1. <<own>> = Append(<<>>, own)
      BY <2>1
    <3>2. Letters(own) \in Seq(X)
      BY <2>1, LettersOf
    <3>3. <<>> \in Seq(Seq(X))
      BY EmptySeq
    <3> QED
      BY <3>1, <3>2, <3>3
  <2>5. LettersIn(Append(<<>>, own)) = LettersIn(<<>>) \o Letters(own)
    BY <2>1, <2>4, LettersInAppend
  <2>6. LettersIn(<<own>>) = Letters(own)
    BY <2>4, <2>5, LettersInNone, ConcatEmptySeq
  <2> QED
    BY <2>2, <2>3, <2>6 DEF own
<1>8. <<table>> \in Seq(C) /\ ToSet(<<table>>) = {table}
  BY <1>2 DEF ToSet
<1> DEFINE one == <<table>>
<1> HIDE DEF one
<1>9. /\ chunks = one \o rows /\ one \in Seq(C) /\ ToSet(one) = {table}
      /\ LettersIn(OwnTexts(one)) = Letters(caption \o b.text)
  BY <1>3, <1>7, <1>8 DEF one
<1>10. chunks \in Seq(C) /\ ToSet(chunks) = {table} \cup ToSet(rows)
  <2>1. one \o rows \in Seq(C)
    BY <1>5, <1>9, ConcatProperties
  <2>2. ToSet(one \o rows) = ToSet(one) \cup ToSet(rows)
    BY <1>5, <1>9, SetOfConcat
  <2> QED
    BY <1>9, <2>1, <2>2
<1>11. LettersIn(OwnTexts(chunks)) = Letters(caption) \o Letters(b.text)
  <2>1. LettersIn(OwnTexts(chunks)) = LettersIn(OwnTexts(one)) \o LettersIn(OwnTexts(rows))
    BY <1>5, <1>9, OwnTextsConcat DEF C
  <2>2. Letters(caption \o b.text) = Letters(caption) \o Letters(b.text)
    BY <1>1, LettersConcat
  <2>3. caption \o b.text \in Seq(X) /\ Letters(caption \o b.text) \in Seq(X)
    BY <1>1, ConcatProperties, LettersOf
  <2> QED
    BY <1>6, <1>9, <2>1, <2>2, <2>3, ConcatEmptySeq
<1>12. \A c \in ToSet(rows) : c.kind = "table_row"
  BY <1>5, MembersOf
<1> QED
  BY <1>2, <1>10, <1>11, <1>12 DEF chunks, C

\* What of the blocks read so far is in chunks, and what is pending.
Tracks(acc, read, X, Z) ==
    /\ acc \in [chunks : Seq(ChunksOf(X, Z)), pending : Seq(BlocksOf(X, Z))]
    /\ ToSet(acc.pending) \subseteq ToSet(read) /\ OneSection(acc.pending)
    /\ LettersIn(OwnTexts(acc.chunks)) \o LettersIn(TextsOf(acc.pending)) = LettersIn(TextsOf(read))
    /\ \A c \in ToSet(acc.chunks) : Filed(c, ToSet(read))
    /\ \A b \in ToSet(read) : b.kind = "table" => \E c \in ToSet(acc.chunks) : c.kind = "table" /\ c.text = b.text

LEMMA FiledInMore ==
    ASSUME NEW c, NEW R, NEW S, R \subseteq S, Filed(c, R)
    PROVE  Filed(c, S)
BY DEF Filed

\* What was pending is in chunks.
LEMMA FlushedKeeps ==
    ASSUME NEW X, Break \in X, Space \in X, NEW Z, NEW acc,
           acc \in [chunks : Seq(ChunksOf(X, Z)), pending : Seq(BlocksOf(X, Z))],
           OneSection(acc.pending)
    PROVE  LET next == Flushed(acc)
           IN  /\ next \in [chunks : Seq(ChunksOf(X, Z)), pending : Seq(BlocksOf(X, Z))]
               /\ next.pending = <<>>
               /\ LettersIn(OwnTexts(next.chunks)) = LettersIn(OwnTexts(acc.chunks)) \o LettersIn(TextsOf(acc.pending))
               /\ ToSet(acc.chunks) \subseteq ToSet(next.chunks)
               /\ \A c \in ToSet(next.chunks) : c \in ToSet(acc.chunks) \/ Filed(c, ToSet(acc.pending))
<1> DEFINE C == ChunksOf(X, Z)
           B == BlocksOf(X, Z)
           chunks == acc.chunks
           pending == acc.pending
           next == Flushed(acc)
           prose == ProseChunks(pending)
<1>1. chunks \in Seq(C) /\ pending \in Seq(B) /\ acc = [chunks |-> chunks, pending |-> pending]
  OBVIOUS
<1>2. next = IF pending = <<>> THEN acc ELSE [chunks |-> chunks \o prose, pending |-> <<>>]
  BY Zenon DEF Flushed
<1>3. LettersIn(OwnTexts(chunks)) \in Seq(X)
  <2>1. OwnTexts(chunks) \in Seq(Seq(X))
    BY <1>1, OwnTextsAre
  <2> QED
    BY <2>1, LettersInAppend, EmptySeq
<1>4. <<>> \in Seq(B)
  BY EmptySeq
<1>5. pending # <<>> => /\ prose \in Seq(C)
                        /\ LettersIn(OwnTexts(prose)) = LettersIn(TextsOf(pending))
                        /\ \A c \in ToSet(prose) : Filed(c, ToSet(pending))
  BY <1>1, ProseKeeps
<1> HIDE DEF C, B, chunks, pending, next, prose
<1>6. CASE pending = <<>>
  <2>1. next.chunks = chunks /\ next.pending = <<>> /\ next = acc
    BY <1>1, <1>2, <1>6
  <2>2. LettersIn(OwnTexts(chunks)) = LettersIn(OwnTexts(chunks)) \o LettersIn(TextsOf(pending))
    BY <1>3, <1>6, LettersInNone, TextsNone, ConcatEmptySeq
  <2> QED
    BY <2>1, <2>2 DEF chunks, pending, next
<1>7. CASE pending # <<>>
  <2>1. next.chunks = chunks \o prose /\ next.pending = <<>> /\ next = [chunks |-> chunks \o prose, pending |-> <<>>]
    BY <1>2, <1>7
  <2>2. chunks \o prose \in Seq(C) /\ ToSet(chunks \o prose) = ToSet(chunks) \cup ToSet(prose)
    BY <1>1, <1>5, <1>7, SetOfConcat, ConcatProperties
  <2>3. LettersIn(OwnTexts(chunks \o prose)) = LettersIn(OwnTexts(chunks)) \o LettersIn(OwnTexts(prose))
    BY <1>1, <1>5, <1>7, OwnTextsConcat DEF C
  <2>4. next \in [chunks : Seq(C), pending : Seq(B)]
    BY <1>4, <2>1, <2>2
  <2>5. \A c \in ToSet(next.chunks) : c \in ToSet(chunks) \/ Filed(c, ToSet(pending))
    BY <1>5, <1>7, <2>1, <2>2
  <2>6. LettersIn(OwnTexts(next.chunks)) = LettersIn(OwnTexts(chunks)) \o LettersIn(TextsOf(pending))
    BY <1>5, <1>7, <2>1, <2>3
  <2>7. ToSet(chunks) \subseteq ToSet(next.chunks) /\ next.pending = <<>>
    BY <2>1, <2>2
  <2> QED
    BY <2>4, <2>5, <2>6, <2>7 DEF chunks, pending, next, C, B
<1> QED
  BY <1>6, <1>7

LEMMA FlushTracks ==
    ASSUME NEW X, Break \in X, Space \in X, NEW Z, NEW acc, NEW read, Tracks(acc, read, X, Z)
    PROVE  Tracks(Flushed(acc), read, X, Z)
<1> DEFINE next == Flushed(acc)
<1>1. /\ acc \in [chunks : Seq(ChunksOf(X, Z)), pending : Seq(BlocksOf(X, Z))]
      /\ ToSet(acc.pending) \subseteq ToSet(read) /\ OneSection(acc.pending)
      /\ LettersIn(OwnTexts(acc.chunks)) \o LettersIn(TextsOf(acc.pending)) = LettersIn(TextsOf(read))
      /\ \A c \in ToSet(acc.chunks) : Filed(c, ToSet(read))
      /\ \A b \in ToSet(read) : b.kind = "table" => \E c \in ToSet(acc.chunks) : c.kind = "table" /\ c.text = b.text
  BY DEF Tracks
<1>2. /\ next \in [chunks : Seq(ChunksOf(X, Z)), pending : Seq(BlocksOf(X, Z))]
      /\ next.pending = <<>>
      /\ LettersIn(OwnTexts(next.chunks)) = LettersIn(TextsOf(read))
      /\ ToSet(acc.chunks) \subseteq ToSet(next.chunks)
      /\ \A c \in ToSet(next.chunks) : c \in ToSet(acc.chunks) \/ Filed(c, ToSet(acc.pending))
  BY <1>1, FlushedKeeps
<1> HIDE DEF next
<1>3. LettersIn(OwnTexts(next.chunks)) \o LettersIn(TextsOf(next.pending)) = LettersIn(TextsOf(read))
  <2>1. OwnTexts(next.chunks) \in Seq(Seq(X))
    BY <1>2, OwnTextsAre
  <2>2. LettersIn(OwnTexts(next.chunks)) \in Seq(X)
    BY <2>1, LettersInAppend, EmptySeq
  <2> QED
    BY <1>2, <2>2, TextsNone, LettersInNone, ConcatEmptySeq
<1>4. ToSet(next.pending) = {} /\ OneSection(next.pending)
  <2>1. ToSet(<<>>) = {}
    BY DEF ToSet
  <2> QED
    BY <1>2, <2>1 DEF OneSection
<1>5. \A c \in ToSet(next.chunks) : Filed(c, ToSet(read))
  BY <1>1, <1>2, FiledInMore
<1>6. \A b \in ToSet(read) : b.kind = "table" => \E c \in ToSet(next.chunks) : c.kind = "table" /\ c.text = b.text
  BY <1>1, <1>2
<1> QED
  BY <1>2, <1>3, <1>4, <1>5, <1>6 DEF Tracks, next

LEMMA BlockPends ==
    ASSUME NEW X, NEW Z, NEW acc, NEW read \in Seq(BlocksOf(X, Z)), Tracks(acc, read, X, Z),
           NEW b \in BlocksOf(X, Z), b.kind # "table", acc.pending = <<>> \/ acc.pending[1].section = b.section
    PROVE  Tracks([acc EXCEPT !.pending = Append(@, b)], Append(read, b), X, Z)
<1> DEFINE B == BlocksOf(X, Z)
           chunks == acc.chunks
           pending == acc.pending
           more == Append(pending, b)
           all == Append(read, b)
           next == [acc EXCEPT !.pending = Append(@, b)]
<1>1. /\ chunks \in Seq(ChunksOf(X, Z)) /\ pending \in Seq(B)
      /\ ToSet(pending) \subseteq ToSet(read) /\ OneSection(pending)
      /\ LettersIn(OwnTexts(chunks)) \o LettersIn(TextsOf(pending)) = LettersIn(TextsOf(read))
      /\ \A c \in ToSet(chunks) : Filed(c, ToSet(read))
      /\ \A a \in ToSet(read) : a.kind = "table" => \E c \in ToSet(chunks) : c.kind = "table" /\ c.text = a.text
      /\ acc \in [chunks : Seq(ChunksOf(X, Z)), pending : Seq(B)]
  BY DEF Tracks
<1>2. next.chunks = chunks /\ next.pending = more /\ next \in [chunks : {chunks}, pending : {more}]
  BY <1>1
<1> HIDE DEF chunks, pending, B
<1>3. /\ more \in Seq(B) /\ Len(more) = Len(pending) + 1 /\ more[Len(pending) + 1] = b /\ Len(pending) \in Nat
      /\ \A k \in 1..Len(pending) : more[k] = pending[k]
  BY <1>1, AppendProperties DEF B
<1>4. /\ all \in Seq(B) /\ Len(all) = Len(read) + 1 /\ all[Len(read) + 1] = b /\ Len(read) \in Nat
      /\ \A k \in 1..Len(read) : all[k] = read[k]
  BY AppendProperties DEF B
<1> HIDE DEF more, all, next
<1>5. ToSet(more) = ToSet(pending) \cup {b} /\ ToSet(all) = ToSet(read) \cup {b}
  <2>1. ToSet(<<b>>) = {b} /\ <<b>> \in Seq(B)
    BY DEF ToSet, B
  <2>2. more = pending \o <<b>> /\ all = read \o <<b>>
    BY <1>1, AppendIsConcat DEF more, all, B
  <2> DEFINE one == <<b>>
  <2>3. one \in Seq(B) /\ ToSet(one) = {b} /\ more = pending \o one /\ all = read \o one /\ read \in Seq(B)
    BY <2>1, <2>2 DEF B
  <2> HIDE DEF one
  <2>4. ToSet(pending \o one) = ToSet(pending) \cup ToSet(one)
    BY <1>1, <2>3, SetOfConcat
  <2>5. ToSet(read \o one) = ToSet(read) \cup ToSet(one)
    BY <2>3, SetOfConcat
  <2> QED
    BY <2>3, <2>4, <2>5
<1>6. OneSection(more)
  <2>1. CASE pending = <<>>
    <3>1. more[1] = b /\ ToSet(pending) = {}
      BY <1>3, <2>1, EmptySeq DEF ToSet
    <3> QED
      BY <1>5, <3>1 DEF OneSection
  <2>2. CASE pending # <<>>
    <3>1. 1 \in 1..Len(pending)
      BY <1>1, <2>2, EmptySeq
    <3>2. more[1] = pending[1] /\ pending[1].section = b.section
      BY <1>3, <2>2, <3>1 DEF pending
    <3> QED
      BY <1>1, <1>5, <3>2 DEF OneSection
  <2> QED
    BY <2>1, <2>2
<1>7. LettersIn(OwnTexts(chunks)) \o LettersIn(TextsOf(more)) = LettersIn(TextsOf(all))
  <2> DEFINE p == LettersIn(OwnTexts(chunks))
             q == LettersIn(TextsOf(pending))
             r == Letters(b.text)
  <2>1. TextsOf(more) = Append(TextsOf(pending), b.text) /\ TextsOf(all) = Append(TextsOf(read), b.text)
    BY <1>1, BlocksTexted, TextsAppend DEF more, all, B
  <2>2. TextsOf(pending) \in Seq(Seq(X)) /\ TextsOf(read) \in Seq(Seq(X)) /\ b.text \in Seq(X)
        /\ OwnTexts(chunks) \in Seq(Seq(X))
    BY <1>1, BlocksTexted, TextsAre, OwnTextsAre DEF B, Texted
  <2>3. LettersIn(TextsOf(more)) = q \o r /\ LettersIn(TextsOf(all)) = LettersIn(TextsOf(read)) \o r
    BY <2>1, <2>2, LettersInAppend
  <2>4. p \in Seq(X) /\ q \in Seq(X) /\ r \in Seq(X)
    BY <2>2, LettersInAppend, LettersOf
  <2>5. p \o q = LettersIn(TextsOf(read))
    BY <1>1
  <2> HIDE DEF p, q, r
  <2>6. (p \o q) \o r = p \o (q \o r)
    BY <2>4, ConcatAssociative
  <2>7. p \o LettersIn(TextsOf(more)) = LettersIn(TextsOf(all))
    BY <2>3, <2>5, <2>6
  <2> QED
    BY <2>7 DEF p
<1>8. \A c \in ToSet(chunks) : Filed(c, ToSet(all))
  BY <1>1, <1>5, FiledInMore
<1>9. \A a \in ToSet(all) : a.kind = "table" => \E c \in ToSet(chunks) : c.kind = "table" /\ c.text = a.text
  BY <1>1, <1>5
<1>10. next \in [chunks : Seq(ChunksOf(X, Z)), pending : Seq(B)]
  BY <1>1, <1>2, <1>3
<1>11. Tracks(next, all, X, Z)
  BY <1>1, <1>2, <1>5, <1>6, <1>7, <1>8, <1>9, <1>10 DEF Tracks, B
<1> QED
  BY <1>11 DEF next, all

\* A table comes behind what is pending, but for its caption.
LEMMA CaptionTaken ==
    ASSUME NEW X, NEW Z, NEW pending \in Seq(BlocksOf(X, Z)), OneSection(pending), NEW b
    PROVE  LET captioned == IsCaption(pending, b)
               caption == IF captioned THEN Last(pending).text ELSE <<>>
               rest == IF captioned THEN Front(pending) ELSE pending
           IN  /\ rest \in Seq(BlocksOf(X, Z)) /\ OneSection(rest) /\ ToSet(rest) \subseteq ToSet(pending)
               /\ caption \in Seq(X) /\ LettersIn(TextsOf(pending)) = LettersIn(TextsOf(rest)) \o Letters(caption)
               /\ \A ch \in ToSet(caption) : \E a \in ToSet(pending) : ch \in ToSet(a.text) /\ a.section = b.section
<1> DEFINE B == BlocksOf(X, Z)
           n == Len(pending)
           rest == Front(pending)
           last == Last(pending)
<1>1. TextsOf(pending) \in Seq(Seq(X))
  BY BlocksTexted, TextsAre
<1>2. CASE IsCaption(pending, b)
  <2>1. pending # <<>> /\ last.section = b.section
    BY <1>2 DEF IsCaption
  <2>2. n \in Nat \ {0}
    BY <2>1, EmptySeq
  <2>3. last = pending[n] /\ rest = SubSeq(pending, 1, n - 1)
    BY DEF Last, Front
  <2>4. /\ rest \in Seq(B) /\ Len(rest) = n - 1 /\ \A k \in 1..n - 1 : rest[k] = pending[k]
    <3>1. n - 1 \in Int /\ \A i \in 1..n - 1 : pending[i] \in B
      BY <2>2, MembersOf
    <3>2. /\ SubSeq(pending, 1, n - 1) \in Seq(B)
          /\ Len(SubSeq(pending, 1, n - 1)) = IF 1 <= n - 1 THEN n - 1 - 1 + 1 ELSE 0
          /\ \A i \in 1..n - 1 - 1 + 1 : SubSeq(pending, 1, n - 1)[i] = pending[1 + i - 1]
      BY <3>1, SubSeqProperties
    <3> HIDE DEF B, n
    <3> QED
      BY <2>2, <2>3, <3>2
  <2>5. last \in B /\ last \in ToSet(pending) /\ n \in 1..n
    BY <2>2, <2>3, MembersOf
  <2>6. pending = Append(rest, last)
    <3>1. 1 \in 1..n
      BY <2>2
    <3>2. SubSeq(pending, 1, n) = SubSeq(pending, 1, n - 1) \o <<pending[n]>>
      BY <2>5, <3>1, SubSeqRecursiveSecond
    <3>3. SubSeq(pending, 1, n) = pending
      BY SubSeqFull
    <3> QED
      BY <2>3, <2>4, <2>5, <3>2, <3>3, AppendIsConcat
  <2> HIDE DEF B, rest, last
  <2>7. ToSet(rest) \subseteq ToSet(pending)
    <3>1. ASSUME NEW x \in ToSet(rest)
          PROVE  x \in ToSet(pending)
      <4>1. PICK k \in 1..Len(rest) : rest[k] = x
        BY <2>4, MembersOf
      <4>2. k \in 1..n /\ pending[k] = x
        BY <2>2, <2>4, <4>1
      <4> QED
        BY <4>2, MembersOf
    <3> QED
      BY <3>1
  <2>8. OneSection(rest)
    <3>1. rest # <<>> => rest[1] = pending[1]
      <4>1. rest # <<>> => 1 \in 1..Len(rest)
        BY <2>4, EmptySeq
      <4> QED
        BY <2>2, <2>4, <4>1
    <3>2. rest = <<>> => ToSet(rest) = {}
      BY DEF ToSet
    <3> QED
      BY <2>7, <3>1, <3>2 DEF OneSection
  <2>9. last.text \in Seq(X)
    BY <2>5 DEF B, BlocksOf
  <2>10. LettersIn(TextsOf(pending)) = LettersIn(TextsOf(rest)) \o Letters(last.text)
    <3>1. TextsOf(pending) = Append(TextsOf(rest), last.text)
      BY <2>4, <2>5, <2>6, BlocksTexted, TextsAppend DEF B
    <3>2. TextsOf(rest) \in Seq(Seq(X))
      BY <2>4, BlocksTexted, TextsAre DEF B
    <3> QED
      BY <2>9, <3>1, <3>2, LettersInAppend
  <2>11. \A ch \in ToSet(last.text) : \E a \in ToSet(pending) : ch \in ToSet(a.text) /\ a.section = b.section
    BY <2>1, <2>5
  <2> QED
    BY <1>2, <2>4, <2>7, <2>8, <2>9, <2>10, <2>11 DEF rest, last, B
<1>3. CASE ~IsCaption(pending, b)
  <2>1. LettersIn(TextsOf(pending)) = LettersIn(TextsOf(pending)) \o Letters(<<>>)
    <3>1. LettersIn(TextsOf(pending)) \in Seq(X)
      BY <1>1, LettersInAppend, EmptySeq
    <3> QED
      BY <3>1, LettersNone, ConcatEmptySeq
  <2>2. ToSet(<<>>) = {} /\ <<>> \in Seq(X)
    BY EmptySeq DEF ToSet
  <2> QED
    BY <1>3, <2>1, <2>2
<1> QED
  BY <1>2, <1>3


LEMMA SetOfAppend ==
    ASSUME NEW X, NEW s \in Seq(X), NEW e \in X
    PROVE  ToSet(Append(s, e)) = ToSet(s) \cup {e}
<1> DEFINE one == <<e>>
<1>1. one \in Seq(X) /\ ToSet(one) = {e} /\ Append(s, e) = s \o one
  BY AppendIsConcat DEF ToSet
<1> HIDE DEF one
<1>2. ToSet(s \o one) = ToSet(s) \cup ToSet(one)
  BY <1>1, SetOfConcat
<1> QED
  BY <1>1, <1>2

LEMMA TableTracks ==
    ASSUME NEW X, Break \in X, Space \in X, NEW Z, NEW acc, NEW read \in Seq(BlocksOf(X, Z)),
           Tracks(acc, read, X, Z), NEW b \in BlocksOf(X, Z)
    PROVE  Tracks(WithTable(acc, b), Append(read, b), X, Z)
<1> DEFINE B == BlocksOf(X, Z)
           C == ChunksOf(X, Z)
           chunks == acc.chunks
           pending == acc.pending
           all == Append(read, b)
           captioned == IsCaption(pending, b)
           caption == IF captioned THEN Last(pending).text ELSE <<>>
           rest == IF captioned THEN Front(pending) ELSE pending
           left == [acc EXCEPT !.pending = rest]
           mid == Flushed(left)
           own == TableChunks(b, caption)
           next == WithTable(acc, b)
<1>1. /\ acc \in [chunks : Seq(C), pending : Seq(B)]
      /\ chunks \in Seq(C) /\ pending \in Seq(B)
      /\ ToSet(pending) \subseteq ToSet(read) /\ OneSection(pending)
      /\ LettersIn(OwnTexts(chunks)) \o LettersIn(TextsOf(pending)) = LettersIn(TextsOf(read))
      /\ \A c \in ToSet(chunks) : Filed(c, ToSet(read))
      /\ \A a \in ToSet(read) : a.kind = "table" => \E c \in ToSet(chunks) : c.kind = "table" /\ c.text = a.text
  BY DEF Tracks
<1>2. /\ rest \in Seq(B) /\ OneSection(rest) /\ ToSet(rest) \subseteq ToSet(pending)
      /\ caption \in Seq(X) /\ LettersIn(TextsOf(pending)) = LettersIn(TextsOf(rest)) \o Letters(caption)
      /\ \A ch \in ToSet(caption) : \E a \in ToSet(pending) : ch \in ToSet(a.text) /\ a.section = b.section
  <2> HIDE DEF pending
  <2> QED
    BY <1>1, CaptionTaken
<1>3. next = [mid EXCEPT !.chunks = @ \o own]
  BY Zenon DEF WithTable
<1> HIDE DEF caption, rest, captioned
<1>4. left \in [chunks : Seq(C), pending : Seq(B)] /\ left.chunks = chunks /\ left.pending = rest
  BY <1>1, <1>2
<1> HIDE DEF left
<1>5. /\ mid \in [chunks : Seq(C), pending : Seq(B)]
      /\ mid.pending = <<>>
      /\ LettersIn(OwnTexts(mid.chunks)) = LettersIn(OwnTexts(chunks)) \o LettersIn(TextsOf(rest))
      /\ ToSet(chunks) \subseteq ToSet(mid.chunks)
      /\ \A c \in ToSet(mid.chunks) : c \in ToSet(chunks) \/ Filed(c, ToSet(rest))
  BY <1>2, <1>4, FlushedKeeps
<1>6. /\ own \in Seq(C)
      /\ LettersIn(OwnTexts(own)) = Letters(caption) \o Letters(b.text)
      /\ \A c \in ToSet(own) : \/ c.kind = "table_row"
                               \/ c.kind = "table" /\ c.section = b.section /\ c.lead = caption /\ c.text = b.text
      /\ \E c \in ToSet(own) : c.kind = "table" /\ c.text = b.text
  BY <1>2, TableKeeps
<1> DEFINE put == mid.chunks
           more == put \o own
<1> HIDE DEF own, mid, C, B, chunks, pending
<1>7. next.chunks = more /\ next.pending = <<>> /\ next \in [chunks : {more}, pending : {<<>>}]
  BY <1>3, <1>5
<1>8. put \in Seq(C)
  BY <1>5
<1> HIDE DEF put, next
<1>9. more \in Seq(C) /\ ToSet(more) = ToSet(put) \cup ToSet(own)
  BY <1>6, <1>8, SetOfConcat, ConcatProperties
<1>10. LettersIn(OwnTexts(more)) = LettersIn(OwnTexts(put)) \o LettersIn(OwnTexts(own))
  <2>1. put \in Seq(ChunksOf(X, Z)) /\ own \in Seq(ChunksOf(X, Z))
    BY <1>6, <1>8 DEF C
  <2> QED
    BY <2>1, OwnTextsConcat
<1> HIDE DEF more
<1>11. ToSet(all) = ToSet(read) \cup {b}
  BY SetOfAppend
<1>12. /\ b.text \in Seq(X)
       /\ LettersIn(TextsOf(all)) = LettersIn(TextsOf(read)) \o Letters(b.text)
  <2>1. TextsOf(all) = Append(TextsOf(read), b.text)
    BY BlocksTexted, TextsAppend
  <2>2. TextsOf(read) \in Seq(Seq(X)) /\ b.text \in Seq(X)
    BY BlocksTexted, TextsAre DEF BlocksOf
  <2> QED
    BY <2>1, <2>2, LettersInAppend
<1> HIDE DEF all
<1>13. LettersIn(OwnTexts(more)) \o LettersIn(TextsOf(<<>>)) = LettersIn(TextsOf(all))
  <2> DEFINE p == LettersIn(OwnTexts(chunks))
             q == LettersIn(TextsOf(rest))
             r == Letters(caption)
             s == Letters(b.text)
  <2>1. p \in Seq(X)
    <3>1. OwnTexts(chunks) \in Seq(Seq(X))
      BY <1>1, OwnTextsAre DEF C
    <3> QED
      BY <1>12, <3>1, LettersInAppend
  <2>2. q \in Seq(X)
    <3>1. TextsOf(rest) \in Seq(Seq(X))
      BY <1>2, BlocksTexted, TextsAre DEF B
    <3> QED
      BY <1>12, <3>1, LettersInAppend
  <2>3. r \in Seq(X) /\ s \in Seq(X)
    BY <1>2, <1>12, LettersOf
  <2>4. LettersIn(OwnTexts(put)) = p \o q /\ LettersIn(OwnTexts(own)) = r \o s
    BY <1>5, <1>6 DEF put
  <2>5. LettersIn(TextsOf(pending)) = q \o r
    BY <1>2
  <2>6. LettersIn(TextsOf(read)) = p \o (q \o r)
    BY <1>1, <2>5
  <2>7. LettersIn(TextsOf(<<>>)) = <<>>
    BY LettersInNone, TextsNone
  <2> HIDE DEF p, q, r, s
  <2>8. (p \o q) \o (r \o s) = (p \o (q \o r)) \o s
    <3> DEFINE pq == p \o q
    <3>1. pq \in Seq(X)
      BY <2>1, <2>2, ConcatProperties
    <3>2. pq \o r = p \o (q \o r)
      BY <2>1, <2>2, <2>3, ConcatAssociative
    <3> HIDE DEF pq
    <3>3. pq \o (r \o s) = (pq \o r) \o s
      BY <2>3, <3>1, ConcatAssociative
    <3> QED
      BY <3>2, <3>3 DEF pq
  <2>9. (p \o q) \o (r \o s) \in Seq(X)
    BY <2>1, <2>2, <2>3, ConcatProperties
  <2>10. LettersIn(OwnTexts(more)) = (p \o q) \o (r \o s)
    BY <1>10, <2>4
  <2>11. LettersIn(TextsOf(all)) = (p \o (q \o r)) \o s
    BY <1>12, <2>6 DEF s
  <2> QED
    BY <2>7, <2>8, <2>9, <2>10, <2>11, ConcatEmptySeq
<1>14. ASSUME NEW c \in ToSet(more)
       PROVE  Filed(c, ToSet(all))
  <2>1. CASE c \in ToSet(put)
    <3>1. Filed(c, ToSet(read)) \/ Filed(c, ToSet(rest))
      BY <1>1, <1>5, <2>1 DEF put
    <3>2. ToSet(read) \subseteq ToSet(all) /\ ToSet(rest) \subseteq ToSet(all)
      BY <1>1, <1>2, <1>11
    <3> QED
      BY <3>1, <3>2, FiledInMore
  <2>2. CASE c \in ToSet(own) /\ c.kind = "table_row"
    BY <2>2 DEF Filed
  <2>3. CASE c \in ToSet(own) /\ c.kind = "table" /\ c.section = b.section /\ c.lead = caption /\ c.text = b.text
    <3>1. ASSUME NEW ch \in ToSet(Letters(c.lead \o c.text))
          PROVE  \E a \in ToSet(all) : ch \in ToSet(a.text) /\ a.section = c.section
      <4>1. ToSet(Letters(caption \o b.text)) = ToSet(caption \o b.text) \ Blanks
        BY <1>2, <1>12, ConcatProperties, LettersOf
      <4>2. ToSet(caption \o b.text) = ToSet(caption) \cup ToSet(b.text)
        BY <1>2, <1>12, SetOfConcat
      <4>3. ch \in ToSet(caption) \/ ch \in ToSet(b.text)
        BY <2>3, <3>1, <4>1, <4>2
      <4>4. \A a \in ToSet(pending) : a \in ToSet(all)
        BY <1>1, <1>11
      <4>5. b \in ToSet(all)
        BY <1>11
      <4>6. CASE ch \in ToSet(caption)
        BY <1>2, <2>3, <4>4, <4>6
      <4>7. CASE ch \in ToSet(b.text)
        BY <2>3, <4>5, <4>7
      <4> QED
        BY <4>3, <4>6, <4>7
    <3> QED
      BY <2>3, <3>1 DEF Filed
  <2> QED
    BY <1>6, <1>9, <2>1, <2>2, <2>3
<1>15. \A a \in ToSet(all) : a.kind = "table" => \E c \in ToSet(more) : c.kind = "table" /\ c.text = a.text
  BY <1>1, <1>5, <1>6, <1>9, <1>11 DEF put
<1>16. ToSet(<<>>) = {} /\ OneSection(<<>>) /\ <<>> \in Seq(B)
  BY EmptySeq DEF ToSet, OneSection
<1>17. next \in [chunks : Seq(C), pending : Seq(B)]
  BY <1>7, <1>9, <1>16
<1>18. Tracks(next, all, X, Z)
  BY <1>7, <1>13, <1>14, <1>15, <1>16, <1>17 DEF Tracks, B, C
<1> QED
  BY <1>18 DEF next, all

LEMMA EnteredTracks ==
    ASSUME NEW X, Break \in X, Space \in X, NEW Z, NEW acc, NEW read \in Seq(BlocksOf(X, Z)),
           Tracks(acc, read, X, Z), NEW b \in BlocksOf(X, Z)
    PROVE  Tracks(Entered(acc, b), Append(read, b), X, Z)
<1> DEFINE closes == acc.pending # <<>> /\ acc.pending[1].section # b.section
           mid == IF closes THEN Flushed(acc) ELSE acc
<1>1. Tracks(mid, read, X, Z)
  BY FlushTracks
<1>2. mid.pending = <<>> \/ mid.pending[1].section = b.section
  <2>1. Flushed(acc).pending = <<>>
    BY FlushedKeeps DEF Tracks
  <2> QED
    BY <2>1
<1>3. Entered(acc, b) = WithBlock(mid, b)
  BY Zenon DEF Entered
<1> HIDE DEF mid
<1>4. CASE b.kind = "table"
  <2>1. WithBlock(mid, b) = WithTable(mid, b)
    BY <1>4, Zenon DEF WithBlock
  <2> QED
    BY <1>1, <1>3, <2>1, TableTracks
<1>5. CASE b.kind # "table"
  <2>1. WithBlock(mid, b) = [mid EXCEPT !.pending = Append(@, b)]
    BY <1>5, Zenon DEF WithBlock
  <2> QED
    BY <1>1, <1>2, <1>3, <1>5, <2>1, BlockPends
<1> QED
  BY <1>4, <1>5

\* The states chunking a list of blocks is in.
Tracking(X, Z) == {acc \in [chunks : Seq(ChunksOf(X, Z)), pending : Seq(BlocksOf(X, Z))] :
                      \E read \in Seq(BlocksOf(X, Z)) : Tracks(acc, read, X, Z)}

LEMMA TracksNothing ==
    ASSUME NEW X, NEW Z
    PROVE  Tracks([chunks |-> <<>>, pending |-> <<>>], <<>>, X, Z)
<1> DEFINE acc == [chunks |-> <<>>, pending |-> <<>>]
<1>1. acc.chunks = <<>> /\ acc.pending = <<>> /\ acc \in [chunks : Seq(ChunksOf(X, Z)), pending : Seq(BlocksOf(X, Z))]
  BY EmptySeq
<1>2. ToSet(<<>>) = {} /\ OneSection(<<>>)
  BY DEF ToSet, OneSection
<1>3. OwnTexts(<<>>) = <<>>
  BY DEF OwnTexts
<1>4. LettersIn(OwnTexts(<<>>)) \o LettersIn(TextsOf(<<>>)) = LettersIn(TextsOf(<<>>))
  <2>1. LettersIn(<<>>) = <<>> /\ TextsOf(<<>>) = <<>> /\ <<>> \o <<>> = <<>>
    BY LettersInNone, TextsNone, ConcatEmptySeq, EmptySeq
  <2> QED
    BY <1>3, <2>1
<1> HIDE DEF acc
<1>5. Tracks(acc, <<>>, X, Z)
  BY <1>1, <1>2, <1>4 DEF Tracks
<1> QED
  BY <1>5 DEF acc

LEMMA ChunkedStep ==
    ASSUME NEW X, Break \in X, Space \in X, NEW Z, NEW blocks \in Seq(BlocksOf(X, Z))
    PROVE  LET g == Chunked(blocks)
           IN  /\ g[0] = [chunks |-> <<>>, pending |-> <<>>]
               /\ \A k \in 1..Len(blocks) : g[k] = Entered(g[k - 1], blocks[k])
<1> DEFINE n == Len(blocks)
           Q == Tracking(X, Z)
           first == [chunks |-> <<>>, pending |-> <<>>]
           step == [p \in (1..n) \X Q |-> Entered(p[2], blocks[p[1]])]
           Rec(f) == f = [k \in 0..n |-> IF k = 0 THEN first ELSE Entered(f[k - 1], blocks[k])]
           g == Chunked(blocks)
<1>1. n \in Nat /\ \A k \in 1..n : blocks[k] \in BlocksOf(X, Z)
  BY ElementOfSeq
<1>2. first \in Q
  <2>1. Tracks(first, <<>>, X, Z) /\ <<>> \in Seq(BlocksOf(X, Z))
    BY TracksNothing, EmptySeq
  <2> HIDE DEF first
  <2> QED
    BY <2>1 DEF Tracking, Tracks
<1>3. ASSUME NEW acc \in Q, NEW b \in BlocksOf(X, Z)
      PROVE  Entered(acc, b) \in Q
  <2>1. PICK read \in Seq(BlocksOf(X, Z)) : Tracks(acc, read, X, Z)
    BY DEF Tracking
  <2>2. Tracks(Entered(acc, b), Append(read, b), X, Z)
    BY <2>1, EnteredTracks
  <2>3. Append(read, b) \in Seq(BlocksOf(X, Z))
    BY AppendProperties
  <2> QED
    BY <2>2, <2>3 DEF Tracking, Tracks
<1>4. step \in [(1..n) \X Q -> Q]
  BY <1>1, <1>3
<1> HIDE DEF first
<1>5. PICK h : StepsBy(h, n, Q, first, step)
  <2> HIDE DEF step, n, Q
  <2> QED
    BY <1>1, <1>2, <1>4, Stepwise
<1>6. \A k \in 0..n : h[k] = IF k = 0 THEN first ELSE Entered(h[k - 1], blocks[k])
  <2> TAKE k \in 0..n
  <2>1. CASE k = 0
    BY <1>5, <2>1 DEF StepsBy
  <2>2. CASE k # 0
    <3>1. k \in 1..n /\ k - 1 \in 0..n
      BY <1>1, <2>2
    <3>2. h[k - 1] \in Q /\ h[k] = step[<<k, h[k - 1]>>]
      BY <1>5, <3>1 DEF StepsBy
    <3> QED
      BY <2>2, <3>1, <3>2
  <2> QED
    BY <2>1, <2>2
<1>7. Rec(h)
  <2> DEFINE Now(k) == IF k = 0 THEN first ELSE Entered(h[k - 1], blocks[k])
  <2>1. h = [k \in 0..n |-> h[k]]
    BY <1>5 DEF StepsBy
  <2> HIDE DEF n
  <2>2. \A k \in 0..n : h[k] = Now(k)
    BY <1>6
  <2> HIDE DEF Now
  <2>3. h = [k \in 0..n |-> Now(k)]
    BY <2>1, <2>2
  <2> QED
    BY <2>3 DEF Now
<1>8. g = CHOOSE f : Rec(f)
  BY Zenon DEF Chunked, first
<1> HIDE DEF Rec
<1>9. Rec(g)
  BY <1>7, <1>8
<1> HIDE DEF g
<1>10. \A k \in 0..n : g[k] = IF k = 0 THEN first ELSE Entered(g[k - 1], blocks[k])
  <2> DEFINE Now(k) == IF k = 0 THEN first ELSE Entered(g[k - 1], blocks[k])
  <2>1. g = [k \in 0..n |-> Now(k)]
    BY <1>9 DEF Rec
  <2> HIDE DEF n, Now
  <2>2. \A k \in 0..n : g[k] = Now(k)
    BY <2>1
  <2> QED
    BY <2>2 DEF Now
<1> HIDE DEF n
<1>11. g[0] = first /\ \A k \in 1..n : g[k] = Entered(g[k - 1], blocks[k])
  <2>1. 0 \in 0..n /\ \A k \in 1..n : k \in 0..n /\ k # 0
    BY <1>1
  <2> QED
    BY <1>10, <2>1
<1> QED
  BY <1>11 DEF g, n, first

\* The chunks of a document's blocks have all their letters, each where its
\* section has it, and every table.
LEMMA ChunksKeep ==
    ASSUME NEW X, Break \in X, Space \in X, NEW Z, NEW blocks \in Seq(BlocksOf(X, Z))
    PROVE  LET chunks == ChunkBlocks(blocks)
           IN  /\ chunks \in Seq(ChunksOf(X, Z))
               /\ LettersIn(OwnTexts(chunks)) = LettersIn(TextsOf(blocks))
               /\ \A c \in ToSet(chunks) : Filed(c, ToSet(blocks))
               /\ \A b \in ToSet(blocks) : b.kind = "table" =>
                    \E c \in ToSet(chunks) : c.kind = "table" /\ c.text = b.text
<1> DEFINE n == Len(blocks)
           g == Chunked(blocks)
           read(k) == SubSeq(blocks, 1, k)
           S == {k \in 0..n : Tracks(g[k], read(k), X, Z)}
           all == g[n]
<1>1. n \in Nat /\ \A k \in 1..n : blocks[k] \in BlocksOf(X, Z)
  BY ElementOfSeq
<1>2. g[0] = [chunks |-> <<>>, pending |-> <<>>] /\ \A k \in 1..n : g[k] = Entered(g[k - 1], blocks[k])
  BY ChunkedStep
<1> HIDE DEF g
<1>3. 0 \in S
  <2>1. read(0) = <<>>
    BY SubSeqEmpty
  <2>2. Tracks(g[0], read(0), X, Z)
    BY <1>2, <2>1, TracksNothing
  <2> QED
    BY <1>1, <2>2
<1>4. ASSUME NEW k \in 0..n, k < n, k \in S
      PROVE  k + 1 \in S
  <2> DEFINE b == blocks[k + 1]
  <2>1. k + 1 \in 1..n /\ k + 1 \in 0..n /\ (k + 1) - 1 = k /\ 1 \in 1..n
    BY <1>1, <1>4
  <2>2. b \in BlocksOf(X, Z)
    BY <1>1, <2>1
  <2>3. read(k) \in Seq(BlocksOf(X, Z)) /\ read(k + 1) = Append(read(k), b)
    <3>1. read(k) \in Seq(BlocksOf(X, Z))
      BY <1>1, <1>4, SubSeqProperties
    <3>2. read(k + 1) = SubSeq(blocks, 1, (k + 1) - 1) \o <<b>>
      BY <2>1, SubSeqRecursiveSecond
    <3> QED
      BY <2>1, <2>2, <3>1, <3>2, AppendIsConcat
  <2>4. g[k + 1] = Entered(g[k], b)
    BY <1>2, <2>1
  <2>5. Tracks(g[k], read(k), X, Z)
    BY <1>4
  <2> HIDE DEF read, b, n, S
  <2>6. Tracks(g[k + 1], read(k + 1), X, Z)
    BY <2>2, <2>3, <2>4, <2>5, EnteredTracks
  <2> QED
    BY <2>1, <2>6 DEF S
<1>5. n \in S
  <2>1. n \in 0..n
    BY <1>1
  <2> HIDE DEF n, S
  <2>2. \A k \in 0..n : k \in S
    BY <1>1, <1>3, <1>4, OneByOne
  <2> QED
    BY <2>1, <2>2
<1>6. read(n) = blocks
  BY SubSeqFull
<1>7. Tracks(all, blocks, X, Z)
  BY <1>5, <1>6
<1>8. ChunkBlocks(blocks) = Flushed(all).chunks
  BY DEF ChunkBlocks, g
<1> HIDE DEF all
<1>9. Tracks(Flushed(all), blocks, X, Z)
  BY <1>7, FlushTracks
<1>10. /\ Flushed(all) \in [chunks : Seq(ChunksOf(X, Z)), pending : Seq(BlocksOf(X, Z))]
       /\ Flushed(all).pending = <<>>
  BY <1>7, FlushedKeeps DEF Tracks
<1> DEFINE chunks == ChunkBlocks(blocks)
<1>11. /\ chunks \in Seq(ChunksOf(X, Z))
       /\ LettersIn(OwnTexts(chunks)) \o LettersIn(TextsOf(<<>>)) = LettersIn(TextsOf(blocks))
       /\ \A c \in ToSet(chunks) : Filed(c, ToSet(blocks))
       /\ \A b \in ToSet(blocks) : b.kind = "table" => \E c \in ToSet(chunks) : c.kind = "table" /\ c.text = b.text
  BY <1>8, <1>9, <1>10 DEF Tracks
<1> HIDE DEF chunks
<1>12. LettersIn(OwnTexts(chunks)) \in Seq(X)
  <2>1. OwnTexts(chunks) \in Seq(Seq(X))
    BY <1>11, OwnTextsAre
  <2> QED
    BY <2>1, LettersInAppend, EmptySeq
<1>13. LettersIn(TextsOf(<<>>)) = <<>>
  BY LettersInNone, TextsNone
<1>14. LettersIn(OwnTexts(chunks)) = LettersIn(TextsOf(blocks))
  BY <1>11, <1>12, <1>13, ConcatEmptySeq
<1> QED
  BY <1>11, <1>14 DEF chunks

-----------------------------------------------------------------------------
(* A document and its blocks *)

Chars(doc) ==
    {Break, Space} \cup UNION {ToSet(e.text) \cup ToSet(e.keys) : e \in {d \in ToSet(doc) : ~IsHeading(d)}}

Heads(doc) == {e \in ToSet(doc) : IsHeading(e)}
Sections(doc) == Seq({h.name : h \in Heads(doc)})

\* The elements s says by their places.
At(doc, s) == [k \in 1..Len(s) |-> doc[s[k]]]

Picks(doc, Y, D) == \A y \in Y : doc[y] \in D

FirstPlaces(n) == [j \in 1..n |-> j]

LEMMA DocumentSays ==
    ASSUME NEW doc, IsDocument(doc)
    PROVE  /\ Len(doc) \in Nat /\ doc \in Seq(ToSet(doc))
           /\ \A i \in 1..Len(doc) :
                /\ doc[i] \in ToSet(doc)
                /\ IsHeading(doc[i]) => doc[i] \in Heads(doc) /\ doc[i].level \in Nat
                /\ ~IsHeading(doc[i]) => /\ doc[i].kind \in BlockKinds
                                         /\ doc[i].text \in Seq(Chars(doc)) /\ doc[i].keys \in Seq(Chars(doc))
<1>1. doc \in Seq(ToSet(doc)) /\ Len(doc) \in Nat
  BY DEF IsDocument
<1> SUFFICES ASSUME NEW i \in 1..Len(doc)
             PROVE  /\ doc[i] \in ToSet(doc)
                    /\ IsHeading(doc[i]) => doc[i] \in Heads(doc) /\ doc[i].level \in Nat
                    /\ ~IsHeading(doc[i]) => /\ doc[i].kind \in BlockKinds
                                             /\ doc[i].text \in Seq(Chars(doc)) /\ doc[i].keys \in Seq(Chars(doc))
  BY <1>1
<1>2. doc[i] \in ToSet(doc)
  BY <1>1, MembersOf
<1> DEFINE e == doc[i]
<1>3. IF IsHeading(e) THEN e.level \in Nat
      ELSE /\ e.kind \in BlockKinds
           /\ e.text \in Seq(ToSet(e.text)) /\ e.keys \in Seq(ToSet(e.keys))
  BY <1>2 DEF IsDocument, BlockKinds
<1>4. ~IsHeading(e) => ToSet(e.text) \subseteq Chars(doc) /\ ToSet(e.keys) \subseteq Chars(doc)
  <2> HIDE DEF e
  <2> SUFFICES ASSUME ~IsHeading(e)
               PROVE  ToSet(e.text) \subseteq Chars(doc) /\ ToSet(e.keys) \subseteq Chars(doc)
    OBVIOUS
  <2>1. e \in {d \in ToSet(doc) : ~IsHeading(d)}
    BY <1>2 DEF e
  <2>2. ToSet(e.text) \cup ToSet(e.keys) \in {ToSet(a.text) \cup ToSet(a.keys) : a \in {d \in ToSet(doc) : ~IsHeading(d)}}
    BY <2>1
  <2> QED
    BY <2>2 DEF Chars
<1>5. ~IsHeading(e) => e.text \in Seq(Chars(doc)) /\ e.keys \in Seq(Chars(doc))
  <2> HIDE DEF e
  <2> QED
    BY <1>3, <1>4, SeqMonotonic
<1> QED
  BY <1>1, <1>2, <1>3, <1>5 DEF Heads

LEMMA AtAppend ==
    ASSUME NEW doc, NEW D, NEW Y, Picks(doc, Y, D), NEW s \in Seq(Y)
    PROVE  /\ At(doc, s) \in Seq(D) /\ Len(At(doc, s)) = Len(s)
           /\ \A k \in 1..Len(s) : At(doc, s)[k] = doc[s[k]]
           /\ \A e \in Y : At(doc, Append(s, e)) = Append(At(doc, s), doc[e])
<1> DEFINE n == Len(s)
<1> USE DEF Picks
<1>1. n \in Nat /\ \A k \in 1..n : doc[s[k]] \in D
  BY ElementOfSeq
<1>2. At(doc, s) \in [1..n -> D]
  BY <1>1 DEF At
<1>3. At(doc, s) \in Seq(D) /\ Len(At(doc, s)) = n /\ \A k \in 1..n : At(doc, s)[k] = doc[s[k]]
  BY <1>1, <1>2 DEF At
<1>4. ASSUME NEW e \in Y
      PROVE  At(doc, Append(s, e)) = Append(At(doc, s), doc[e])
  <2> DEFINE t == Append(s, e)
             a == At(doc, t)
             b == Append(At(doc, s), doc[e])
  <2>1. t \in Seq(Y) /\ Len(t) = n + 1 /\ t[n + 1] = e /\ \A k \in 1..n : t[k] = s[k]
    BY AppendProperties
  <2> HIDE DEF t
  <2>2. Len(t) \in Nat /\ \A k \in 1..Len(t) : doc[t[k]] \in D
    BY <2>1, ElementOfSeq
  <2>3. a \in [1..Len(t) -> D]
    BY <2>2 DEF At
  <2>4. a \in Seq(D) /\ Len(a) = n + 1 /\ \A k \in 1..n + 1 : a[k] = doc[t[k]]
    BY <2>1, <2>2, <2>3 DEF At
  <2>5. doc[e] \in D
    OBVIOUS
  <2>6. b \in Seq(D) /\ Len(b) = n + 1 /\ b[n + 1] = doc[e] /\ \A k \in 1..n : b[k] = At(doc, s)[k]
    BY <1>3, <2>5, AppendProperties
  <2> HIDE DEF a, b, n
  <2>7. ASSUME NEW k \in 1..n + 1
        PROVE  a[k] = b[k]
    <3>1. CASE k = n + 1
      BY <2>1, <2>4, <2>6, <3>1
    <3>2. CASE k \in 1..n
      BY <1>3, <2>1, <2>4, <2>6, <2>7, <3>2
    <3> QED
      BY <1>1, <3>1, <3>2
  <2>8. a = b
    BY <2>4, <2>6, <2>7, SeqEqual
  <2> QED
    BY <2>8 DEF a, b, t
<1> QED
  BY <1>3, <1>4

\* Keeping elements is keeping their places.
LEMMA PlacesKept ==
    ASSUME NEW doc, NEW D, NEW Y, Picks(doc, Y, D), NEW A, NEW B, NEW L,
           \A y \in Y : y \in B <=> y \in A /\ doc[y] \in L
    PROVE  \A s \in Seq(Y) : Kept(At(doc, Kept(s, A)), L) = At(doc, Kept(s, B))
<1> DEFINE Same(s) == Kept(At(doc, Kept(s, A)), L) = At(doc, Kept(s, B))
           Good == {s \in Seq(Y) : Same(s)}
<1>1. <<>> \in Good
  <2>1. At(doc, <<>>) = <<>>
    BY DEF At
  <2>2. Same(<<>>)
    BY <2>1, KeptNone
  <2> QED
    BY <2>2, EmptySeq
<1>2. ASSUME NEW s \in Seq(Y), s \in Good, NEW e \in Y
      PROVE  Append(s, e) \in Good
  <2> DEFINE t == Append(s, e)
             p == Kept(s, A)
             q == Kept(s, B)
  <2>1. p \in Seq(Y) /\ q \in Seq(Y)
    BY KeptSome
  <2>2. Kept(t, A) = (IF e \in A THEN Append(p, e) ELSE p) /\ Kept(t, B) = (IF e \in B THEN Append(q, e) ELSE q)
    BY KeptAppend
  <2>3. Kept(At(doc, p), L) = At(doc, q)
    BY <1>2
  <2> HIDE DEF t, p, q
  <2>4. /\ At(doc, p) \in Seq(D) /\ At(doc, Append(p, e)) = Append(At(doc, p), doc[e])
        /\ At(doc, Append(q, e)) = Append(At(doc, q), doc[e])
    <3>1. At(doc, p) \in Seq(D) /\ At(doc, Append(p, e)) = Append(At(doc, p), doc[e])
      BY <2>1, AtAppend
    <3>2. At(doc, Append(q, e)) = Append(At(doc, q), doc[e])
      BY <2>1, AtAppend
    <3> QED
      BY <3>1, <3>2
  <2>5. e \in B <=> e \in A /\ doc[e] \in L
    OBVIOUS
  <2>6. ASSUME e \notin A
        PROVE  Same(t)
    <3>1. Kept(t, A) = p /\ Kept(t, B) = q
      BY <2>2, <2>5, <2>6
    <3> QED
      BY <2>3, <3>1
  <2>7. ASSUME e \in A
        PROVE  Same(t)
    <3> DEFINE a == At(doc, p)
               d == doc[e]
    <3>1. a \in Seq(D) /\ d \in D
      BY <2>4 DEF Picks
    <3> HIDE DEF a, d
    <3>2. Kept(Append(a, d), L) = IF d \in L THEN Append(Kept(a, L), d) ELSE Kept(a, L)
      BY <3>1, KeptAppend
    <3>3. Kept(t, A) = Append(p, e) /\ At(doc, Kept(t, A)) = Append(a, d)
      BY <2>2, <2>4, <2>7 DEF a, d
    <3>4. Kept(a, L) = At(doc, q) /\ At(doc, Append(q, e)) = Append(At(doc, q), d)
      BY <2>3, <2>4 DEF a, d
    <3>5. CASE d \in L
      <4>1. Kept(t, B) = Append(q, e)
        BY <2>2, <2>5, <2>7, <3>5 DEF d
      <4> QED
        BY <3>2, <3>3, <3>4, <3>5, <4>1
    <3>6. CASE d \notin L
      <4>1. Kept(t, B) = q
        BY <2>2, <2>5, <3>6 DEF d
      <4> QED
        BY <3>2, <3>3, <3>4, <3>6, <4>1
    <3> QED
      BY <3>5, <3>6
  <2>8. Same(t)
    BY <2>6, <2>7
  <2>9. t \in Seq(Y)
    BY AppendProperties DEF t
  <2> QED
    BY <2>8, <2>9 DEF t
<1> HIDE DEF Good
<1>3. \A s \in Seq(Y) : s \in Good
  BY <1>1, <1>2, OneMore
<1> QED
  BY <1>3 DEF Good

\* The places of the headings that are open behind the first n elements.
OpenAt(doc, n) ==
    {j \in 1..n : IsHeading(doc[j]) /\ \A k \in j + 1..n : IsHeading(doc[k]) => doc[k].level > doc[j].level}

OpenPlaces(doc, n) == Kept(FirstPlaces(n), OpenAt(doc, n))

LEMMA PathIs ==
    ASSUME NEW doc, NEW i
    PROVE  PathOf(doc, i) = [k \in 1..Len(OpenPlaces(doc, i - 1)) |-> doc[OpenPlaces(doc, i - 1)[k]].name]
BY Zenon DEF PathOf, OpenPlaces, OpenAt, FirstPlaces

LEMMA NextPlace ==
    ASSUME NEW m \in Nat, NEW n \in 0..m
    PROVE  /\ FirstPlaces(n) \in Seq(1..m) /\ Len(FirstPlaces(n)) = n
           /\ \A j \in 1..n : FirstPlaces(n)[j] = j
           /\ n < m => FirstPlaces(n + 1) = Append(FirstPlaces(n), n + 1)
<1>1. ASSUME NEW l \in 0..m
      PROVE  FirstPlaces(l) \in Seq(1..m) /\ Len(FirstPlaces(l)) = l /\ \A j \in 1..l : FirstPlaces(l)[j] = j
  <2>1. FirstPlaces(l) \in [1..l -> 1..m]
    BY DEF FirstPlaces
  <2> QED
    BY <2>1 DEF FirstPlaces
<1>2. ASSUME n < m
      PROVE  FirstPlaces(n + 1) = Append(FirstPlaces(n), n + 1)
  <2> DEFINE a == FirstPlaces(n + 1)
             s == FirstPlaces(n)
             b == Append(s, n + 1)
  <2>1. n + 1 \in 0..m /\ n + 1 \in 1..m
    BY <1>2
  <2>2. a \in Seq(1..m) /\ Len(a) = n + 1 /\ \A j \in 1..n + 1 : a[j] = j
    BY <1>1, <2>1
  <2>3. s \in Seq(1..m) /\ Len(s) = n /\ \A j \in 1..n : s[j] = j
    BY <1>1
  <2> HIDE DEF a, s
  <2>4. b \in Seq(1..m) /\ Len(b) = n + 1 /\ b[n + 1] = n + 1 /\ \A j \in 1..n : b[j] = s[j]
    BY <2>1, <2>3, AppendProperties
  <2> HIDE DEF b
  <2>5. \A j \in 1..n + 1 : a[j] = b[j]
    <3>1. \A j \in 1..n + 1 : j \in 1..n \/ j = n + 1
      OBVIOUS
    <3> QED
      BY <2>2, <2>3, <2>4, <3>1
  <2>6. a = b
    BY <2>2, <2>4, <2>5, SeqEqual
  <2> QED
    BY <2>6 DEF a, b, s
<1> QED
  BY <1>1, <1>2

\* What stands open is what the stack holds.
LEMMA OpenMore ==
    ASSUME NEW doc, IsDocument(doc), NEW n \in 0..Len(doc), n < Len(doc)
    PROVE  At(doc, OpenPlaces(doc, n + 1)) =
             IF IsHeading(doc[n + 1]) THEN Under(At(doc, OpenPlaces(doc, n)), doc[n + 1])
             ELSE At(doc, OpenPlaces(doc, n))
<1> DEFINE m == Len(doc)
           Y == 1..m
           D == ToSet(doc)
           e == doc[n + 1]
           A == OpenAt(doc, n)
           more == OpenAt(doc, n + 1)
           s == FirstPlaces(n)
           t == FirstPlaces(n + 1)
           open == Kept(s, A)
<1>1. /\ m \in Nat /\ Picks(doc, Y, D)
      /\ \A i \in Y : IsHeading(doc[i]) => doc[i].level \in Nat
  BY DocumentSays DEF Picks
<1>2. /\ s \in Seq(Y) /\ Len(s) = n /\ t = Append(s, n + 1)
      /\ \A j \in 1..n : s[j] = j
  BY <1>1, NextPlace
<1>3. n + 1 \in Y /\ e \in D /\ n \in Nat /\ n + 1 \notin 1..n
  BY <1>1 DEF Picks
<1>4. open \in Seq(Y) /\ OpenPlaces(doc, n) = open /\ OpenPlaces(doc, n + 1) = Kept(t, more)
  BY <1>2, KeptSome DEF OpenPlaces
<1>5. Kept(t, more) = IF n + 1 \in more THEN Append(Kept(s, more), n + 1) ELSE Kept(s, more)
  <2> DEFINE place == n + 1
  <2>1. place \in Y /\ s \in Seq(Y) /\ t = Append(s, place)
    BY <1>2, <1>3
  <2> HIDE DEF s, t, more, Y, place
  <2>2. Kept(Append(s, place), more) = IF place \in more THEN Append(Kept(s, more), place) ELSE Kept(s, more)
    BY <2>1, KeptAppend
  <2> QED
    BY <2>1, <2>2 DEF place
<1>6. CASE ~IsHeading(e)
  <2>1. n + 1 \notin more
    BY <1>3, <1>6 DEF OpenAt
  <2>2. ASSUME NEW j \in 1..n
        PROVE  j \in more <=> j \in A
    <3>1. \A k \in j + 1..n + 1 : k = n + 1 \/ k \in j + 1..n
      BY <1>3
    <3>2. \A k \in j + 1..n : k \in j + 1..n + 1
      BY <1>3
    <3>3. j \in 1..n + 1
      BY <1>3
    <3> QED
      BY <1>6, <3>1, <3>2, <3>3 DEF OpenAt
  <2>3. Kept(s, more) = Kept(s, A)
    <3>1. \A j \in 1..Len(s) : s[j] \in more <=> s[j] \in A
      BY <1>2, <2>2
    <3> HIDE DEF s, more, A
    <3> QED
      BY <3>1, KeptSame
  <2> QED
    BY <1>4, <1>5, <1>6, <2>1, <2>3
<1>7. CASE IsHeading(e)
  <2> DEFINE L == {h \in D : h.level < e.level}
             B == {j \in A : doc[j].level < e.level}
             stack == At(doc, open)
  <2>1. n + 1 \in more
    <3>1. (n + 1) + 1..n + 1 = {}
      BY <1>3
    <3>2. n + 1 \in 1..n + 1
      BY <1>3
    <3> QED
      BY <1>7, <3>1, <3>2 DEF OpenAt
  <2>2. ASSUME NEW j \in 1..n
        PROVE  j \in more <=> j \in B
    <3>1. n + 1 \in j + 1..n + 1 /\ \A k \in j + 1..n + 1 : k = n + 1 \/ k \in j + 1..n
      BY <1>3
    <3>2. \A k \in j + 1..n : k \in j + 1..n + 1
      BY <1>3
    <3>3. j \in 1..n + 1 /\ j \in Y
      BY <1>1, <1>3
    <3>4. IsHeading(doc[j]) => (e.level > doc[j].level <=> doc[j].level < e.level)
      BY <1>1, <1>3, <1>7, <3>3
    <3>5. j \in more => j \in A /\ e.level > doc[j].level /\ IsHeading(doc[j])
      BY <1>7, <3>1, <3>2 DEF OpenAt
    <3>6. j \in A /\ e.level > doc[j].level => j \in more
      BY <3>1, <3>3 DEF OpenAt
    <3>7. j \in A => IsHeading(doc[j])
      BY DEF OpenAt
    <3> QED
      BY <3>4, <3>5, <3>6, <3>7
  <2>3. \A j \in Y : j \in B <=> j \in A /\ doc[j] \in L
    BY <1>1 DEF Picks
  <2>4. Kept(s, more) = Kept(s, B)
    <3>1. \A j \in 1..Len(s) : s[j] \in more <=> s[j] \in B
      BY <1>2, <2>2
    <3> HIDE DEF s, more, B
    <3> QED
      BY <3>1, KeptSame
  <2> HIDE DEF A, B, L, s, Y, D, more
  <2>5. Kept(stack, L) = At(doc, Kept(s, B))
    <3>1. \A u \in Seq(Y) : Kept(At(doc, Kept(u, A)), L) = At(doc, Kept(u, B))
      BY <1>1, <2>3, PlacesKept
    <3> QED
      BY <1>2, <3>1
  <2>6. Kept(s, B) \in Seq(Y)
    BY <1>2, KeptSome
  <2>7. At(doc, Append(Kept(s, B), n + 1)) = Append(At(doc, Kept(s, B)), e)
    <3> DEFINE u == Kept(s, B)
    <3> HIDE DEF u
    <3>1. u \in Seq(Y)
      BY <2>6 DEF u
    <3>2. \A i \in Y : At(doc, Append(u, i)) = Append(At(doc, u), doc[i])
      BY <1>1, <3>1, AtAppend
    <3> QED
      BY <1>3, <3>2 DEF u
  <2>8. Kept(stack, {h \in ToSet(stack) : h.level < e.level}) = Kept(stack, L)
    <3>1. stack \in Seq(D)
      BY <1>1, <1>4, AtAppend
    <3> HIDE DEF stack
    <3>2. \A k \in 1..Len(stack) : stack[k] \in ToSet(stack) /\ stack[k] \in D
      BY <3>1, MembersOf
    <3>3. \A k \in 1..Len(stack) : stack[k] \in {h \in ToSet(stack) : h.level < e.level} <=> stack[k] \in L
      BY <3>2 DEF L
    <3> QED
      BY <3>3, KeptSame
  <2>9. Under(stack, e) = Append(Kept(stack, L), e)
    BY <2>8 DEF Under
  <2>10. At(doc, Kept(t, more)) = Under(stack, e)
    BY <1>5, <2>1, <2>4, <2>5, <2>7, <2>9
  <2> QED
    BY <1>4, <1>7, <2>10
<1> QED
  BY <1>6, <1>7

DocTexts(doc) == [i \in 1..Len(doc) |-> IF IsHeading(doc[i]) THEN <<>> ELSE doc[i].text]

BlocksIn(doc) == BlocksOf(Chars(doc), Sections(doc))

Readings(doc) == [stack : Seq(Heads(doc)), blocks : Seq(BlocksIn(doc))]

\* What parse_structure holds behind the first n elements.
Reads(acc, doc, n) ==
    /\ acc \in Readings(doc)
    /\ acc.stack = At(doc, OpenPlaces(doc, n))
    /\ LettersIn(TextsOf(acc.blocks)) = LettersIn(SubSeq(DocTexts(doc), 1, n))
    /\ \A b \in ToSet(acc.blocks) :
        \E i \in 1..n : ~IsHeading(doc[i]) /\ b.text = doc[i].text /\ b.section = PathOf(doc, i)
    /\ \A i \in 1..n : ~IsHeading(doc[i]) /\ doc[i].kind = "table" =>
        \E b \in ToSet(acc.blocks) : b.kind = "table" /\ b.text = doc[i].text

LEMMA NamesAre ==
    ASSUME NEW doc, NEW stack \in Seq(Heads(doc))
    PROVE  Names(stack) \in Sections(doc)
<1> DEFINE N == {h.name : h \in Heads(doc)}
<1>1. Len(stack) \in Nat /\ \A i \in 1..Len(stack) : stack[i].name \in N
  BY ElementOfSeq
<1>2. Names(stack) \in [1..Len(stack) -> N]
  BY <1>1 DEF Names
<1> HIDE DEF N
<1>3. Names(stack) \in Seq(N)
  BY <1>1, <1>2
<1> QED
  BY <1>3 DEF N, Sections

LEMMA ElementTyped ==
    ASSUME NEW doc, IsDocument(doc), NEW acc \in Readings(doc), NEW i \in 1..Len(doc)
    PROVE  WithElement(acc, doc[i]) \in Readings(doc)
<1> DEFINE e == doc[i]
           stack == acc.stack
           blocks == acc.blocks
           b == [kind |-> e.kind, text |-> e.text, keys |-> e.keys, section |-> Names(stack)]
<1>1. /\ IsHeading(e) => e \in Heads(doc)
      /\ ~IsHeading(e) => e.kind \in BlockKinds /\ e.text \in Seq(Chars(doc)) /\ e.keys \in Seq(Chars(doc))
  BY DocumentSays
<1>2. stack \in Seq(Heads(doc)) /\ blocks \in Seq(BlocksIn(doc)) /\ acc = [stack |-> stack, blocks |-> blocks]
  BY DEF Readings
<1> HIDE DEF e, stack, blocks
<1>3. CASE IsHeading(e)
  <2>1. WithElement(acc, e) = [acc EXCEPT !.stack = Under(@, e)]
    BY <1>3, Zenon DEF WithElement
  <2>2. Under(stack, e) \in Seq(Heads(doc))
    <3> DEFINE kept == Kept(stack, {h \in ToSet(stack) : h.level < e.level})
    <3>1. kept \in Seq(Heads(doc))
      BY <1>2, KeptSome
    <3>2. Under(stack, e) = Append(kept, e)
      BY DEF Under
    <3> HIDE DEF kept
    <3> QED
      BY <1>1, <1>3, <3>1, <3>2, AppendProperties
  <2>3. WithElement(acc, e) = [stack |-> Under(stack, e), blocks |-> blocks]
    BY <1>2, <2>1
  <2>4. WithElement(acc, e) \in Readings(doc)
    BY <1>2, <2>2, <2>3 DEF Readings
  <2> QED
    BY <2>4 DEF e
<1>4. CASE ~IsHeading(e)
  <2>1. WithElement(acc, e) = [acc EXCEPT !.blocks = Append(@, b)]
    BY <1>4, Zenon DEF WithElement, stack
  <2>2. b \in BlocksIn(doc)
    BY <1>1, <1>2, <1>4, NamesAre DEF BlocksIn, BlocksOf
  <2> HIDE DEF b
  <2>3. Append(blocks, b) \in Seq(BlocksIn(doc))
    BY <1>2, <2>2, AppendProperties
  <2>4. WithElement(acc, e) = [stack |-> stack, blocks |-> Append(blocks, b)]
    BY <1>2, <2>1
  <2>5. WithElement(acc, e) \in Readings(doc)
    BY <1>2, <2>3, <2>4 DEF Readings
  <2> QED
    BY <2>5 DEF e
<1> QED
  BY <1>3, <1>4

LEMMA DocTextsAre ==
    ASSUME NEW doc, IsDocument(doc)
    PROVE  /\ DocTexts(doc) \in Seq(Seq(Chars(doc))) /\ Len(DocTexts(doc)) = Len(doc)
           /\ \A i \in 1..Len(doc) : DocTexts(doc)[i] = IF IsHeading(doc[i]) THEN <<>> ELSE doc[i].text
<1> DEFINE Text(i) == IF IsHeading(doc[i]) THEN <<>> ELSE doc[i].text
<1>1. Len(doc) \in Nat /\ \A i \in 1..Len(doc) : Text(i) \in Seq(Chars(doc))
  BY DocumentSays, EmptySeq
<1>2. DocTexts(doc) = [i \in 1..Len(doc) |-> Text(i)]
  BY DEF DocTexts
<1> HIDE DEF Text
<1>3. DocTexts(doc) \in [1..Len(doc) -> Seq(Chars(doc))]
  BY <1>1, <1>2
<1>4. DocTexts(doc) \in Seq(Seq(Chars(doc))) /\ Len(DocTexts(doc)) = Len(doc)
  BY <1>1, <1>2, <1>3
<1> QED
  BY <1>2, <1>4 DEF Text

LEMMA ElementRead ==
    ASSUME NEW doc, IsDocument(doc), NEW n \in 0..Len(doc), n < Len(doc), NEW acc, Reads(acc, doc, n)
    PROVE  Reads(WithElement(acc, doc[n + 1]), doc, n + 1)
<1> DEFINE e == doc[n + 1]
           X == Chars(doc)
           stack == acc.stack
           blocks == acc.blocks
           texts == DocTexts(doc)
           here == IF IsHeading(e) THEN <<>> ELSE e.text
           next == WithElement(acc, e)
           b == [kind |-> e.kind, text |-> e.text, keys |-> e.keys, section |-> Names(stack)]
<1>1. /\ acc \in Readings(doc)
      /\ stack = At(doc, OpenPlaces(doc, n))
      /\ LettersIn(TextsOf(blocks)) = LettersIn(SubSeq(texts, 1, n))
      /\ \A a \in ToSet(blocks) :
            \E i \in 1..n : ~IsHeading(doc[i]) /\ a.text = doc[i].text /\ a.section = PathOf(doc, i)
      /\ \A i \in 1..n : ~IsHeading(doc[i]) /\ doc[i].kind = "table" =>
            \E a \in ToSet(blocks) : a.kind = "table" /\ a.text = doc[i].text
  BY DEF Reads
<1>2. /\ Len(doc) \in Nat /\ n \in Nat /\ n + 1 \in 1..Len(doc) /\ (n + 1) - 1 = n
      /\ \A i \in 1..n + 1 : i = n + 1 \/ i \in 1..n
      /\ \A i \in 1..n : i \in 1..n + 1
      /\ n + 1 \in 1..n + 1
  BY DocumentSays
<1>3. next \in Readings(doc)
  BY <1>1, <1>2, ElementTyped
<1>4. SubSeq(texts, 1, n + 1) = Append(SubSeq(texts, 1, n), here) /\ SubSeq(texts, 1, n) \in Seq(Seq(X))
      /\ here \in Seq(X)
  <2>1. texts \in Seq(Seq(X)) /\ Len(texts) = Len(doc) /\ texts[n + 1] = here
    BY <1>2, DocTextsAre
  <2> HIDE DEF texts, here, X
  <2>2. here \in Seq(X)
    BY <1>2, <2>1, ElementOfSeq
  <2>3. 1 \in 1..Len(texts) /\ n + 1 \in 1..Len(texts) /\ \A i \in 1..n : texts[i] \in Seq(X)
    BY <1>2, <2>1, ElementOfSeq
  <2>4. SubSeq(texts, 1, n) \in Seq(Seq(X))
    BY <1>2, <2>1, <2>3, SubSeqProperties
  <2>5. SubSeq(texts, 1, n + 1) = SubSeq(texts, 1, (n + 1) - 1) \o <<texts[n + 1]>>
    BY <2>1, <2>3, SubSeqRecursiveSecond
  <2>6. SubSeq(texts, 1, n + 1) = SubSeq(texts, 1, n) \o <<here>>
    BY <1>2, <2>1, <2>5
  <2> QED
    BY <2>2, <2>4, <2>6, AppendIsConcat
<1>5. LettersIn(SubSeq(texts, 1, n + 1)) = LettersIn(SubSeq(texts, 1, n)) \o Letters(here)
      /\ LettersIn(SubSeq(texts, 1, n)) \in Seq(X)
  <2> DEFINE so == SubSeq(texts, 1, n)
  <2> HIDE DEF so, here, X, texts
  <2>1. LettersIn(Append(so, here)) = LettersIn(so) \o Letters(here) /\ LettersIn(so) \in Seq(X)
    BY <1>4, LettersInAppend DEF so
  <2> QED
    BY <1>4, <2>1 DEF so
<1>6. At(doc, OpenPlaces(doc, n + 1)) = IF IsHeading(e) THEN Under(stack, e) ELSE stack
  BY <1>1, <1>2, OpenMore
<1>7. stack \in Seq(Heads(doc)) /\ blocks \in Seq(BlocksIn(doc)) /\ acc = [stack |-> stack, blocks |-> blocks]
  BY <1>1 DEF Readings
<1>8. CASE IsHeading(e)
  <2>1. next = [stack |-> Under(stack, e), blocks |-> blocks]
    <3>1. next = [acc EXCEPT !.stack = Under(@, e)]
      BY <1>8, Zenon DEF WithElement
    <3> HIDE DEF next, stack, blocks
    <3> QED
      BY <1>7, <3>1
  <2>2. LettersIn(SubSeq(texts, 1, n + 1)) = LettersIn(SubSeq(texts, 1, n))
    BY <1>5, <1>8, LettersNone, ConcatEmptySeq
  <2>3. next.stack = At(doc, OpenPlaces(doc, n + 1)) /\ next.blocks = blocks
    BY <1>6, <1>8, <2>1
  <2> HIDE DEF next, texts, e, blocks
  <2>4. \A a \in ToSet(blocks) :
            \E i \in 1..n + 1 : ~IsHeading(doc[i]) /\ a.text = doc[i].text /\ a.section = PathOf(doc, i)
    BY <1>1, <1>2
  <2>5. \A i \in 1..n + 1 : ~IsHeading(doc[i]) /\ doc[i].kind = "table" =>
            \E a \in ToSet(blocks) : a.kind = "table" /\ a.text = doc[i].text
    BY <1>1, <1>2, <1>8 DEF e
  <2>6. Reads(next, doc, n + 1)
    BY <1>1, <1>3, <2>2, <2>3, <2>4, <2>5 DEF Reads, texts
  <2> QED
    BY <2>6 DEF next, e
<1>9. CASE ~IsHeading(e)
  <2>1. next = [stack |-> stack, blocks |-> Append(blocks, b)]
    <3>1. next = [acc EXCEPT !.blocks = Append(@, b)]
      BY <1>9, Zenon DEF WithElement
    <3> HIDE DEF next, stack, blocks, b
    <3> QED
      BY <1>7, <3>1
  <2>2. b.section = PathOf(doc, n + 1)
    <3> DEFINE open == OpenPlaces(doc, n)
    <3>1. PathOf(doc, n + 1) = [k \in 1..Len(open) |-> doc[open[k]].name]
      BY <1>2, PathIs
    <3>2. Len(stack) = Len(open) /\ \A k \in 1..Len(open) : stack[k] = doc[open[k]]
      <4>1. Picks(doc, 1..Len(doc), ToSet(doc)) /\ FirstPlaces(n) \in Seq(1..Len(doc))
        BY <1>2, DocumentSays, NextPlace DEF Picks
      <4>2. open \in Seq(1..Len(doc))
        BY <4>1, KeptSome DEF OpenPlaces
      <4>3. Len(At(doc, open)) = Len(open) /\ \A k \in 1..Len(open) : At(doc, open)[k] = doc[open[k]]
        <5> DEFINE Y == 1..Len(doc)
                   D == ToSet(doc)
        <5>1. Picks(doc, Y, D) /\ open \in Seq(Y)
          BY <4>1, <4>2
        <5> HIDE DEF Y, D, open
        <5> QED
          BY <5>1, AtAppend
      <4> HIDE DEF open
      <4> QED
        BY <1>1, <4>3 DEF open
    <3>3. Names(stack) = [k \in 1..Len(open) |-> doc[open[k]].name]
      <4> HIDE DEF open, stack
      <4> QED
        BY <3>2 DEF Names
    <3>4. b.section = Names(stack)
      OBVIOUS
    <3> QED
      BY <3>1, <3>3, <3>4
  <2>3. b.text = e.text /\ b.kind = e.kind
    OBVIOUS
  <2>4. b \in BlocksIn(doc)
    <3>1. e.kind \in BlockKinds /\ e.text \in Seq(X) /\ e.keys \in Seq(X)
      BY <1>2, <1>9, DocumentSays
    <3> QED
      BY <1>7, <3>1, NamesAre DEF BlocksIn, BlocksOf
  <2>5. next.stack = stack /\ next.blocks = Append(blocks, b)
    BY <2>1
  <2> HIDE DEF next, texts, blocks, b
  <2>6. ToSet(Append(blocks, b)) = ToSet(blocks) \cup {b}
    BY <1>7, <2>4, SetOfAppend
  <2>7. LettersIn(TextsOf(Append(blocks, b))) = LettersIn(SubSeq(texts, 1, n + 1))
    <3>1. TextsOf(Append(blocks, b)) = Append(TextsOf(blocks), e.text)
      BY <1>7, <2>3, <2>4, BlocksTexted, TextsAppend DEF BlocksIn
    <3>2. TextsOf(blocks) \in Seq(Seq(X))
      BY <1>7, BlocksTexted, TextsAre DEF BlocksIn
    <3>3. e.text \in Seq(X) /\ here = e.text
      BY <1>4, <1>9
    <3> HIDE DEF e, here, X
    <3>4. LettersIn(Append(TextsOf(blocks), e.text)) = LettersIn(TextsOf(blocks)) \o Letters(e.text)
      BY <3>2, <3>3, LettersInAppend
    <3> QED
      BY <1>1, <1>5, <3>1, <3>3, <3>4 DEF blocks, texts
  <2> DEFINE more == Append(blocks, b)
  <2>8. \A a \in ToSet(more) :
            \E i \in 1..n + 1 : ~IsHeading(doc[i]) /\ a.text = doc[i].text /\ a.section = PathOf(doc, i)
    <3> HIDE DEF more
    <3>1. ASSUME NEW a \in ToSet(more)
          PROVE  \E i \in 1..n + 1 : ~IsHeading(doc[i]) /\ a.text = doc[i].text /\ a.section = PathOf(doc, i)
      <4>1. CASE a = b
        BY <1>2, <1>9, <2>2, <2>3, <4>1
      <4>2. CASE a \in ToSet(blocks)
        BY <1>1, <1>2, <4>2 DEF blocks
      <4> QED
        BY <2>6, <4>1, <4>2 DEF more
    <3> QED
      BY <3>1
  <2>9. \A i \in 1..n + 1 : ~IsHeading(doc[i]) /\ doc[i].kind = "table" =>
            \E a \in ToSet(more) : a.kind = "table" /\ a.text = doc[i].text
    <3> HIDE DEF more
    <3>1. b \in ToSet(more) /\ \A a \in ToSet(blocks) : a \in ToSet(more)
      BY <2>6 DEF more
    <3> QED
      BY <1>1, <1>2, <2>3, <3>1 DEF blocks
  <2>10. next.stack = At(doc, OpenPlaces(doc, n + 1))
    BY <1>6, <1>9, <2>5
  <2> HIDE DEF more, e
  <2>11. Reads(next, doc, n + 1)
    BY <1>3, <2>5, <2>7, <2>8, <2>9, <2>10 DEF Reads, texts, more, next
  <2> QED
    BY <2>11 DEF next, e
<1> QED
  BY <1>8, <1>9

LEMMA NothingRead ==
    ASSUME NEW doc, IsDocument(doc)
    PROVE  Reads([stack |-> <<>>, blocks |-> <<>>], doc, 0)
<1> DEFINE acc == [stack |-> <<>>, blocks |-> <<>>]
<1>1. acc.stack = <<>> /\ acc.blocks = <<>> /\ acc \in Readings(doc)
  BY EmptySeq DEF Readings
<1>2. OpenPlaces(doc, 0) = <<>>
  <2>1. FirstPlaces(0) = <<>>
    BY DEF FirstPlaces
  <2> QED
    BY <2>1, KeptNone DEF OpenPlaces
<1>3. At(doc, <<>>) = <<>>
  BY DEF At
<1>4. LettersIn(TextsOf(<<>>)) = LettersIn(SubSeq(DocTexts(doc), 1, 0))
  <2>1. SubSeq(DocTexts(doc), 1, 0) = <<>>
    BY DocTextsAre, SubSeqEmpty
  <2> QED
    BY <2>1, TextsNone
<1>5. ToSet(<<>>) = {}
  BY DEF ToSet
<1> HIDE DEF acc
<1>6. Reads(acc, doc, 0)
  BY <1>1, <1>2, <1>3, <1>4, <1>5 DEF Reads
<1> QED
  BY <1>6 DEF acc

LEMMA ParsedStep ==
    ASSUME NEW doc, IsDocument(doc)
    PROVE  LET g == Parsed(doc)
           IN  /\ g[0] = [stack |-> <<>>, blocks |-> <<>>]
               /\ \A k \in 1..Len(doc) : g[k] = WithElement(g[k - 1], doc[k])
<1> DEFINE n == Len(doc)
           Q == Readings(doc)
           first == [stack |-> <<>>, blocks |-> <<>>]
           step == [p \in (1..n) \X Q |-> WithElement(p[2], doc[p[1]])]
           Rec(f) == f = [k \in 0..n |-> IF k = 0 THEN first ELSE WithElement(f[k - 1], doc[k])]
           g == Parsed(doc)
<1>1. n \in Nat
  BY DocumentSays
<1>2. first \in Q
  BY EmptySeq DEF Readings
<1>3. step \in [(1..n) \X Q -> Q]
  BY ElementTyped
<1> HIDE DEF first
<1>4. PICK h : StepsBy(h, n, Q, first, step)
  <2> HIDE DEF step, n, Q
  <2> QED
    BY <1>1, <1>2, <1>3, Stepwise
<1>5. \A k \in 0..n : h[k] = IF k = 0 THEN first ELSE WithElement(h[k - 1], doc[k])
  <2> TAKE k \in 0..n
  <2>1. CASE k = 0
    BY <1>4, <2>1 DEF StepsBy
  <2>2. CASE k # 0
    <3>1. k \in 1..n /\ k - 1 \in 0..n
      BY <1>1, <2>2
    <3>2. h[k - 1] \in Q /\ h[k] = step[<<k, h[k - 1]>>]
      BY <1>4, <3>1 DEF StepsBy
    <3> QED
      BY <2>2, <3>1, <3>2
  <2> QED
    BY <2>1, <2>2
<1>6. Rec(h)
  <2> DEFINE Now(k) == IF k = 0 THEN first ELSE WithElement(h[k - 1], doc[k])
  <2>1. h = [k \in 0..n |-> h[k]]
    BY <1>4 DEF StepsBy
  <2> HIDE DEF n
  <2>2. \A k \in 0..n : h[k] = Now(k)
    BY <1>5
  <2> HIDE DEF Now
  <2>3. h = [k \in 0..n |-> Now(k)]
    BY <2>1, <2>2
  <2> QED
    BY <2>3 DEF Now
<1>7. g = CHOOSE f : Rec(f)
  BY Zenon DEF Parsed, first
<1> HIDE DEF Rec
<1>8. Rec(g)
  BY <1>6, <1>7
<1> HIDE DEF g
<1>9. \A k \in 0..n : g[k] = IF k = 0 THEN first ELSE WithElement(g[k - 1], doc[k])
  <2> DEFINE Now(k) == IF k = 0 THEN first ELSE WithElement(g[k - 1], doc[k])
  <2>1. g = [k \in 0..n |-> Now(k)]
    BY <1>8 DEF Rec
  <2> HIDE DEF n, Now
  <2>2. \A k \in 0..n : g[k] = Now(k)
    BY <2>1
  <2> QED
    BY <2>2 DEF Now
<1> HIDE DEF n
<1>10. g[0] = first /\ \A k \in 1..n : g[k] = WithElement(g[k - 1], doc[k])
  <2>1. 0 \in 0..n /\ \A k \in 1..n : k \in 0..n /\ k # 0
    BY <1>1
  <2> QED
    BY <1>9, <2>1
<1> QED
  BY <1>10 DEF g, n, first

\* The blocks of a document have its text in order, each under the headings
\* that are open where it stands, and every table.
LEMMA BlocksKeep ==
    ASSUME NEW doc, IsDocument(doc)
    PROVE  LET blocks == Blocks(doc)
           IN  /\ blocks \in Seq(BlocksIn(doc))
               /\ LettersIn(TextsOf(blocks)) = LettersIn(DocTexts(doc))
               /\ \A b \in ToSet(blocks) : \E i \in 1..Len(doc) :
                    ~IsHeading(doc[i]) /\ b.text = doc[i].text /\ b.section = PathOf(doc, i)
               /\ \A i \in 1..Len(doc) : ~IsHeading(doc[i]) /\ doc[i].kind = "table" =>
                    \E b \in ToSet(blocks) : b.kind = "table" /\ b.text = doc[i].text
<1> DEFINE n == Len(doc)
           g == Parsed(doc)
           S == {k \in 0..n : Reads(g[k], doc, k)}
<1>1. n \in Nat
  BY DocumentSays
<1>2. g[0] = [stack |-> <<>>, blocks |-> <<>>] /\ \A k \in 1..n : g[k] = WithElement(g[k - 1], doc[k])
  BY ParsedStep
<1>3. Blocks(doc) = g[n].blocks
  BY DEF Blocks
<1> HIDE DEF g
<1>4. 0 \in S
  BY <1>1, <1>2, NothingRead
<1>5. ASSUME NEW k \in 0..n, k < n, k \in S
      PROVE  k + 1 \in S
  <2>1. k + 1 \in 1..n /\ k + 1 \in 0..n /\ (k + 1) - 1 = k
    BY <1>1, <1>5
  <2>2. g[k + 1] = WithElement(g[k], doc[k + 1])
    BY <1>2, <2>1
  <2>3. Reads(g[k], doc, k)
    BY <1>5
  <2>4. Reads(g[k + 1], doc, k + 1)
    BY <1>5, <2>2, <2>3, ElementRead
  <2> QED
    BY <2>1, <2>4
<1>6. n \in S
  <2>1. n \in 0..n
    BY <1>1
  <2> HIDE DEF n, S
  <2>2. \A k \in 0..n : k \in S
    BY <1>1, <1>4, <1>5, OneByOne
  <2> QED
    BY <2>1, <2>2
<1>7. Reads(g[n], doc, n)
  BY <1>6
<1>8. SubSeq(DocTexts(doc), 1, n) = DocTexts(doc)
  BY DocTextsAre, SubSeqFull
<1> HIDE DEF n
<1>9. /\ g[n].blocks \in Seq(BlocksIn(doc))
      /\ LettersIn(TextsOf(g[n].blocks)) = LettersIn(DocTexts(doc))
      /\ \A b \in ToSet(g[n].blocks) : \E i \in 1..n :
            ~IsHeading(doc[i]) /\ b.text = doc[i].text /\ b.section = PathOf(doc, i)
      /\ \A i \in 1..n : ~IsHeading(doc[i]) /\ doc[i].kind = "table" =>
            \E b \in ToSet(g[n].blocks) : b.kind = "table" /\ b.text = doc[i].text
  BY <1>7, <1>8 DEF Reads, Readings
<1> QED
  BY <1>3, <1>9 DEF n

\* A document is chunked as a whole: parse_structure and chunk_blocks drop
\* no word of it and put none twice, and keep its sections apart.
LEMMA DocumentChunked ==
    ASSUME NEW doc, IsDocument(doc)
    PROVE  WellChunked(doc, ChunkBlocks(Blocks(doc)))
<1> DEFINE X == Chars(doc)
           Z == Sections(doc)
           blocks == Blocks(doc)
           chunks == ChunkBlocks(blocks)
<1>1. Break \in X /\ Space \in X
  BY DEF Chars
<1>2. /\ blocks \in Seq(BlocksOf(X, Z))
      /\ LettersIn(TextsOf(blocks)) = LettersIn(DocTexts(doc))
      /\ \A b \in ToSet(blocks) : \E i \in 1..Len(doc) :
            ~IsHeading(doc[i]) /\ b.text = doc[i].text /\ b.section = PathOf(doc, i)
      /\ \A i \in 1..Len(doc) : ~IsHeading(doc[i]) /\ doc[i].kind = "table" =>
            \E b \in ToSet(blocks) : b.kind = "table" /\ b.text = doc[i].text
  BY BlocksKeep DEF BlocksIn
<1> HIDE DEF blocks, X, Z
<1>3. /\ chunks \in Seq(ChunksOf(X, Z))
      /\ LettersIn(OwnTexts(chunks)) = LettersIn(TextsOf(blocks))
      /\ \A c \in ToSet(chunks) : Filed(c, ToSet(blocks))
      /\ \A b \in ToSet(blocks) : b.kind = "table" => \E c \in ToSet(chunks) : c.kind = "table" /\ c.text = b.text
  BY <1>1, <1>2, ChunksKeep
<1> HIDE DEF chunks
<1>4. NothingLostOrTwice(doc, chunks)
  <2> DEFINE own == [k \in 1..Len(chunks) |-> Own(chunks[k])]
             said == [i \in 1..Len(doc) |-> IF IsHeading(doc[i]) THEN <<>> ELSE Letters(doc[i].text)]
  <2>1. FlattenSeq(own) = LettersIn(OwnTexts(chunks))
    <3>1. Len(OwnTexts(chunks)) = Len(chunks) /\ \A k \in 1..Len(chunks) : OwnTexts(chunks)[k] = OwnText(chunks[k])
      BY <1>3, OwnTextsAre
    <3>2. \A k \in 1..Len(chunks) : Own(chunks[k]) = Letters(OwnText(chunks[k]))
      BY <1>3, ElementOfSeq, OwnTextIs
    <3>3. own = [k \in 1..Len(OwnTexts(chunks)) |-> Letters(OwnTexts(chunks)[k])]
      BY <3>1, <3>2
    <3> QED
      BY <3>3, Zenon DEF LettersIn
  <2>2. FlattenSeq(said) = LettersIn(DocTexts(doc))
    <3>1. /\ Len(DocTexts(doc)) = Len(doc)
          /\ \A i \in 1..Len(doc) : DocTexts(doc)[i] = IF IsHeading(doc[i]) THEN <<>> ELSE doc[i].text
      BY DocTextsAre
    <3>2. \A i \in 1..Len(doc) : Letters(DocTexts(doc)[i]) = IF IsHeading(doc[i]) THEN <<>> ELSE Letters(doc[i].text)
      BY <3>1, LettersNone
    <3>3. said = [i \in 1..Len(DocTexts(doc)) |-> Letters(DocTexts(doc)[i])]
      BY <3>1, <3>2
    <3> QED
      BY <3>3, Zenon DEF LettersIn
  <2>3. FlattenSeq(own) = FlattenSeq(said)
    BY <1>2, <1>3, <2>1, <2>2
  <2> QED
    BY <2>3, Zenon DEF NothingLostOrTwice
<1>5. SectionsKeptApart(doc, chunks)
  <2> DEFINE at == {i \in 1..Len(doc) : ~IsHeading(doc[i])}
  <2>1. ASSUME NEW c \in ToSet(chunks), c.kind # "table_row", NEW ch \in ToSet(Letters(c.lead \o c.text))
        PROVE  \E i \in at : ch \in ToSet(doc[i].text) /\ PathOf(doc, i) = c.section
    <3>1. PICK b \in ToSet(blocks) : ch \in ToSet(b.text) /\ b.section = c.section
      BY <1>3, <2>1 DEF Filed
    <3> QED
      BY <1>2, <3>1
  <2>2. \A c \in ToSet(chunks) : c.kind \in {"prose", "list"} => Len(c.text) <= Size
    BY <1>3 DEF Filed
  <2>3. ASSUME NEW i \in at, doc[i].kind = "table"
        PROVE  \E c \in ToSet(chunks) : c.kind = "table" /\ c.text = doc[i].text
    <3>1. PICK b \in ToSet(blocks) : b.kind = "table" /\ b.text = doc[i].text
      BY <1>2, <2>3
    <3> QED
      BY <1>3, <3>1
  <2> QED
    BY <2>1, <2>2, <2>3 DEF SectionsKeptApart
<1> QED
  BY <1>4, <1>5 DEF WellChunked, chunks, blocks

-----------------------------------------------------------------------------
\* Over all well-formed inputs: a document's chunks have every word of it
\* once and in order, none has text of two sections, no piece of prose is
\* larger than its size, and every table is whole (parse_structure and
\* chunk_blocks).
THEOREM NothingIsLost ==
    WellFormed => ChunksAreWhole
<1> SUFFICES ASSUME WellFormed, IsInput("document")
             PROVE  WellChunked(input.doc, ChunkBlocks(Blocks(input.doc)))
  BY Zenon DEF ChunksAreWhole
<1>1. IsDocument(input.doc)
  BY Zenon DEF WellFormed
<1> QED
  BY <1>1, DocumentChunked
=============================================================================
