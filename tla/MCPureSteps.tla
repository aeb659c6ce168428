---------------------------- MODULE MCPureSteps -----------------------------
(***************************************************************************)
(* The inputs of PureSteps and of SqlSteps, small ones of each kind.       *)
(***************************************************************************)
EXTENDS PureSteps, SqlSteps

-----------------------------------------------------------------------------
(* SomeAnswer: one sentence with words, or two with numbers *)

Said(tags, worded, numbers, words) ==
    [tags |-> tags, worded |-> worded, numbers |-> numbers, words |-> words]

SomeEvidence ==
    {[i \in {1, 2} |-> [numbers |-> IF i = 1 THEN {364} ELSE {120, 55}, supports |-> i \in yes]] :
        yes \in SUBSET {1, 2}}
    \cup {[i \in {1} |-> [numbers |-> {364}, supports |-> FALSE]]}

SomeNumbers == {{}} \cup {{[value |-> p[1], decimals |-> p[2]]} :
                    p \in {<<360, 0>>, <<364, 1>>, <<365, 1>>, <<120, 0>>, <<60, 0>>, <<770, 0>>}}

SomeAnswer ==
    \E evidence \in SomeEvidence :
        \/ \E words \in UNION {[1..n -> Word] : n \in 1..4}, tags \in {{}, {1}, {2}}, worded \in {{}, {1}} :
            input' = [of |-> "answer", evidence |-> evidence,
                     answer |-> <<Said(tags, worded, {}, words)>>]
        \/ \E t1, t2 \in SUBSET {1, 2, 3}, n1, n2 \in SomeNumbers :
            input' = [of |-> "answer", evidence |-> evidence,
                     answer |-> <<Said(t1, {}, n1, <<>>), Said(t2, {}, n2, <<>>)>>]

-----------------------------------------------------------------------------
(* SomeSearch *)

Rankings == UNION {{s \in [1..n -> 1..3] : IsInjective(s)} : n \in 0..3}

SomeSearch ==
    \E dense, sparse \in Rankings, named \in {{}, {1}, {1, 2}},
       length \in {<<1, 2, 3>>, <<2, 1, 1>>}, model \in [1..3 -> {28, 31}] :
        input' = [of |-> "search", dense |-> dense, sparse |-> sparse, named |-> named,
                 length |-> length, model |-> model]

-----------------------------------------------------------------------------
(* Documents: letters tell where a text comes from *)

MCBreak == 0
MCSpace == 1
MCKeyShaped == {7, 8}

Text(i, shape) == [k \in 1..Len(shape) |-> IF shape[k] = 9 THEN 10 * i + k ELSE shape[k]]

Element(i, what) ==
    CASE what \in 1..3 -> [kind |-> "heading", level |-> IF what = 1 THEN 1 ELSE 2, name |-> what]
      [] what = 4 -> [kind |-> "paragraph", text |-> Text(i, <<9, 1, 9>>), keys |-> <<>>]
      [] what = 5 -> [kind |-> "paragraph", text |-> Text(i, <<9, 9, 1, 9, 9, 9, 0, 9, 1>>), keys |-> <<>>]
      [] what = 6 -> [kind |-> "list", text |-> Text(i, <<9, 9, 9, 9, 9, 9>>), keys |-> <<>>]
      [] what = 7 -> [kind |-> "table", text |-> Text(i, <<9, 1, 9, 1, 9, 9>>), keys |-> <<7, 8>>]

SomeDocument ==
    \E whats \in UNION {[1..n -> 1..7] : n \in 1..4} :
        input' = [of |-> "document", doc |-> [i \in 1..Len(whats) |-> Element(i, whats[i])]]

-----------------------------------------------------------------------------
(* Ids *)

VIN == <<20, 21, 22>>
KnownIds == {Id(VIN, <<1, 0, 4, 2>>), Id(VIN, <<1, 0, 4, 3>>), Id(VIN, <<1, 0, 4>>), Id(VIN, <<0, 1, 0, 4>>),
             Id(VIN, <<4, 2>>), Id(<<20>>, <<4, 2>>), Id(VIN, <<0, 4, 2>>)}
TypedIds == KnownIds \cup {Id(<<>>, k.digits) : k \in KnownIds} \cup {Id(<<>>, <<>>), Id(VIN, <<1, 0, 4, 2, 3>>),
             Id(<<20, 22>>, <<1, 0, 4, 2>>), Id(VIN, <<1, 4, 2>>)}

SomeId ==
    \E raw \in TypedIds, known \in {S \in SUBSET KnownIds : Cardinality(S) <= 4} :
        \E near \in {SetToSeq(known), Reverse(SetToSeq(known))} :
            input' = [of |-> "id", raw |-> raw, known |-> known, near |-> near]

-----------------------------------------------------------------------------
(* SomeCall of the document search *)

K1 == Id(VIN, <<1, 0, 4, 2>>)
K2 == Id(VIN, <<1, 0, 4, 3>>)
Named == {<<Vehicle(K1), 1>>, <<Vehicle(K2), 2>>, <<Model, 3>>}

SomeCall ==
    \E domain, worded, fits \in BOOLEAN, entity \in {NoBoost, Model} \cup {Vehicle(k) : k \in TypedIds},
       near \in {<<>>, <<K1>>, <<K2, K1>>}, model \in [1..3 -> {28, 31}],
       dense \in {<<>>, <<1, 2, 3>>, <<3, 2>>}, sparse \in {<<>>, <<2, 1>>} :
        input' = [of |-> "call", call |-> [domain |-> domain, worded |-> worded, entity |-> entity],
                  near |-> near,
                  corpus |-> [dense |-> dense, sparse |-> sparse, about |-> Named, length |-> <<1, 2, 3>>,
                              model |-> model, fits |-> fits]]

-----------------------------------------------------------------------------
(* SomeDay, and calls of one client *)

MCMonths == <<31, 29, 31, 30, 31, 30, 31, 31, 30, 31, 30, 31,
              31, 28, 31, 30, 31, 30, 31, 31, 30, 31, 30, 31, 31, 28, 31>>

SomeDay ==
    \/ \E month \in 9..24, k \in {0, 1, 13, 27}, rolling \in BOOLEAN, weekStart \in {0, 6}, yearStart \in {1, 2, 4} :
        input' = [of |-> "day", day |-> StartOf[month] + k,
                 cfg |-> [rolling |-> rolling, weekStart |-> weekStart, yearStart |-> yearStart]]
    \/ \E times \in [1..5 -> 0..6] :
        /\ \A i \in 1..4 : times[i] <= times[i + 1]
        /\ input' = [of |-> "calls", times |-> times]

-----------------------------------------------------------------------------
(* Turns: one lap or two, one draft or two, up to any node *)

Lap(n) == <<[node |-> "plan", iteration |-> n - 1], [node |-> "execute", iteration |-> n],
            [node |-> "observe", iteration |-> n], [node |-> "reflect", iteration |-> n]>>
Drafted(n) == <<[node |-> "synthesize", iteration |-> n], [node |-> "grounding", iteration |-> n]>>
WholeTurns ==
    {<<[node |-> "router", iteration |-> 0]>> \o Lap(1) \o (IF laps = 2 THEN Lap(2) ELSE <<>>)
        \o Drafted(laps) \o (IF drafts = 2 THEN Drafted(laps) ELSE <<>>) : laps, drafts \in 1..2}

\* Only the check of the draft has no guard.
SomeTurn ==
    \E turn \in WholeTurns : \E n, k \in 1..Len(turn), calls \in 0..2,
       end \in {"ok", "fellback", "error", "cut"}, stop \in {"complete", "exhausted", "cap_reached"},
       passed \in BOOLEAN, limit \in BOOLEAN :
        /\ end \in {"cut", "error"} => k = n
        /\ k <= n /\ (end \in {"ok", "fellback"} => n = Len(turn))
        /\ (end = "error") => turn[n].node = "grounding"
        /\ (end = "fellback") => turn[k].node # "grounding"
        /\ input' = [of |-> "turn", runs |-> [i \in 1..n |->
                        [node |-> turn[i].node, iteration |-> turn[i].iteration,
                         calls |-> IF i = k THEN calls ELSE i % 2, end |-> IF i = k THEN end ELSE "ok"]],
                     stop |-> stop, limit |-> limit,
                     grounded |-> IF end \in {"cut", "error"} THEN "none" ELSE IF passed THEN "passed" ELSE "failed"]

-----------------------------------------------------------------------------
(* Statements *)

MCColumns == [vehicles |-> {"id"}, telemetry |-> {"id", "at", "value", "flag"},
              documents |-> {"doc"}, chunks |-> {"doc", "vec"}]
MCDenied == {<<"chunks", "vec">>}
MCJoinKeys == {{<<"vehicles", "id">>, <<"telemetry", "id">>}, {<<"documents", "doc">>, <<"chunks", "doc">>}}
MCTimeColumns == {<<"telemetry", "at">>}
Row(table, key, old, flagged) == [table |-> table, key |-> key, old |-> old, flagged |-> flagged]
MCRows == [vehicles |-> {Row("vehicles", 1, FALSE, FALSE), Row("vehicles", 2, FALSE, FALSE)},
           telemetry |-> {Row("telemetry", 1, FALSE, FALSE), Row("telemetry", 1, FALSE, TRUE),
                          Row("telemetry", 2, TRUE, FALSE), Row("telemetry", 3, FALSE, TRUE)},
           documents |-> {Row("documents", 1, FALSE, FALSE)},
           chunks |-> {Row("chunks", 1, FALSE, FALSE), Row("chunks", 2, FALSE, FALSE)}]

Table(alias, table) == [alias |-> alias, table |-> table, select |-> 0]
Plain(as, ref) == [as |-> as, refs |-> {ref}, plain |-> TRUE]
Computed(as, ref) == [as |-> as, refs |-> {ref}, plain |-> FALSE]
Term(op, left, right) == [op |-> op, left |-> left, right |-> right]
Same(left, right) == Term("eq", left, right)
Since(alias) == Term("since", <<alias, "at">>, NoRef)
Mention(alias) == Term("mention", <<alias, "at">>, NoRef)
Select(items, from, joins, where, limit) ==
    [items |-> items, from |-> from, joins |-> joins, where |-> where, limit |-> limit,
     aggregate |-> \E p \in items : ~p.plain]

T == Table("t", "telemetry")
V == Table("v", "vehicles")
Sides == {"inner", "left", "right", "full"}

Telemetry(limits) ==
    {Select(items, IF first THEN T ELSE V,
            <<[side |-> side, source |-> IF first THEN V ELSE T, on |-> on]>>, where, limit) :
        items \in {{Plain("id", <<"v", "id">>), Plain("x", <<"t", "value">>)}, {Computed("id", <<"t", "value">>)},
                   {Plain("id", <<"t", "id">>), Plain("x", <<"t", "flag">>)}},
        first \in BOOLEAN, side \in Sides,
        on \in {{Same(<<"v", "id">>, <<"t", "id">>)} \cup more : more \in {{}, {Since("t")}}} \cup {{Since("t")}},
        where \in SUBSET {Since("t"), Mention("t")}, limit \in limits}
    \cup {Select({Plain("id", <<"t", "id">>)}, T, <<>>, where, limit) :
            where \in SUBSET {Since("t"), Mention("t")}, limit \in limits}

Documents ==
    {Select(items, Table("documents", "chunks"), joins, {}, NoLimit) :
        items \in {{Plain("id", <<"documents", "doc">>)}, {Plain("id", <<"documents", "vec">>)},
                   {Computed("id", <<"documents", "vec">>)}, {Plain("id", <<"documents", "gone">>)}},
        joins \in {<<>>, <<[side |-> "inner", source |-> Table("d", "documents"),
                            on |-> {Same(<<"documents", "doc">>, <<"d", "doc">>)}]>>}}

Simple == Telemetry({NoLimit, NotPlain, 10, 5000}) \cup Documents

One(s) == [selects |-> <<s>>, ctes |-> {}]

\* A select over another, as a CTE or in FROM, alone or beside a table.
Over(inner, kind, side) ==
    LET joins == IF side = "none" THEN <<>>
                 ELSE <<[side |-> side, source |-> Table("w", "vehicles"),
                         on |-> {Same(<<"x", "id">>, <<"w", "id">>)}]>>
    IN  [selects |-> <<inner, Select({Plain("id", <<"x", "id">>)}, [alias |-> "x", table |-> "-", select |-> 1],
                                     joins, {}, NoLimit)>>,
         ctes |-> IF kind = "cte" THEN {1} ELSE {}]

SomeStatement ==
    \/ \E s \in Simple : input' = [of |-> "sql", tree |-> One(s)]
    \/ \E s \in Telemetry({NoLimit}) \cup Documents, kind \in {"cte", "sub"}, side \in {"none", "inner", "right"} :
        input' = [of |-> "sql", tree |-> Over(s, kind, side)]

-----------------------------------------------------------------------------
(* Schemas as the database had them once, and lookups *)

Structure(telemetry, chunks) ==
    [t \in {x \in {"vehicles", "telemetry", "chunks"} :
               (x = "telemetry" => telemetry # {}) /\ (x = "chunks" => chunks # {})} |->
        [c \in CASE t = "vehicles" -> {"id"} [] t = "telemetry" -> telemetry [] t = "chunks" -> chunks |-> FALSE]]

Structures == {Structure(telemetry, chunks) :
                  telemetry \in SUBSET {"id", "at", "value"}, chunks \in {{}, {"doc"}, {"doc", "vec"}}}

Described == [t \in {"vehicles", "telemetry", "chunks"} |->
                 [c \in CASE t = "vehicles" -> {"id"} [] t = "telemetry" -> {"id", "at", "value"}
                          [] t = "chunks" -> {"doc", "vec"} |-> c # "id"]]

SomeSchema ==
    \E first, second \in Structures, denied \in {MCDenied, {<<"telemetry", "value">>}} :
        input' = [of |-> "schema",
                  first |-> [tables |-> first, denied |-> {}, keys |-> {}],
                  second |-> [tables |-> second, denied |-> {}, keys |-> {}],
                  curated |-> [tables |-> Described, denied |-> denied, keys |-> MCJoinKeys]]

SomeLookup ==
    \E items \in {{Plain("id", <<"t", "id">>)}, {Computed("id", <<"t", "value">>)}}, where \in {{}, {Since("t")}},
       limit \in {NoLimit, NotPlain, 0, 10, 5000}, explain \in {"ok", "error"}, cost \in {10, 30},
       runs \in {"ok", "canceled"}, size \in {0, 5, 200, 2000} :
        input' = [of |-> "lookup", tree |-> One(Select(items, T, <<>>, where, limit)),
                  db |-> [explain |-> explain, cost |-> cost, runs |-> runs, size |-> size]]

-----------------------------------------------------------------------------
(* Turns as they are judged *)

MCMarkers == {"unable"}
Sql(args) == [tool |-> "structured_query_tool", args |-> args]
Rag(args) == [tool |-> "rag_retrieval_tool", args |-> args]
Found(tool, status) == [tool |-> tool, status |-> status]

Turn(domains, type, vehicle, calls, evidence, stop, grounded, says, numbers, cited, nodeErrors) ==
    [domains |-> domains, type |-> type, vehicle |-> vehicle, calls |-> calls, evidence |-> evidence,
     iterations |-> 1, stop |-> stop, partial |-> stop # "complete", grounded |-> grounded,
     says |-> says, numbers |-> numbers, cited |-> cited, nodeErrors |-> nodeErrors]

Domains == (SUBSET {"diagnostic", "business"}) \ {{}}

\* What was planned, and what came of it before the turn ended.
Works == {<<<<>>, <<>>>>, <<<<Sql({})>>, <<>>>>,
          <<<<Sql({}), Rag({})>>, <<Found("rag_retrieval_tool", "below_threshold")>>>>}
         \cup {<<<<Sql({})>>, <<Found("structured_query_tool", s)>>>> : s \in {"ok", "empty", "failed"}}
         \cup {<<<<Sql({}), Rag({})>>, <<Found("structured_query_tool", s), Found("rag_retrieval_tool", r)>>>> :
                   s \in {"ok", "failed"}, r \in {"ok", "empty", "below_threshold"}}

SomeTriage ==
    \E domains \in Domains, type \in {"lookup", "causal"}, vehicle \in {NoVehicle, "V1"}, work \in Works,
       stop \in {"complete", "exhausted", "cap_reached", "timeout"}, grounded \in {"none", "passed", "failed"},
       errors \in {{}, {"router"}, {"plan"}}, latency \in {10, 30} :
        input' = [of |-> "triage", latency |-> latency,
                  turn |-> Turn(domains, type, vehicle, work[1], work[2], stop, grounded, {}, {}, {1}, errors)]

Maybe(key, values) == {<<>>} \cup {key :> v : v \in values}

SomeReview ==
    \E domains \in Domains, vehicle \in {NoVehicle, "V1"}, says \in SUBSET {"a", "b", "unable"},
       stop \in {"complete", "exhausted"},
       d \in Maybe("domains", Domains), v \in Maybe("vehicle_id", {"V1", "V2", "not_found"}),
       m \in Maybe("must_contain", {{{"a"}}, {{"a"}, {"b"}}}), n \in Maybe("must_not_contain", {{"b"}}),
       a \in Maybe("abstain", {TRUE}) :
        input' = [of |-> "review", review |-> d @@ v @@ m @@ n @@ a,
                  turn |-> Turn(domains, "causal", vehicle, <<>>, <<>>, stop, "passed", says, {}, {}, {})]

SomeSpecs ==
    \E one, two \in {Sql(a) : a \in SUBSET {"x", "y"}} \cup {Rag({"x"})},
       tool \in {AnyTool, "structured_query_tool"}, contains \in SUBSET {"x", "y"},
       numbers \in SUBSET {-38, 37, 2}, value \in {38, -38, 0}, tolerance \in 0..2 :
        input' = [of |-> "specs", specs |-> {[tool |-> tool, contains |-> contains]},
                  fact |-> [value |-> value, tolerance |-> tolerance],
                  turn |-> Turn({}, "causal", NoVehicle, <<one, two>>, <<>>, "complete", "passed", {}, numbers, {}, {})]

\* Results of two runs of three or four cases, one of them a trap.
SourceOfCase == <<"synthetic", "promoted", "trap", "synthetic">>
Fates == {[status |-> "ok", pass |-> TRUE], [status |-> "ok", pass |-> FALSE], [status |-> "infra", pass |-> TRUE],
          [status |-> "missing", pass |-> FALSE]}
Results(fates) ==
    {[id |-> i, source |-> SourceOfCase[i], status |-> fates[i].status, pass |-> fates[i].pass] :
        i \in {j \in DOMAIN fates : fates[j].status # "missing"}}

SomeReport ==
    \E now \in [1..4 -> Fates], before \in [1..3 -> Fates], stopped \in BOOLEAN :
        input' = [of |-> "report", results |-> Results(now), previous |-> Results(before),
                  cases |-> 1..4, stopped |-> stopped]

-----------------------------------------------------------------------------
Families ==
    {"answer", "search", "call", "document", "id", "day", "turn", "sql", "schema", "lookup",
     "triage", "review", "specs", "report"}

Init == input \in [of : {"family"}, family : Families]

\* An input of the family is looked at, and that is all.
Family(f) == input.of = "family" /\ input.family = f

Next ==
    \/ Family("answer") /\ SomeAnswer
    \/ Family("search") /\ SomeSearch
    \/ Family("call") /\ SomeCall
    \/ Family("document") /\ SomeDocument
    \/ Family("id") /\ SomeId
    \/ Family("day") /\ SomeDay
    \/ Family("turn") /\ SomeTurn
    \/ Family("sql") /\ SomeStatement
    \/ Family("schema") /\ SomeSchema
    \/ Family("lookup") /\ SomeLookup
    \/ Family("triage") /\ SomeTriage
    \/ Family("review") /\ SomeReview
    \/ Family("specs") /\ SomeSpecs
    \/ Family("report") /\ SomeReport

Spec == Init /\ [][Next]_input
=============================================================================
