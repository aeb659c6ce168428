------------------------------- MODULE SqlTool -------------------------------
(***************************************************************************)
(* What stands before and after the validator: the schema that plans are   *)
(* written against (sql/schema_loader.py), and the tool that runs what the *)
(* validator lets through (mcp_server/tools/structured_query.py).          *)
(***************************************************************************)
EXTENDS SqlValidator

CONSTANTS
    Hidden,             \* HIDDEN_FROM_PLAN
    CostBudget          \* explain_cost_budget and explain_max_rows, alike

\* A schema: of each table and column whether a person described it, the
\* columns no plan may read, and the keys to join on.

\* Mutant: the policy is the database's, which knows none.
MutMerge(generated, curated) ==
    [tables |-> [t \in DOMAIN generated.tables |-> [c \in DOMAIN generated.tables[t] |->
                    t \in DOMAIN curated.tables /\ c \in DOMAIN curated.tables[t] /\ curated.tables[t][c]]],
     denied |-> generated.denied, keys |-> generated.keys]

\* merge: structure from what is generated; meaning, where table and column
\* are still there, and policy from what was curated.
Merge(generated, curated) ==
    [tables |-> [t \in DOMAIN generated.tables |-> [c \in DOMAIN generated.tables[t] |->
                    t \in DOMAIN curated.tables /\ c \in DOMAIN curated.tables[t] /\ curated.tables[t][c]]],
     denied |-> curated.denied, keys |-> curated.keys]

\* The columns it says nobody has described.
Undocumented(schema) ==
    {p \in UNION {{t} \X DOMAIN schema.tables[t] : t \in DOMAIN schema.tables} : ~schema.tables[p[1]][p[2]]}

\* to_prompt_block.
Offered(schema) ==
    (UNION {{t} \X DOMAIN schema.tables[t] : t \in DOMAIN schema.tables \ Hidden}) \ schema.denied

\* What the validator is made with, of this schema.
ColumnsIn(schema) == [t \in DOMAIN schema.tables |-> DOMAIN schema.tables[t]]

TimesIn(schema) == {p \in TimeColumns : p[1] \in DOMAIN schema.tables /\ p[2] \in DOMAIN schema.tables[p[1]]}

PolicyOf(schema) == [columns |-> ColumnsIn(schema), denied |-> schema.denied, times |-> TimesIn(schema)]

-----------------------------------------------------------------------------
(* The tool *)

\* A database: what EXPLAIN says and what running comes to, the rows it has
\* for the statement without its limit.
Gate(db) == db.explain # "error" /\ db.cost <= CostBudget

Answer(status, rows, ran) == [status |-> status, rows |-> rows, ran |-> ran]

\* Mutant: everything is fetched.
MutFetched(n) == n

\* fetchmany.
Fetched(n) == Min({n, MaxLimit})

\* _run: checked, priced, and run; a statement that times out or fails in the
\* database goes back as it is.
RunQuery(tree, db) ==
    IF ~Validated(Policy, tree) THEN Answer("rejected", 0, FALSE)
    ELSE IF ~Gate(db) THEN Answer("rejected", 0, FALSE)
    ELSE IF db.runs # "ok" THEN Answer("failed", 0, TRUE)
    ELSE LET limit == Body(Rewritten(tree)).limit
             rows == Fetched(IF limit = NoLimit THEN db.size ELSE Min({limit, db.size}))
         IN  Answer(IF rows = 0 THEN "empty" ELSE "ok", rows, TRUE)

-----------------------------------------------------------------------------
(* Properties *)

\* A plain read of one column, bounded where its table asks for it.
ReadOf(t, c, times) ==
    [ctes |-> {},
     selects |-> <<[items |-> {[as |-> c, refs |-> {<<t, c>>}, plain |-> TRUE]},
                    from |-> [alias |-> t, table |-> t, select |-> 0], joins |-> <<>>,
                    where |-> {[op |-> "since", left |-> <<t, p[2]>>, right |-> NoRef] :
                                  p \in {q \in times : q[1] = t}},
                    limit |-> NoLimit, aggregate |-> FALSE]>>]

\* However often the database changes and its structure is read again, the
\* plan is offered what is in the database, nothing that was denied, and
\* nothing that the validator of the same schema then refuses; reading it
\* once more changes nothing, and a column that was away comes back without
\* its old meaning.
OfferedIsAccepted(first, second, curated) ==
    LET once == Merge(first, curated)
        schema == Merge(second, once)
    IN  /\ Offered(schema) \cap curated.denied = {}
        /\ \A p \in Offered(schema) :
            Validated(PolicyOf(schema), ReadOf(p[1], p[2], TimesIn(schema)))
        /\ \A t \in DOMAIN second.tables \ Hidden : \A c \in DOMAIN second.tables[t] :
            <<t, c>> \in Offered(schema) \cup curated.denied
        /\ Merge(second, schema) = schema
        /\ \A t \in DOMAIN second.tables : \A c \in DOMAIN second.tables[t] :
            (t \notin DOMAIN first.tables \/ c \notin DOMAIN first.tables[t]) => <<t, c>> \in Undocumented(schema)

\* Never more rows than the limit, an aggregate with none of its own included;
\* nothing refused by either check is run; and the tool says "empty" only of
\* what is, or when the statement asks for no rows.
ToolIsBounded(tree, db) ==
    LET answer == RunQuery(tree, db)
    IN  /\ answer.rows <= MaxLimit
        /\ answer.ran => Validated(Policy, tree) /\ db.cost <= CostBudget
        /\ answer.status = "empty" => db.size = 0 \/ Body(tree).limit = 0
=============================================================================
