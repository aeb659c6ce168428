---------------------------- MODULE SqlValidator ----------------------------
(***************************************************************************)
(* sql/validator.py: which SELECT runs, and as what.  A statement is its   *)
(* selects, each after those it reads, as traverse_scope lists them, with  *)
(* the body last, and the places of its CTEs; a select its sources, joins, *)
(* the top-level AND terms of its conditions, its projections, each with a *)
(* name of its own, and its limit.  Correlated subqueries, function names  *)
(* and what the parser refuses are left out.                               *)
(***************************************************************************)
EXTENDS Integers, Sequences, FiniteSets, FiniteSetsExt, SequencesExt

CONSTANTS
    Columns,        \* allowed_columns: the columns of each allowed table
    Denied,         \* denied_columns, as <<table, column>>
    JoinKeys,       \* join_keys: sets of two such pairs
    TimeColumns,    \* the time columns of the tables in require_time_filter_on
    Guarded, Flag,  \* QUALITY_GUARDED_TABLE and its quality_flag
    MaxJoins, MaxDepth, DefaultLimit, MaxLimit,
    Rows            \* some rows of each table, for what a statement reads

ASSUME ValidatorAssumption ==
    /\ Guarded \in DOMAIN Columns /\ Flag \in Columns[Guarded]
    /\ \A p \in TimeColumns : p = <<p[1], p[2]>> /\ p[1] \in DOMAIN Columns /\ p[2] \in Columns[p[1]]
    /\ MaxJoins \in Nat /\ MaxDepth \in Nat
    /\ MaxLimit \in Nat /\ DefaultLimit \in 1..MaxLimit
    /\ DOMAIN Rows = DOMAIN Columns
    /\ \A t \in DOMAIN Rows : \A r \in Rows[t] : r.table = t

\* What the validator is made with that a schema gives: SQLValidator.__init__.
Policy == [columns |-> Columns, denied |-> Denied, times |-> TimeColumns]

NoLimit == -1
NotPlain == -2          \* a limit that is no plain integer
NoRef == <<"-", "-">>

\* A source is an alias of a table, or of the select at an earlier place, a
\* CTE's or a derived table's; a table's is at none.
IsTable(x) == x.select = 0

IsDerived(tree, x) == x.select \notin tree.ctes \cup {0}

Sources(s) == {s.from} \cup {j.source : j \in ToSet(s.joins)}

SourceOf(s, alias) == CHOOSE x \in Sources(s) : x.alias = alias

TermsRefs(terms) == (UNION {{t.left, t.right} : t \in terms}) \ {NoRef}

Ons(s) == UNION {j.on : j \in ToSet(s.joins)}

\* The columns a select names, as <<alias, column>>.
Refs(s) == (UNION {p.refs : p \in s.items}) \cup TermsRefs(s.where \cup Ons(s))

\* traverse_scope.
Places(tree) == 1..Len(tree.selects)

Selects(tree) == {tree.selects[k] : k \in Places(tree)}

Body(tree) == tree.selects[Len(tree.selects)]

\* _real_column: the table's column a reference reads, through CTEs and
\* derived tables, exported being what each of those hands on; none when it
\* is computed on the way.  After ten of them the code has none, which only
\* refuses joins.
RealColumn(exported, s, ref) ==
    LET x == SourceOf(s, ref[1])
    IN  IF IsTable(x) THEN {<<x.table, ref[2]>>}
        ELSE {p[2] : p \in {q \in exported[x.select] : q[1] = ref[2]}}

Exports(exported, s) ==
    UNION {UNION {{<<p.as, c>> : c \in RealColumn(exported, s, ref)} : ref \in p.refs} :
              p \in {q \in s.items : q.plain}}

ExportedUpTo(tree) ==
    LET upto[k \in 0..Len(tree.selects)] ==
            IF k = 0 THEN <<>> ELSE Append(upto[k - 1], Exports(upto[k - 1], tree.selects[k]))
    IN  upto

Exported(tree) == ExportedUpTo(tree)[Len(tree.selects)]

-----------------------------------------------------------------------------
(* The checks *)

\* Mutant: a column is looked up by the name before the dot.
MutColumnAllowed(policy, tree, s, ref) ==
    LET x == SourceOf(s, ref[1])
    IN  IF IsTable(x) THEN ref \notin policy.denied /\ ref[2] \in policy.columns[x.table]
        ELSE \E p \in tree.selects[x.select].items : p.as = ref[2]

\* _check_columns, where a scope reads a table itself; qualify refuses a
\* column that a CTE or a derived table does not have.
ColumnAllowed(policy, tree, s, ref) ==
    LET x == SourceOf(s, ref[1])
    IN  IF IsTable(x) THEN <<x.table, ref[2]>> \notin policy.denied /\ ref[2] \in policy.columns[x.table]
        ELSE \E p \in tree.selects[x.select].items : p.as = ref[2]

\* _joins_on_declared_key.
OnDeclaredKey(exported, s, on) ==
    \E t \in on :
        /\ t.op = "eq"
        /\ RealColumn(exported, s, t.left) \cup RealColumn(exported, s, t.right) \in JoinKeys

\* _check_joins and max_joins.
JoinsAllowed(tree) ==
    /\ \A s \in Selects(tree) : \A j \in ToSet(s.joins) : OnDeclaredKey(Exported(tree), s, j.on)
    /\ Cardinality(UNION {{k} \X (1..Len(tree.selects[k].joins)) : k \in Places(tree)}) <= MaxJoins

\* _subquery_depth: a derived table counts for itself and for its select.
Height(tree, heights, s) ==
    Max({0} \cup {2 + heights[x.select] : x \in {y \in Sources(s) : IsDerived(tree, y)}})

HeightsUpTo(tree) ==
    LET upto[k \in 0..Len(tree.selects)] ==
            IF k = 0 THEN <<>> ELSE Append(upto[k - 1], Height(tree, upto[k - 1], tree.selects[k]))
    IN  upto

Depth(tree) ==
    LET heights == HeightsUpTo(tree)[Len(tree.selects)]
    IN  Max({heights[Len(tree.selects)]} \cup {1 + heights[k] : k \in tree.ctes})

\* Mutant: any mention of the time column will do.
MutIsLowerBound(times, t, x) == <<x.table, t.left[2]>> \in times /\ t.left[1] = x.alias

\* _lower_bound: the time column against constants.
IsLowerBound(times, t, x) ==
    t.op = "since" /\ t.left[1] = x.alias /\ <<x.table, t.left[2]>> \in times

\* _check_time_filter: as a term of WHERE or of any ON.
TimesBounded(times, tree) ==
    \A s \in Selects(tree) : \A x \in {y \in Sources(s) : IsTable(y)} :
        (\E p \in times : p[1] = x.table) => \E t \in s.where \cup Ons(s) : IsLowerBound(times, t, x)

Validated(policy, tree) ==
    /\ \A s \in Selects(tree) :
        /\ \A x \in {y \in Sources(s) : IsTable(y)} : x.table \in DOMAIN policy.columns
        /\ \A ref \in Refs(s) : ColumnAllowed(policy, tree, s, ref)
    /\ JoinsAllowed(tree)
    /\ Depth(tree) <= MaxDepth
    /\ TimesBounded(policy.times, tree)
    /\ Body(tree).limit # NotPlain

-----------------------------------------------------------------------------
(* The rewriting *)

Unflagged(x) == [op |-> "unflagged", left |-> <<x.alias, Flag>>, right |-> NoRef]

IsGuarded(x) == IsTable(x) /\ x.table = Guarded

GuardOf(x) == IF IsGuarded(x) THEN {Unflagged(x)} ELSE {}

\* Mutant: a joined table is left as it is.
MutGuardJoin(j) == j

GuardJoin(j) == [j EXCEPT !.on = @ \cup GuardOf(j.source)]

GuardSelect(s) ==
    [s EXCEPT !.where = @ \cup GuardOf(s.from),
              !.joins = [i \in 1..Len(s.joins) |-> GuardJoin(s.joins[i])]]

\* A statement that names the flag asks for the faults themselves.
NamesFlag(tree) == \E s \in Selects(tree) : \E ref \in Refs(s) : ref[2] = Flag

\* _exclude_flagged_readings.
WithGuard(tree) ==
    IF NamesFlag(tree) THEN tree
    ELSE [tree EXCEPT !.selects = [k \in Places(tree) |-> GuardSelect(tree.selects[k])]]

\* _ensure_limit: an aggregate without a limit keeps none.
Limited(s) ==
    [s EXCEPT !.limit =
        IF s.limit > MaxLimit THEN MaxLimit
        ELSE IF s.limit = NoLimit /\ ~s.aggregate THEN DefaultLimit ELSE s.limit]

WithLimit(tree) == [tree EXCEPT !.selects[Len(tree.selects)] = Limited(@)]

\* validate, for a statement it accepts.
Rewritten(tree) == WithLimit(WithGuard(tree))

-----------------------------------------------------------------------------
(* What a statement reads: each column of a source is known by the row it    *)
(* comes from.                                                               *)

NoRow == [table |-> "-", key |-> 0, old |-> FALSE, flagged |-> FALSE]

Holds(t, env) ==
    LET row == env[t.left[1]][t.left[2]]
        other == env[t.right[1]][t.right[2]]
    IN  CASE t.op = "eq" -> row # NoRow /\ other # NoRow /\ row.key = other.key
          [] t.op = "since" -> row # NoRow /\ ~row.old
          [] t.op = "unflagged" -> ~row.flagged
          [] OTHER -> TRUE

ColumnsOf(tree, x) ==
    IF IsTable(x) THEN Columns[x.table] ELSE {p.as : p \in tree.selects[x.select].items}

\* Before anything is joined, and of what no row was found for.
Blank(tree, s) == [a \in {x.alias : x \in Sources(s)} |-> [c \in ColumnsOf(tree, SourceOf(s, a)) |-> NoRow]]

\* returned is what each earlier select does.
SourceRows(returned, x) ==
    IF IsTable(x) THEN {[c \in Columns[x.table] |-> r] : r \in Rows[x.table]} ELSE returned[x.select]

With(env, x, v) == [env EXCEPT ![x.alias] = v]

Fits(env, j, v) == \A t \in j.on : Holds(t, With(env, j.source, v))

\* One more join, of the side it says.
Joined(envs, rows, j, blank) ==
    {With(p[1], j.source, p[2]) : p \in {q \in envs \X rows : Fits(q[1], j, q[2])}}
    \cup (IF j.side \in {"left", "full"} THEN {e \in envs : \A v \in rows : ~Fits(e, j, v)} ELSE {})
    \cup (IF j.side \in {"right", "full"}
          THEN {With(blank, j.source, v) : v \in {w \in rows : \A e \in envs : ~Fits(e, j, w)}}
          ELSE {})

\* FROM, and the joins in order.
JoinedUpTo(tree, returned, s) ==
    LET envs[i \in 0..Len(s.joins)] ==
            IF i = 0 THEN {With(Blank(tree, s), s.from, v) : v \in SourceRows(returned, s.from)}
            ELSE Joined(envs[i - 1], SourceRows(returned, s.joins[i].source), s.joins[i], Blank(tree, s))
    IN  envs

Environments(tree, returned, s) ==
    {env \in JoinedUpTo(tree, returned, s)[Len(s.joins)] : \A t \in s.where : Holds(t, env)}

\* What is computed comes from no row.
Value(env, p) == IF p.plain THEN LET r == CHOOSE q \in p.refs : TRUE IN env[r[1]][r[2]] ELSE NoRow

Line(s, env) == [name \in {p.as : p \in s.items} |-> Value(env, CHOOSE p \in s.items : p.as = name)]

Returned(tree, returned, s) == {Line(s, env) : env \in Environments(tree, returned, s)}

ReturnedUpTo(tree) ==
    LET upto[k \in 0..Len(tree.selects)] ==
            IF k = 0 THEN <<>> ELSE Append(upto[k - 1], Returned(tree, upto[k - 1], tree.selects[k]))
    IN  upto

ReadIn(env) == UNION {{env[a][c] : c \in DOMAIN env[a]} : a \in DOMAIN env}

\* The rows that stand behind a statement's results, at any level of it.
Contributing(tree) ==
    (UNION {UNION {ReadIn(env) : env \in Environments(tree, ReturnedUpTo(tree)[k - 1], tree.selects[k])} :
               k \in Places(tree)}) \ {NoRow}

JoinSides(tree) == UNION {{j.side : j \in ToSet(s.joins)} : s \in Selects(tree)}

-----------------------------------------------------------------------------
(* Properties of one statement *)

\* No column of an accepted statement, followed through CTEs and derived
\* tables to the table it comes from, is a denied one (validate, step 6).
DeniedNeverRead(tree) ==
    Validated(Policy, tree) =>
        \A s \in Selects(tree) : \A ref \in Refs(s) : RealColumn(Exported(tree), s, ref) \cap Denied = {}

FlaggedOut(tree) ==
    ~NamesFlag(tree) => \A r \in Contributing(Rewritten(tree)) : r.table = Guarded => ~r.flagged

\* What an accepted statement without RIGHT and FULL joins reads of the
\* guarded table is not flagged, and without any outer join nothing it reads
\* of a large table is older than its bound: neither nesting nor the place of
\* a condition lets a row past (steps 9 and 10).
GuardedRowsOnly(tree) ==
    Validated(Policy, tree) =>
        /\ JoinSides(tree) \subseteq {"inner", "left"} => FlaggedOut(tree)
        /\ JoinSides(tree) \subseteq {"inner"} =>
            \A r \in Contributing(Rewritten(tree)) : (\E p \in TimeColumns : p[1] = r.table) => ~r.old
=============================================================================
