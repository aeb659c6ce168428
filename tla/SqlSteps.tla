------------------------------ MODULE SqlSteps ------------------------------
(***************************************************************************)
(* The SQL tool's functions, each over its own inputs: what a statement, a *)
(* schema and a lookup are, and the properties of each.                    *)
(***************************************************************************)
EXTENDS SqlTool, Inputs

\* A select as it is parsed and qualified: its aliases are different, every
\* column names one of them, a plain projection is a single column, and a
\* source that is no table is at an earlier place.
SelectAt(k, s) ==
    /\ s = [items |-> s.items, from |-> s.from, joins |-> s.joins, where |-> s.where,
            limit |-> s.limit, aggregate |-> s.aggregate]
    /\ s.joins \in Seq(ToSet(s.joins))
    /\ \A j \in ToSet(s.joins) : j = [side |-> j.side, source |-> j.source, on |-> j.on]
    /\ \A i \in 1..Len(s.joins) :
        /\ s.joins[i].source.alias # s.from.alias
        /\ \A l \in 1..i - 1 : s.joins[l].source.alias # s.joins[i].source.alias
    /\ \A x \in Sources(s) : x.select \in 0..k - 1
    /\ \A ref \in Refs(s) : \E x \in Sources(s) : x.alias = ref[1]
    /\ \A p \in s.items : p.plain => \E ref \in Refs(s) : p.refs = {ref}
    /\ s.limit \in Nat \cup {NoLimit, NotPlain} /\ s.aggregate \in BOOLEAN

Statement(tree) ==
    /\ tree = [selects |-> tree.selects, ctes |-> tree.ctes]
    /\ tree.selects \in Seq(Selects(tree)) /\ tree.selects # <<>>
    /\ tree.ctes \subseteq Places(tree)
    /\ \A k \in Places(tree) : SelectAt(k, tree.selects[k])

\* What a person has denied leaves the columns of the time conditions.
StatementsWellFormed ==
    /\ IsInput("sql") => Statement(input.tree)
    /\ IsInput("schema") => input.curated.denied \cap TimeColumns = {}
    /\ IsInput("lookup") => Statement(input.tree) /\ input.db.size \in Nat

\* DeniedNeverRead and GuardedRowsOnly, of every statement, OfferedIsAccepted,
\* of every schema, and ToolIsBounded, of every lookup: no way round the
\* checks through aliases, CTEs and derived tables, none offered by what the
\* plan is shown, and none to more than the limit.
StatementsAreSafe ==
    /\ IsInput("sql") => DeniedNeverRead(input.tree) /\ GuardedRowsOnly(input.tree)
    /\ IsInput("schema") => OfferedIsAccepted(input.first, input.second, input.curated)
    /\ IsInput("lookup") => ToolIsBounded(input.tree, input.db)
=============================================================================
