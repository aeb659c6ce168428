------------------------------ MODULE Orders --------------------------------
(***************************************************************************)
(* Sorting and picking, by places: what comes k-th has k - 1 before it.    *)
(***************************************************************************)
EXTENDS Integers, Sequences, FiniteSets, FiniteSetsExt, SequencesExt

\* sorted: the members of S, the first first; before: who is before whom.
Ordered(S, before) ==
    [k \in 1..Cardinality(S) |-> CHOOSE x \in S : Cardinality({y \in S : <<y, x>> \in before}) = k - 1]

\* sorted(..., reverse=True): by the keys, equals in the order they came.
Descending(s, key) ==
    LET before == {p \in (1..Len(s)) \X (1..Len(s)) :
                      key[p[1]] > key[p[2]] \/ (key[p[1]] = key[p[2]] /\ p[1] < p[2])}
        order == Ordered(1..Len(s), before)
    IN  [k \in 1..Len(s) |-> s[order[k]]]

\* [c for c in s if c in S].
Kept(s, S) ==
    LET at == {i \in 1..Len(s) : s[i] \in S}
        order == Ordered(at, {p \in at \X at : p[1] < p[2]})
    IN  [k \in 1..Cardinality(at) |-> s[order[k]]]

FirstOf(s, k) == SubSeq(s, 1, Min({k, Len(s)}))

Position(s, c) == CHOOSE i \in 1..Len(s) : s[i] = c
=============================================================================
