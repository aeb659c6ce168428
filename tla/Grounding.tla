----------------------------- MODULE Grounding ------------------------------
(***************************************************************************)
(* The code tiers of agent/nodes/groundedness.py: what check makes of an   *)
(* answer and the evidence of its turn.  A sentence is the evidence ids it *)
(* is tagged with, those of citations worded like it, its numbers, and its *)
(* causal phrases and hedges with what stands between them.                *)
(***************************************************************************)
EXTENDS Integers, Sequences, FiniteSets, FiniteSetsExt, SequencesExt

CONSTANTS
    Ids,        \* evidence ids an answer may name
    Tolerance,  \* numeric_tolerance_pct
    Floor       \* ignore_integers_below, in tenths

ASSUME GroundingAssumption == Tolerance \in Nat /\ Floor \in Nat

\* A number as written: its value in tenths and its decimals.
Number == [value : Nat, decimals : {0, 1}]

Word == {"cause", "hedge", "comma", "contrast"}
Sentence == [tags : SUBSET Ids, worded : SUBSET Ids, numbers : SUBSET Number, words : Seq(Word)]

\* The entries that exist, by id; supports: supports_causal_claim.
Entry == [numbers : SUBSET Nat, supports : BOOLEAN]

-----------------------------------------------------------------------------
\* unresolved_citations.
Unresolved(answer, evidence) ==
    (UNION {s.tags \cup s.worded : s \in ToSet(answer)}) \ DOMAIN evidence

\* round(x, 0) of Python, half to even, on tenths.
Rounded(x, decimals) ==
    LET ten == x \div 10
        up == x % 10 > 5 \/ (x % 10 = 5 /\ ten % 2 = 1)
    IN  IF decimals = 1 THEN x ELSE IF up THEN 10 * (ten + 1) ELSE 10 * ten

Gap(x, y) == IF x > y THEN x - y ELSE y - x

\* _traces: equal as written, or close enough.
Traces(n, pool) ==
    \E p \in pool :
        \/ Rounded(p, n.decimals) = Rounded(n.value, n.decimals)
        \/ p # 0 /\ 100 * Gap(n.value, p) <= Tolerance * p

NumbersOf(ids, evidence) == UNION {evidence[i].numbers : i \in ids}

\* Mutant: a number may come from any entry.
MutPoolAnywhere(s, evidence) == NumbersOf(DOMAIN evidence, evidence)

\* The evidence the sentence cites, all of it when it cites none that exists.
Pool(s, evidence) ==
    LET cited == s.tags \cap DOMAIN evidence
    IN  NumbersOf(IF cited = {} THEN DOMAIN evidence ELSE cited, evidence)

Small(n) == n.value % 10 = 0 /\ n.value < Floor

\* untraceable_numbers; noted: the numbers of the question and its notes.
Untraceable(answer, evidence, noted) ==
    UNION {{n \in s.numbers : ~Small(n) /\ ~Traces(n, Pool(s, evidence) \cup noted)} :
               s \in ToSet(answer)}

\* _CLAUSE, as the pattern of the file is: the contrastive words stand
\* between two control characters no answer has, so only punctuation splits.
Boundary == {"comma"}

\* The clauses, each as the positions of its words.
Clauses(words) ==
    LET edges == {0, Len(words) + 1} \cup {i \in 1..Len(words) : words[i] \in Boundary}
    IN  {p[1] + 1..p[2] - 1 : p \in {q \in edges \X edges : q[1] < q[2] /\ edges \cap q[1] + 1..q[2] - 1 = {}}}

Has(words, clause, word) == \E i \in clause : words[i] = word

\* Mutant: one hedged clause excuses the others.
MutExemptAny(words) ==
    \E c \in Clauses(words) : Has(words, c, "cause") /\ Has(words, c, "hedge")

\* Every clause with a causal phrase states a gap.
Exempt(words) ==
    \A c \in Clauses(words) : Has(words, c, "cause") => Has(words, c, "hedge")

\* unsupported_causal_claims.
Unsupported(answer, evidence) ==
    {s \in ToSet(answer) :
        /\ "cause" \in ToSet(s.words)
        /\ ~Exempt(s.words)
        /\ \A i \in (s.tags \cup s.worded) \cap DOMAIN evidence : ~evidence[i].supports}

\* check.
Passed(answer, evidence, noted) ==
    /\ Unresolved(answer, evidence) = {}
    /\ Untraceable(answer, evidence, noted) = {}
    /\ Unsupported(answer, evidence) = {}

-----------------------------------------------------------------------------
(* Properties of one answer *)

OnlyOf(evidence, ids) == [i \in DOMAIN evidence \cap ids |-> evidence[i]]

Between(words, i, j, stops) ==
    \E k \in (i + 1..j - 1) \cup (j + 1..i - 1) : words[k] \in stops

\* A causal phrase with a hedge that no word of stops keeps from it.
Excused(words, stops) ==
    \A i \in 1..Len(words) : words[i] = "cause" =>
        \E j \in 1..Len(words) : words[j] = "hedge" /\ ~Between(words, i, j, stops)

\* An answer that passes stands on what it cites: each sentence with a tag
\* passes beside nothing but its own entries, and a sentence that asserts a
\* cause cites an entry that supports it unless a hedge goes with the cause
\* (check, the promise of tiers 1 to 3).
Backed(answer, evidence, noted, stops) ==
    Passed(answer, evidence, noted) =>
        \A s \in ToSet(answer) :
            /\ s.tags # {} =>
                Untraceable(<<s>>, OnlyOf(evidence, s.tags), noted) = {}
            /\ \/ Excused(s.words, stops)
               \/ \E i \in s.tags \cup s.worded : evidence[i].supports
=============================================================================
