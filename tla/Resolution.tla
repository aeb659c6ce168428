----------------------------- MODULE Resolution -----------------------------
(***************************************************************************)
(* rag/entity_resolution.py: which vehicle a typed id means, of those that *)
(* the database offers.  An id is its letters and its digits; what is typed may lack the *)
(* letters or have other zeros in front.  Case and separators, which _norm *)
(* drops, are left out.                                                    *)
(***************************************************************************)
EXTENDS Orders

CONSTANTS
    AutoAccept, Disambiguate,   \* auto_accept_score, disambiguate_score
    MaxSuggestions,
    MaxCandidates               \* max_candidates

ASSUME ResolutionAssumption ==
    /\ AutoAccept \in 0..100 /\ Disambiguate \in 0..AutoAccept
    /\ {MaxSuggestions, MaxCandidates} \subseteq Nat \ {0}

\* Letters are numbers above the digits.
Id(letters, digits) == [letters |-> letters, digits |-> digits]

\* Leading zeros are padding.
Unpadded(digits) ==
    LET first == {i \in 1..Len(digits) : digits[i] # 0 \/ i = Len(digits)}
    IN  IF digits = <<>> THEN <<>> ELSE SubSeq(digits, Min(first), Len(digits))

\* _norm and _digits.
Norm(id) == id.letters \o Unpadded(id.digits)

\* The longest common subsequence, of which fuzz.ratio is made.
Common(a, b) ==
    LET lcs[p \in (0..Len(a)) \X (0..Len(b))] ==
            IF p[1] = 0 \/ p[2] = 0 THEN 0
            ELSE IF a[p[1]] = b[p[2]] THEN lcs[<<p[1] - 1, p[2] - 1>>] + 1
            ELSE Max({lcs[<<p[1] - 1, p[2]>>], lcs[<<p[1], p[2] - 1>>]})
    IN  lcs[<<Len(a), Len(b)>>]

\* fuzz.ratio(q, norm) >= score, in percent.
Alike(raw, id, score) ==
    200 * Common(Norm(raw), Norm(id)) >= score * (Len(Norm(raw)) + Len(Norm(id)))

Closer(raw, a, b) ==
    Common(Norm(raw), Norm(a)) * (Len(Norm(raw)) + Len(Norm(b))) >
        Common(Norm(raw), Norm(b)) * (Len(Norm(raw)) + Len(Norm(a)))

\* Ids as the database sorts them: by the first letter they differ in, and
\* what another begins with before it.
Sooner(s, t) ==
    \E n \in 0..Len(s) :
        /\ n < Len(t) /\ \A i \in 1..n : s[i] = t[i]
        /\ n = Len(s) \/ s[n + 1] < t[n + 1]

Name(id) == id.letters \o id.digits

\* sorted(exact), and scored: by name, or the closest first and then by name.
ByName(S) == {p \in S \X S : Sooner(Name(p[1]), Name(p[2]))}

ByScore(raw, S) ==
    {p \in S \X S : \/ Closer(raw, p[1], p[2])
                     \/ (~Closer(raw, p[2], p[1]) /\ Sooner(Name(p[1]), Name(p[2])))}

Result(status, options) == [status |-> status, options |-> options]

\* Exact after normalisation; a bare number by its digits alone.
Exact(raw, known) ==
    LET same == {k \in known : Norm(k) = Norm(raw)}
    IN  IF same # {} \/ raw.letters # <<>> THEN same
        ELSE {k \in known : Unpadded(k.digits) = Unpadded(raw.digits)}

\* Mutant: the best of several strong matches is taken.
MutPicksFuzzy(strong) == strong # {}

\* One strong match, and only one.
PicksFuzzy(strong) == Cardinality(strong) = 1

\* resolve_against.
Resolve(raw, known) ==
    LET exact == Exact(raw, known)
        strong == {k \in known : Alike(raw, k, AutoAccept)}
        close == {k \in known : Alike(raw, k, Disambiguate)}
    IN  IF Norm(raw) = <<>> THEN Result("not_found", <<>>)
        ELSE IF Cardinality(exact) = 1 THEN Result("exact", Ordered(exact, ByName(exact)))
        ELSE IF exact # {} THEN Result("ambiguous", FirstOf(Ordered(exact, ByName(exact)), MaxSuggestions))
        ELSE IF PicksFuzzy(strong) THEN Result("fuzzy", <<Ordered(strong, ByScore(raw, strong))[1]>>)
        ELSE IF close # {} THEN Result("ambiguous", FirstOf(Ordered(close, ByScore(raw, close)), MaxSuggestions))
        ELSE Result("not_found", <<>>)

-----------------------------------------------------------------------------
(* The candidates *)

\* Mutant: the limit cuts before what is typed comes first.
MutCandidateIds(raw, near) ==
    LET first == FirstOf(near, MaxCandidates)
    IN  Kept(first, {raw}) \o Kept(first, ToSet(first) \ {raw})

\* _CANDIDATES_SQL; near: what the prefilter lets through, the most similar
\* first.  The id as typed goes before all of it, then the limit cuts.
CandidateIds(raw, near) ==
    FirstOf(Kept(near, {raw}) \o Kept(near, ToSet(near) \ {raw}), MaxCandidates)

\* resolve_vehicle_id.
ResolveVehicle(raw, near) == Resolve(raw, ToSet(CandidateIds(raw, near)))

-----------------------------------------------------------------------------
(* Properties of one resolution *)

Chosen(r) == r.status \in {"exact", "fuzzy"}

\* A vehicle is only chosen when nobody else is meant as well: no other known
\* id reads the same, none comes near enough to be chosen itself.  When it
\* asks or assumes, the closest known id is among what it shows, and it says
\* that a vehicle does not exist only when no known one reads like it (a
\* guess between several "is inventing a fact").
AsksRatherThanGuesses(raw, known) ==
    LET r == Resolve(raw, known)
    IN  /\ ToSet(r.options) \subseteq known
        /\ Chosen(r) => \A k \in known \ ToSet(r.options) :
            Norm(k) # Norm(r.options[1]) /\ (r.status = "fuzzy" => ~Alike(raw, k, AutoAccept))
        /\ r.status # "exact" /\ r.options # <<>> =>
            \/ \A k \in known : ~Closer(raw, k, r.options[1])
            \/ \A i \in 1..Len(r.options) : Unpadded(r.options[i].digits) = Unpadded(raw.digits)
        /\ r.status = "not_found" => \A k \in known : Norm(k) # Norm(raw)

\* However many ids are more similar, one that is typed as it stands is
\* among what is chosen or shown ("which can drop the exact match itself"),
\* unless more ids read the same than are shown.
TypedIsFound(raw, near) ==
    raw \in ToSet(near) /\ Cardinality({k \in ToSet(near) : Norm(k) = Norm(raw)}) <= MaxSuggestions =>
        raw \in ToSet(ResolveVehicle(raw, near).options)
=============================================================================
