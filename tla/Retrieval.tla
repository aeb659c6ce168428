----------------------------- MODULE Retrieval ------------------------------
(***************************************************************************)
(* The pure steps of a search (rag/retrieve.py and rag/rerank.py): fusion  *)
(* of two rankings, the boost of the entity's chunks, the cross-encoder    *)
(* over a shortlist, and the threshold.  Chunks stand for their ids; the   *)
(* cross-encoder is a function from chunks to scores in percent.           *)
(***************************************************************************)
EXTENDS Orders

CONSTANTS
    RrfK, VectorWeight, KeywordWeight,  \* rrf_k and the weights, in tenths
    EntityBoost,                        \* entity_boost, in percent
    CandidateK, RerankCandidates, FinalK,
    SkipMargin,                         \* rerank_skip_margin, in percent
    Threshold                           \* confidence_threshold, in percent

ASSUME RetrievalAssumption ==
    /\ RrfK \in Nat /\ VectorWeight \in Nat /\ KeywordWeight \in Nat
    /\ {CandidateK, RerankCandidates, FinalK} \subseteq Nat \ {0}
    /\ {EntityBoost, SkipMargin, Threshold} \subseteq 0..100

-----------------------------------------------------------------------------
(* Fusion *)

\* The reciprocals of the ranks have a common denominator.
Denominator(hits) ==
    LET product[r \in 0..hits] == IF r = 0 THEN 1 ELSE product[r - 1] * (RrfK + r)
    IN  product[hits]

Share(weight, ranking, c, unit) ==
    IF c \in ToSet(ranking) THEN weight * (unit \div (RrfK + Position(ranking, c))) ELSE 0

\* hybrid_score.
Hybrid(dense, sparse, c) ==
    LET unit == Denominator(Max({Len(dense), Len(sparse)}))
    IN  Share(VectorWeight, dense, c, unit) + Share(KeywordWeight, sparse, c, unit)

\* Mutant: what only the keyword half found is left out.
MutHitsOfDense(dense, sparse) == dense

\* Each chunk once, in the order it is met first.
Hits(dense, sparse) == dense \o Kept(sparse, ToSet(sparse) \ ToSet(dense))

\* rrf_fuse.
Fused(dense, sparse) ==
    LET hits == Hits(dense, sparse)
    IN  Descending(hits, [i \in 1..Len(hits) |-> Hybrid(dense, sparse, hits[i])])

Weight(c, named) == IF c \in named THEN 100 + EntityBoost ELSE 100

\* apply_boost; named: the chunks about the entity.
Boosted(fused, dense, sparse, named) ==
    Descending(fused, [i \in 1..Len(fused) |-> Hybrid(dense, sparse, fused[i]) * Weight(fused[i], named)])

\* hybrid_search.
Candidates(dense, sparse, named) ==
    FirstOf(Boosted(Fused(dense, sparse), dense, sparse, named), CandidateK)

-----------------------------------------------------------------------------
(* Reranking *)

ShortestFirst(texts, length) ==
    Descending([i \in 1..Len(texts) |-> i], [i \in 1..Len(texts) |-> -length[texts[i]]])

\* Mutant: the scores stay in the order the model saw the texts.
MutScoresAsRead(texts, length, model) ==
    LET order == ShortestFirst(texts, length)
    IN  [k \in 1..Len(texts) |-> model[texts[order[k]]]]

\* score: pairs go to the model shortest first and their scores come back to
\* where the texts were.
Scores(texts, length, model) ==
    LET order == ShortestFirst(texts, length)
        raw == [k \in 1..Len(texts) |-> model[texts[order[k]]]]
    IN  [i \in 1..Len(texts) |-> raw[Position(order, i)]]

\* should_skip: the first leads the second by the margin.
Skips(candidates, hybrid) ==
    \/ Len(candidates) = 1
    \/ /\ Len(candidates) > 1
       /\ hybrid[candidates[1]] > 0
       /\ 100 * (hybrid[candidates[1]] - hybrid[candidates[2]]) >= SkipMargin * hybrid[candidates[1]]

Shortlist(candidates, hybrid) ==
    IF Skips(candidates, hybrid) THEN <<candidates[1]>> ELSE candidates

\* rerank: the best of the shortlist by boosted score, their scores unboosted.
Reranked(candidates, hybrid, named, length, model) ==
    LET shortlist == Shortlist(candidates, hybrid)
        scores == Scores(shortlist, length, model)
        scored == [i \in 1..Len(shortlist) |-> [chunk |-> shortlist[i], score |-> scores[i]]]
    IN  FirstOf(Descending(scored,
                    [i \in 1..Len(scored) |-> scored[i].score * Weight(scored[i].chunk, named)]),
                FinalK)

\* Mutant: the boost lifts a chunk over the threshold.
MutUsableBoosted(r, named) == r.score * Weight(r.chunk, named) >= 100 * Threshold

\* apply_threshold reads the score as the model gave it.
Usable(r, named) == r.score >= Threshold

\* retrieve.
Search(dense, sparse, named, length, model) ==
    LET shortlist == FirstOf(Candidates(dense, sparse, named), RerankCandidates)
        hybrid == [c \in ToSet(shortlist) |-> Hybrid(dense, sparse, c)]
        reranked == Reranked(shortlist, hybrid, named, length, model)
        kept == Kept(reranked, {r \in ToSet(reranked) : Usable(r, named)})
    IN  [status |-> IF reranked = <<>> THEN "empty" ELSE IF kept = <<>> THEN "below_threshold" ELSE "ok",
         chunks |-> kept]

-----------------------------------------------------------------------------
(* Properties of one search *)

Better(ranking, c, d) ==
    c \in ToSet(ranking) /\ (d \notin ToSet(ranking) \/ Position(ranking, c) < Position(ranking, d))

\* Every hit of either half is a candidate once, and one that both halves
\* rank above another stays above it (rrf_fuse: neither half is sufficient).
FusionIsFair(dense, sparse) ==
    LET fused == Fused(dense, sparse)
    IN  /\ ToSet(fused) = ToSet(dense) \cup ToSet(sparse)
        /\ Len(fused) = Cardinality(ToSet(fused))
        /\ \A c, d \in ToSet(fused) :
            Better(dense, c, d) /\ Better(sparse, c, d) => Position(fused, c) < Position(fused, d)

\* What is returned scored its own way over the threshold, and a search that
\* names no entity and says "below_threshold" met no chunk over it in what it
\* reranked (retrieve: weak context is worse than none).
OnlyStrongReturned(dense, sparse, named, length, model) ==
    LET found == Search(dense, sparse, named, length, model)
        shortlist == FirstOf(Candidates(dense, sparse, {}), RerankCandidates)
        hybrid == [c \in ToSet(shortlist) |-> Hybrid(dense, sparse, c)]
    IN  /\ \A i \in 1..Len(found.chunks) :
            found.chunks[i].score = model[found.chunks[i].chunk] /\ found.chunks[i].score >= Threshold
        /\ named = {} /\ found.status = "below_threshold" =>
            \A c \in ToSet(Shortlist(shortlist, hybrid)) : model[c] < Threshold
=============================================================================
