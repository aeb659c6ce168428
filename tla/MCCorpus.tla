------------------------------ MODULE MCCorpus ------------------------------
\* Ingestion with the services restarted for a change of model, as scripts/
\* reembed.py is meant to be used.
EXTENDS Corpus

\* c1 and c2 both document k1; c3 documents k2; c4 has no domain.
MCCodesOf == ("c1" :> {"k1"}) @@ ("c2" :> {"k1"}) @@ ("c3" :> {"k2"}) @@ ("c4" :> {})

\* The models m1 and m2 make vectors of one width, m0 wider ones.
MCDim == ("m0" :> 2) @@ ("m1" :> 1) @@ ("m2" :> 1)

Restarted == [w \in Workers |-> NewModel]
Symmetry == Permutations(Docs) \cup Permutations(Workers)
=============================================================================
