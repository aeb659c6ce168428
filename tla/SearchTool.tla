----------------------------- MODULE SearchTool ------------------------------
(***************************************************************************)
(* The document search as a tool (mcp_server/tools/rag_retrieval.py): what *)
(* the plan names as the entity is resolved first, and only boosts.        *)
(***************************************************************************)
EXTENDS Retrieval, Resolution

\* A call: whether its domain is one of DOMAINS, its query has words, and what
\* it names ("none", a model of vehicle, or an id as typed).
\* A corpus: what the halves find, the chunks about each entity, the model's
\* scores; fits: its vectors are of the embedding model in use.

NoBoost == [kind |-> "none"]
Model == [kind |-> "model"]
Vehicle(id) == [kind |-> "vehicle", id |-> id]

\* Mutant: the closest id boosts, chosen or not.
MutBoost(entity, near) ==
    CASE entity.kind = "vehicle" ->
            LET r == ResolveVehicle(entity.id, near)
            IN  IF r.options # <<>> THEN Vehicle(r.options[1]) ELSE NoBoost
      [] OTHER -> entity

\* rag_retrieval: a known model boosts as given, an id once it is resolved.
Boost(entity, near) ==
    CASE entity.kind = "vehicle" ->
            LET r == ResolveVehicle(entity.id, near)
            IN  IF Chosen(r) THEN Vehicle(r.options[1]) ELSE NoBoost
      [] OTHER -> entity

About(corpus, boost) == {p[2] : p \in {q \in corpus.about : q[1] = boost}}

Failed == [status |-> "failed", chunks |-> <<>>]

\* rag_retrieval: an unknown domain and an empty query fail, and so does a
\* corpus of another embedding model; none of them looks like no document.
RagRetrieval(call, near, corpus) ==
    IF ~call.domain \/ ~call.worded \/ ~corpus.fits THEN Failed
    ELSE Search(corpus.dense, corpus.sparse, About(corpus, Boost(call.entity, near)),
                corpus.length, corpus.model)

-----------------------------------------------------------------------------
(* Property of one call *)

\* An id that could not be resolved changes nothing, and whatever is named
\* filters nothing: a search is empty only when nothing was found, and fails
\* only for the call or the corpus (the tool's docstring, "never a filter").
EntityOnlyBoosts(call, near, corpus) ==
    LET with == RagRetrieval(call, near, corpus)
        without == RagRetrieval([call EXCEPT !.entity = NoBoost], near, corpus)
        found == ToSet(corpus.dense) \cup ToSet(corpus.sparse)
    IN  /\ (with.status = "failed") = (without.status = "failed")
        /\ with.status = "empty" => found = {}
        /\ call.entity.kind = "vehicle" /\ call.entity.id \notin ToSet(near)
           /\ ~Chosen(ResolveVehicle(call.entity.id, near)) => with = without
        /\ call.entity.kind = "vehicle" /\ call.entity.id \in ToSet(near)
           /\ (\A k \in ToSet(near) \ {call.entity.id} : Norm(k) # Norm(call.entity.id)) =>
               with = Search(corpus.dense, corpus.sparse, About(corpus, call.entity),
                             corpus.length, corpus.model) \/ with = Failed
=============================================================================
