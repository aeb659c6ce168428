------------------------------- MODULE Corpus -------------------------------
(***************************************************************************)
(* Document ingestion (rag/ingest.py), the record of the corpus's          *)
(* embedding model (rag/corpus.py) and the two programs that change it:    *)
(* scripts/reembed.py and the embedding step of db/migrate.py.             *)
(*                                                                         *)
(* Postgres runs the transactions READ COMMITTED.  What a transaction      *)
(* writes is seen at its commit; a statement that meets a row another      *)
(* transaction is changing waits for that one to end.  Waiting only delays *)
(* a transaction, so a commit here is one step that succeeds or meets the  *)
(* unique constraints of what has been committed since its DELETE looked.  *)
(***************************************************************************)
EXTENDS Naturals, FiniteSets, TLC

CONSTANTS
    Docs,       \* doc_ids
    Contents,   \* texts, told apart by their content_hash
    Invalid,    \* texts without a domain, or with nothing to index
    Codes,      \* error codes
    CodesOf,    \* the codes each text documents in a table
    Models,     \* embedding models
    Dim,        \* the width of each model's vectors
    Workers,    \* processes that ingest
    ModelOf,    \* the EMBEDDING_MODEL each was started with
    NewModel,   \* the EMBEDDING_MODEL of reembed.py and migrate.py
    Built,      \* the corpora to start from: none, or one document's model
    MaxStamp,   \* bound: write transactions begun
    None

ASSUME CorpusAssumption ==
    /\ Invalid \subseteq Contents
    /\ CodesOf \in [Contents -> SUBSET Codes]
    /\ Dim \in [Models -> Nat]
    /\ ModelOf \in [Workers -> Models]
    /\ NewModel \in Models
    /\ Built \subseteq Models \cup {None}
    /\ MaxStamp \in Nat
    /\ None \notin Docs \cup Contents \cup Models \cup Nat

VARIABLES
    docs,       \* documents with their chunks: content, ingested_at, vectors
    codes,      \* error_codes: the document and text a code was taken from
    meta,       \* corpus_meta 'embedding_model'
    width,      \* the type of document_chunks.embedding
    seen,       \* corpus._seen of each worker's process
    job,        \* where each worker is in ingest_text
    reembed,    \* where scripts/reembed.py is
    stamp       \* now(), as the number of transactions begun

corpusVars == <<docs, codes, meta, width, seen, job, reembed, stamp>>

Row == [content : Contents, at : 0..MaxStamp, vec : Models \cup {None}]
CodeRow == [source : Docs, content : Contents]

ASSUME RowAssumption == None \notin Row /\ None \notin CodeRow

Job == [pc : {"idle", "embedding", "begun", "deleted"},
        doc : Docs \cup {None}, content : Contents \cup {None},
        at : 0..MaxStamp, saw : Row \cup {None}]
Reembed == [pc : {"idle", "embedding", "done"}, rows : SUBSET (0..MaxStamp), width : Nat]

Idle == [pc |-> "idle", doc |-> None, content |-> None, at |-> 0, saw |-> None]

Present == {d \in Docs : docs[d] # None}

CorpusTypeOK ==
    /\ docs \in [Docs -> Row \cup {None}]
    /\ codes \in [Codes -> CodeRow \cup {None}]
    /\ meta \in Models \cup {None}
    /\ width \in Nat
    /\ seen \in [Workers -> [fresh : BOOLEAN, model : Models \cup {None}]]
    /\ job \in [Workers -> Job]
    /\ reembed \in Reembed
    /\ stamp \in 0..MaxStamp

\* A corpus with one document of an earlier run, or an empty one that
\* migrate.py has made ready.
CorpusInit ==
    /\ \E m \in Built :
        IF m = None
        THEN /\ docs = [d \in Docs |-> None]
             /\ codes = [k \in Codes |-> None]
             /\ meta = None
             /\ width = Dim[NewModel]
        ELSE \E d0 \in Docs, c0 \in Contents \ Invalid :
             /\ docs = [d \in Docs |-> IF d = d0 THEN [content |-> c0, at |-> 0, vec |-> m] ELSE None]
             /\ codes = [k \in Codes |->
                    IF k \in CodesOf[c0] THEN [source |-> d0, content |-> c0] ELSE None]
             /\ meta = m
             /\ width = Dim[m]
    /\ seen = [w \in Workers |-> [fresh |-> FALSE, model |-> None]]
    /\ job = [w \in Workers |-> Idle]
    /\ reembed = [pc |-> "idle", rows |-> {}, width |-> 0]
    /\ stamp = 0

-----------------------------------------------------------------------------
(* ingest_text *)

\* The model corpus.check compares with: the answer kept, or a new one.
Known(w) == IF seen[w].fresh THEN seen[w].model ELSE meta

\* Mutant: the comparison with the configured model is left out.
MutAgreesAlways(w) == TRUE

Agrees(w) == Known(w) \in {None, ModelOf[w]}

Stored(c) == \E d \in Present : docs[d].content = c

\* The check of the model, the look-up of the hash, the checks of the text.
Start(w, d, c) ==
    /\ job[w].pc = "idle"
    /\ seen' = [seen EXCEPT ![w] = [fresh |-> TRUE, model |-> Known(w)]]
    /\ IF Agrees(w) /\ ~Stored(c) /\ c \notin Invalid
       THEN job' = [job EXCEPT ![w] = [Idle EXCEPT !.pc = "embedding", !.doc = d, !.content = c]]
       ELSE UNCHANGED job
    /\ UNCHANGED <<docs, codes, meta, width, reembed, stamp>>

\* The write transaction opens and looks for the hash once more.
Begin(w) ==
    /\ job[w].pc = "embedding"
    /\ stamp < MaxStamp
    /\ stamp' = stamp + 1
    /\ job' = [job EXCEPT ![w] =
                IF Stored(job[w].content) THEN Idle ELSE [@ EXCEPT !.pc = "begun", !.at = stamp + 1]]
    /\ UNCHANGED <<docs, codes, meta, width, seen, reembed>>

\* DELETE FROM documents looks for the old version.
Delete(w) ==
    /\ job[w].pc = "begun"
    /\ job' = [job EXCEPT ![w].pc = "deleted", ![w].saw = docs[job[w].doc]]
    /\ UNCHANGED <<docs, codes, meta, width, seen, reembed, stamp>>

\* The primary key, UNIQUE (content_hash) and the width of the column.
Accepted(w) ==
    /\ docs[job[w].doc] = job[w].saw
    /\ \A d \in Present \ {job[w].doc} : docs[d].content # job[w].content
    /\ Dim[ModelOf[w]] = width

\* Mutant: codes of the old version that the new one lacks stay.
MutPromotedKeepsOld(d, c) ==
    [k \in Codes |-> IF k \in CodesOf[c] THEN [source |-> d, content |-> c] ELSE codes[k]]

\* Mutant: the rows of the document are deleted after the new ones are written.
MutPromotedThenDeleted(d, c) ==
    [k \in Codes |-> IF k \in CodesOf[c] \/ (codes[k] # None /\ codes[k].source = d)
                     THEN None ELSE codes[k]]

\* error_codes once the rows of document d are gone and those of its new
\* text c are there.
Promoted(d, c) ==
    [k \in Codes |->
        IF k \in CodesOf[c] THEN [source |-> d, content |-> c]
        ELSE IF codes[k] # None /\ codes[k].source = d THEN None ELSE codes[k]]

\* The rest of the transaction, up to its commit.
Commit(w) ==
    /\ job[w].pc = "deleted"
    /\ Accepted(w)
    /\ LET d == job[w].doc
           c == job[w].content
       IN  /\ docs' = [docs EXCEPT ![d] = [content |-> c, at |-> job[w].at, vec |-> ModelOf[w]]]
           /\ codes' = Promoted(d, c)
    /\ meta' = IF meta = None THEN ModelOf[w] ELSE meta
    /\ job' = [job EXCEPT ![w] = Idle]
    /\ UNCHANGED <<width, seen, reembed, stamp>>

\* A constraint, the database or the embedding model fails: rolled back.
Fail(w) ==
    /\ job[w].pc # "idle"
    /\ job' = [job EXCEPT ![w] = Idle]
    /\ UNCHANGED <<docs, codes, meta, width, seen, reembed, stamp>>

\* RECHECK_SECONDS have passed since the worker's process asked.
Expire(w) ==
    /\ seen[w].fresh
    /\ seen' = [seen EXCEPT ![w].fresh = FALSE]
    /\ UNCHANGED <<docs, codes, meta, width, job, reembed, stamp>>

-----------------------------------------------------------------------------
(* scripts/reembed.py and db/migrate.py *)

\* The chunks are read, then embedded outside of any transaction.
ReembedReads ==
    /\ reembed.pc = "idle"
    /\ reembed' = [pc |-> "embedding", rows |-> {docs[d].at : d \in Present}, width |-> width]
    /\ UNCHANGED <<docs, codes, meta, width, seen, job, stamp>>

\* The vectors of a row once the column has been resized, if it was, and the
\* chunks that were read have been updated.
Reembedded(row) ==
    IF row.at \in reembed.rows THEN NewModel
    ELSE IF reembed.width # Dim[NewModel] THEN None ELSE row.vec

ReembedWrites ==
    /\ reembed.pc = "embedding"
    /\ docs' = [d \in Docs |-> IF docs[d] = None THEN None
                               ELSE [docs[d] EXCEPT !.vec = Reembedded(docs[d])]]
    /\ width' = IF reembed.width # Dim[NewModel] THEN Dim[NewModel] ELSE width
    /\ meta' = NewModel
    /\ reembed' = [reembed EXCEPT !.pc = "done", !.rows = {}]
    /\ UNCHANGED <<codes, seen, job, stamp>>

\* sync_embedding_column.  The services start when it is over.
Migrate ==
    /\ \A w \in Workers : job[w].pc = "idle"
    /\ reembed.pc # "embedding"
    /\ Present = {}
    /\ width' = Dim[NewModel]
    /\ meta' = None
    /\ UNCHANGED <<docs, codes, seen, job, reembed, stamp>>

WorkerStep(w) ==
    \/ \E d \in Docs, c \in Contents : Start(w, d, c)
    \/ Begin(w) \/ Delete(w) \/ Commit(w) \/ Fail(w) \/ Expire(w)

CorpusNext ==
    \/ \E w \in Workers : WorkerStep(w)
    \/ ReembedReads \/ ReembedWrites \/ Migrate

CorpusSpec == CorpusInit /\ [][CorpusNext]_corpusVars

-----------------------------------------------------------------------------
(* Properties *)

\* Every chunk has vectors of the one model on record, of the column's width:
\* a search never compares vectors of two models (rag/corpus.py).
OneVectorSpace ==
    \A d \in Present : docs[d].vec = meta /\ Dim[docs[d].vec] = width

\* A promoted code is one its document, as it is now, documents: an update
\* takes the codes of the old version with it.
CodesAreCurrent ==
    \A k \in Codes : codes[k] # None =>
        /\ codes[k].source \in Present
        /\ docs[codes[k].source].content = codes[k].content
        /\ k \in CodesOf[codes[k].content]

\* A code that one text only documents is found as long as a document has
\* that text, whatever was replaced, rolled back or ingested meanwhile.  (Of a
\* code two documents share, the row goes with the one ingested last.)
UnsharedCodesFound ==
    \A d \in Present : \A k \in CodesOf[docs[d].content] :
        {c \in Contents : k \in CodesOf[c]} = {docs[d].content} => codes[k] # None
=============================================================================
