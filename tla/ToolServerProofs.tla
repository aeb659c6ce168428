------------------------- MODULE ToolServerProofs --------------------------
(***************************************************************************)
(* Theorems about the tool server.  Of Corpus and of ToolCache, which      *)
(* extends it: for every set of documents, texts, codes, models and        *)
(* ingesting processes, any number of calls of the tools, and a cache of   *)
(* any size.  Of SqlSteps: for every schema, every policy and every        *)
(* statement, however deeply its selects are nested.                       *)
(***************************************************************************)
EXTENDS ToolCache, SqlSteps, FiniteSetTheorems, SequenceTheorems, TLAPS

-----------------------------------------------------------------------------
(* The inductive invariants *)

\* A job past the checks has a document and a text.
JobsHaveText ==
    \A w \in Workers : job[w].pc # "idle" => job[w].doc \in Docs /\ job[w].content \in Contents

\* UNIQUE (content_hash).
OneDocPerText ==
    \A d, e \in Present : docs[d].content = docs[e].content => d = e

CodesInv == /\ CorpusTypeOK /\ JobsHaveText /\ OneDocPerText
            /\ CodesAreCurrent /\ UnsharedCodesFound

\* No step but a worker's own commit gives a document another text.
SameTexts ==
    /\ docs' \in [Docs -> Row \cup {None}]
    /\ \A d \in Docs : docs'[d] = None <=> docs[d] = None
    /\ \A d \in Present : docs'[d].content = docs[d].content
    /\ codes' = codes

-----------------------------------------------------------------------------
(* Types *)

LEMMA CorpusTypingInit == CorpusInit => CorpusTypeOK /\ JobsHaveText
<1> SUFFICES ASSUME CorpusInit PROVE CorpusTypeOK /\ JobsHaveText
  OBVIOUS
<1> USE CorpusAssumption, RowAssumption DEF CorpusInit, CorpusTypeOK, Row, CodeRow, Job, Reembed, Idle
<1>1. JobsHaveText /\ job \in [Workers -> Job] /\ stamp \in 0..MaxStamp /\ reembed \in Reembed
  BY DEF JobsHaveText
<1>2. seen \in [Workers -> [fresh : BOOLEAN, model : Models \cup {None}]]
  OBVIOUS
<1>3. docs \in [Docs -> Row \cup {None}] /\ codes \in [Codes -> CodeRow \cup {None}]
      /\ meta \in Models \cup {None} /\ width \in Nat
  <2> PICK m \in Built :
        IF m = None
        THEN /\ docs = [d \in Docs |-> None]
             /\ codes = [k \in Codes |-> None]
             /\ meta = None
             /\ width = Dim[NewModel]
        ELSE \E d0 \in Docs, c0 \in Contents \ Invalid :
             /\ docs = [d \in Docs |-> IF d = d0 THEN [content |-> c0, at |-> 0, vec |-> m] ELSE None]
             /\ codes = [k \in Codes |->
                    IF k \in CodesOf[c0] THEN [source |-> d0, content |-> c0] ELSE None]
             /\ meta = m
             /\ width = Dim[m]
    OBVIOUS
  <2>1. CASE m = None
    BY <2>1
  <2>2. CASE m # None
    <3> PICK d0 \in Docs, c0 \in Contents \ Invalid :
             /\ docs = [d \in Docs |-> IF d = d0 THEN [content |-> c0, at |-> 0, vec |-> m] ELSE None]
             /\ codes = [k \in Codes |->
                    IF k \in CodesOf[c0] THEN [source |-> d0, content |-> c0] ELSE None]
             /\ meta = m
             /\ width = Dim[m]
      BY <2>2
    <3>1. m \in Models
      BY <2>2
    <3> QED
      BY <3>1
  <2> QED
    BY <2>1, <2>2
<1> QED
  BY <1>1, <1>2, <1>3

LEMMA JobMoves ==
    ASSUME CorpusTypeOK, JobsHaveText, NEW w \in Workers, NEW j \in Job,
           j.pc # "idle" => j.doc \in Docs /\ j.content \in Contents,
           job' = [job EXCEPT ![w] = j]
    PROVE  job' \in [Workers -> Job] /\ JobsHaveText'
<1>1. job' \in [Workers -> Job]
  BY DEF CorpusTypeOK
<1>2. \A v \in Workers : job'[v] = IF v = w THEN j ELSE job[v]
  BY DEF CorpusTypeOK
<1> QED
  BY <1>1, <1>2 DEF JobsHaveText

LEMMA IdleIsJob == Idle \in Job /\ Idle.pc = "idle"
BY CorpusAssumption DEF Idle, Job

LEMMA CorpusTypingStep ==
    CorpusTypeOK /\ JobsHaveText /\ [CorpusNext]_corpusVars => CorpusTypeOK' /\ JobsHaveText'
<1> SUFFICES ASSUME CorpusTypeOK, JobsHaveText, [CorpusNext]_corpusVars
             PROVE  CorpusTypeOK' /\ JobsHaveText'
  OBVIOUS
<1> USE CorpusAssumption DEF CorpusTypeOK
<1>1. ASSUME NEW w \in Workers, NEW d \in Docs, NEW c \in Contents, Start(w, d, c)
      PROVE  CorpusTypeOK' /\ JobsHaveText'
  <2>1. Known(w) \in Models \cup {None}
    BY DEF Known
  <2>2. seen' \in [Workers -> [fresh : BOOLEAN, model : Models \cup {None}]]
    BY <1>1, <2>1 DEF Start
  <2>3. job' \in [Workers -> Job] /\ JobsHaveText'
    <3> DEFINE j == [Idle EXCEPT !.pc = "embedding", !.doc = d, !.content = c]
    <3>1. j \in Job /\ j.doc = d /\ j.content = c
      BY IdleIsJob DEF Job
    <3>2. CASE job' = [job EXCEPT ![w] = j]
      BY <3>1, <3>2, JobMoves
    <3>3. CASE UNCHANGED job
      BY <3>3 DEF JobsHaveText
    <3> QED
      BY <1>1, <3>2, <3>3 DEF Start
  <2> QED
    BY <1>1, <2>2, <2>3 DEF Start
<1>2. ASSUME NEW w \in Workers, Begin(w)
      PROVE  CorpusTypeOK' /\ JobsHaveText'
  <2>1. stamp' \in 0..MaxStamp
    BY <1>2 DEF Begin
  <2>2. job' \in [Workers -> Job] /\ JobsHaveText'
    <3> DEFINE j == [job[w] EXCEPT !.pc = "begun", !.at = stamp + 1]
    <3>1. j \in Job /\ j.doc \in Docs /\ j.content \in Contents
      BY <1>2, <2>1, ZenonT(30) DEF Begin, Job, JobsHaveText
    <3>2. job' = [job EXCEPT ![w] = Idle] \/ job' = [job EXCEPT ![w] = j]
      BY <1>2 DEF Begin
    <3> QED
      BY <3>1, <3>2, JobMoves, IdleIsJob
  <2> QED
    BY <1>2, <2>1, <2>2 DEF Begin
<1>3. ASSUME NEW w \in Workers, Delete(w)
      PROVE  CorpusTypeOK' /\ JobsHaveText'
  <2>1. docs[job[w].doc] \in Row \cup {None}
    BY <1>3 DEF Delete, JobsHaveText
  <2>2. job' \in [Workers -> Job] /\ JobsHaveText'
    <3> DEFINE j == [job[w] EXCEPT !.pc = "deleted", !.saw = docs[job[w].doc]]
    <3>1. j \in Job /\ j.doc \in Docs /\ j.content \in Contents
      BY <1>3, <2>1, ZenonT(30) DEF Delete, Job, JobsHaveText
    <3>2. job' = [job EXCEPT ![w] = j]
      BY <1>3 DEF Delete
    <3> QED
      BY <3>1, <3>2, JobMoves
  <2> QED
    BY <1>3, <2>2 DEF Delete
<1>4. ASSUME NEW w \in Workers, Commit(w)
      PROVE  CorpusTypeOK' /\ JobsHaveText'
  <2>1. job[w].doc \in Docs /\ job[w].content \in Contents /\ job[w].at \in 0..MaxStamp
    BY <1>4 DEF Commit, JobsHaveText, Job
  <2>2. docs' \in [Docs -> Row \cup {None}]
    BY <1>4, <2>1 DEF Commit, Row
  <2>3. codes' \in [Codes -> CodeRow \cup {None}]
    BY <1>4, <2>1 DEF Commit, Promoted, CodeRow
  <2>4. job' \in [Workers -> Job] /\ JobsHaveText'
    BY <1>4, JobMoves, IdleIsJob DEF Commit
  <2> QED
    BY <1>4, <2>2, <2>3, <2>4 DEF Commit
<1>5. ASSUME NEW w \in Workers, Fail(w) \/ Expire(w)
      PROVE  CorpusTypeOK' /\ JobsHaveText'
  <2>1. job' \in [Workers -> Job] /\ JobsHaveText'
    <3>1. CASE Fail(w)
      BY <3>1, JobMoves, IdleIsJob DEF Fail
    <3>2. CASE Expire(w)
      BY <3>2 DEF Expire, JobsHaveText
    <3> QED
      BY <1>5, <3>1, <3>2
  <2>2. seen' \in [Workers -> [fresh : BOOLEAN, model : Models \cup {None}]]
    <3>1. [seen[w] EXCEPT !.fresh = FALSE] \in [fresh : BOOLEAN, model : Models \cup {None}]
      BY ZenonT(30)
    <3>2. seen' = seen \/ seen' = [seen EXCEPT ![w] = [seen[w] EXCEPT !.fresh = FALSE]]
      BY <1>5 DEF Fail, Expire
    <3> QED
      BY <3>1, <3>2
  <2> QED
    BY <1>5, <2>1, <2>2 DEF Fail, Expire
<1>6. CASE ReembedReads
  <2>1. {docs[d].at : d \in Present} \subseteq 0..MaxStamp
    BY DEF Present, Row
  <2> QED
    BY <1>6, <2>1 DEF ReembedReads, Reembed, JobsHaveText
<1>7. CASE ReembedWrites
  <2>1. ASSUME NEW d \in Docs, docs[d] # None
        PROVE  [docs[d] EXCEPT !.vec = Reembedded(docs[d])] \in Row
    BY <2>1 DEF Row, Reembedded
  <2>2. docs' \in [Docs -> Row \cup {None}]
    BY <1>7, <2>1 DEF ReembedWrites
  <2>3. reembed' \in Reembed
    BY <1>7 DEF ReembedWrites, Reembed
  <2> QED
    BY <1>7, <2>2, <2>3 DEF ReembedWrites, JobsHaveText
<1>8. CASE Migrate
  BY <1>8 DEF Migrate, JobsHaveText
<1>9. CASE UNCHANGED corpusVars
  BY <1>9 DEF corpusVars, JobsHaveText
<1> QED
  BY <1>1, <1>2, <1>3, <1>4, <1>5, <1>6, <1>7, <1>8, <1>9 DEF CorpusNext, WorkerStep

\* Every variable keeps its type.
THEOREM Typing == CorpusSpec => []CorpusTypeOK
<1> QED
  BY CorpusTypingInit, CorpusTypingStep, PTL DEF CorpusSpec

-----------------------------------------------------------------------------
(* Codes *)

\* What a commit gives: its own text, which no other document had.
LEMMA CommitPutsText ==
    ASSUME CorpusTypeOK, JobsHaveText, NEW w \in Workers, Commit(w)
    PROVE  /\ job[w].doc \in Docs /\ job[w].content \in Contents
           /\ job[w].doc \in Present' /\ Present' = Present \cup {job[w].doc}
           /\ docs'[job[w].doc].content = job[w].content
           /\ \A d \in Docs \ {job[w].doc} : docs'[d] = docs[d]
           /\ \A d \in Present \ {job[w].doc} : docs[d].content # job[w].content
           /\ codes' = Promoted(job[w].doc, job[w].content)
<1>1. job[w].doc \in Docs /\ job[w].content \in Contents /\ job[w].at \in 0..MaxStamp
  BY DEF Commit, JobsHaveText, CorpusTypeOK, Job
<1>2. docs' = [docs EXCEPT ![job[w].doc] =
                    [content |-> job[w].content, at |-> job[w].at, vec |-> ModelOf[w]]]
  BY DEF Commit
<1>3. [content |-> job[w].content, at |-> job[w].at, vec |-> ModelOf[w]] \in Row
  BY <1>1, CorpusAssumption DEF Row
<1>4. docs'[job[w].doc] # None /\ docs'[job[w].doc].content = job[w].content
      /\ \A d \in Docs \ {job[w].doc} : docs'[d] = docs[d]
  BY <1>1, <1>2, <1>3, RowAssumption DEF CorpusTypeOK
<1> QED
  BY <1>1, <1>4 DEF Commit, Accepted, Present

LEMMA ReembedKeepsTexts ==
    ASSUME CorpusTypeOK, ReembedWrites
    PROVE  SameTexts
<1> USE DEF SameTexts, CorpusTypeOK
<1>1. ASSUME NEW d \in Docs, docs[d] # None
      PROVE  /\ [docs[d] EXCEPT !.vec = Reembedded(docs[d])] \in Row
             /\ [docs[d] EXCEPT !.vec = Reembedded(docs[d])].content = docs[d].content
  BY <1>1, CorpusAssumption DEF Row, Reembedded
<1>2. \A d \in Docs : docs'[d] = IF docs[d] = None THEN None
                                 ELSE [docs[d] EXCEPT !.vec = Reembedded(docs[d])]
  BY DEF ReembedWrites
<1>3. docs' \in [Docs -> Row \cup {None}]
  BY <1>1 DEF ReembedWrites
<1> QED
  BY <1>1, <1>2, <1>3, RowAssumption DEF ReembedWrites, Present

LEMMA OtherStepsKeepTexts ==
    ASSUME CorpusTypeOK, [CorpusNext]_corpusVars, \A w \in Workers : ~Commit(w)
    PROVE  SameTexts
<1>1. CASE ReembedWrites
  BY <1>1, ReembedKeepsTexts
<1>2. CASE UNCHANGED <<docs, codes>>
  BY <1>2 DEF Present, SameTexts, CorpusTypeOK
<1> QED
  BY <1>1, <1>2 DEF CorpusNext, WorkerStep, Start, Begin, Delete, Fail, Expire,
                    ReembedReads, Migrate, corpusVars

LEMMA CodesInit == CorpusInit => CodesInv
<1> SUFFICES ASSUME CorpusInit PROVE CodesInv
  OBVIOUS
<1>1. CorpusTypeOK /\ JobsHaveText
  BY CorpusTypingInit
<1>2. CASE docs = [d \in Docs |-> None] /\ codes = [k \in Codes |-> None]
  BY <1>1, <1>2 DEF CodesInv, OneDocPerText, CodesAreCurrent, UnsharedCodesFound, Present
<1>3. CASE \E d0 \in Docs, c0 \in Contents \ Invalid, m \in Models :
             /\ docs = [d \in Docs |-> IF d = d0 THEN [content |-> c0, at |-> 0, vec |-> m] ELSE None]
             /\ codes = [k \in Codes |->
                    IF k \in CodesOf[c0] THEN [source |-> d0, content |-> c0] ELSE None]
  <2> PICK d0 \in Docs, c0 \in Contents \ Invalid, m \in Models :
             /\ docs = [d \in Docs |-> IF d = d0 THEN [content |-> c0, at |-> 0, vec |-> m] ELSE None]
             /\ codes = [k \in Codes |->
                    IF k \in CodesOf[c0] THEN [source |-> d0, content |-> c0] ELSE None]
    BY <1>3
  <2>1. [content |-> c0, at |-> 0, vec |-> m] \in Row /\ [source |-> d0, content |-> c0] \in CodeRow
    BY CorpusAssumption DEF Row, CodeRow
  <2>2. Present = {d0} /\ docs[d0].content = c0
    BY <2>1, RowAssumption DEF Present
  <2>3. \A k \in Codes : /\ k \in CodesOf[c0] => codes[k] # None /\ codes[k].source = d0 /\ codes[k].content = c0
                         /\ k \notin CodesOf[c0] => codes[k] = None
    BY <2>1, RowAssumption
  <2>4. CodesOf[c0] \subseteq Codes
    BY CorpusAssumption
  <2> QED
    BY <1>1, <2>2, <2>3, <2>4 DEF CodesInv, OneDocPerText, CodesAreCurrent, UnsharedCodesFound
<1> QED
  BY <1>2, <1>3, CorpusAssumption DEF CorpusInit

LEMMA CodesStep == CodesInv /\ [CorpusNext]_corpusVars => CodesInv'
<1> SUFFICES ASSUME CodesInv, [CorpusNext]_corpusVars PROVE CodesInv'
  OBVIOUS
<1>1. CorpusTypeOK' /\ JobsHaveText'
  BY CorpusTypingStep DEF CodesInv
<1>2. ASSUME NEW w \in Workers, Commit(w)
      PROVE  OneDocPerText' /\ CodesAreCurrent' /\ UnsharedCodesFound'
  <2> DEFINE d == job[w].doc
             c == job[w].content
  <2>1. /\ d \in Docs /\ c \in Contents /\ d \in Present' /\ Present' = Present \cup {d}
        /\ docs'[d].content = c
        /\ \A e \in Docs \ {d} : docs'[e] = docs[e]
        /\ \A e \in Present \ {d} : docs[e].content # c
        /\ codes' = Promoted(d, c)
    BY <1>2, CommitPutsText DEF CodesInv
  <2>2. [source |-> d, content |-> c] # None
    BY <2>1, RowAssumption DEF CodeRow
  <2>3. \A k \in Codes : codes'[k] = IF k \in CodesOf[c] THEN [source |-> d, content |-> c]
                                     ELSE IF codes[k] # None /\ codes[k].source = d THEN None ELSE codes[k]
    BY <2>1 DEF Promoted
  <2>4. Present \subseteq Docs
    BY DEF Present
  <2> HIDE DEF d, c
  <2>5. OneDocPerText'
    BY <2>1, <2>4 DEF CodesInv, OneDocPerText
  <2>6. CodesAreCurrent'
    <3> SUFFICES ASSUME NEW k \in Codes, codes'[k] # None
                 PROVE  /\ codes'[k].source \in Present'
                        /\ docs'[codes'[k].source].content = codes'[k].content
                        /\ k \in CodesOf[codes'[k].content]
      BY DEF CodesAreCurrent
    <3>1. CASE k \in CodesOf[c]
      BY <3>1, <2>1, <2>3
    <3>2. CASE k \notin CodesOf[c]
      <4>1. codes'[k] = codes[k] /\ codes[k] # None /\ codes[k].source # d
        BY <3>2, <2>3
      <4> QED
        BY <4>1, <2>1, <2>4 DEF CodesInv, CodesAreCurrent
    <3> QED
      BY <3>1, <3>2
  <2>7. UnsharedCodesFound'
    <3> SUFFICES ASSUME NEW e \in Present', NEW k \in CodesOf[docs'[e].content],
                        {x \in Contents : k \in CodesOf[x]} = {docs'[e].content}
                 PROVE  codes'[k] # None
      BY DEF UnsharedCodesFound
    <3>1. CASE e = d
      <4>1. k \in CodesOf[c] /\ k \in Codes
        BY <3>1, <2>1, CorpusAssumption
      <4> QED
        BY <4>1, <2>2, <2>3
    <3>2. CASE e # d
      <4>1. e \in Present /\ docs'[e] = docs[e] /\ docs[e].content # c
        BY <3>2, <2>1, <2>4
      <4>2. docs[e].content \in Contents /\ k \in Codes /\ k \notin CodesOf[c]
        BY <4>1, <2>1, <2>4, CorpusAssumption
      <4>3. codes[k] # None
        BY <4>1 DEF CodesInv, UnsharedCodesFound
      <4>4. codes[k].source \in Present /\ docs[codes[k].source].content = codes[k].content
            /\ k \in CodesOf[codes[k].content]
        BY <4>2, <4>3 DEF CodesInv, CodesAreCurrent
      <4>5. codes[k].content \in Contents
        BY <4>2, <4>3 DEF CodesInv, CorpusTypeOK, CodeRow
      <4>6. codes[k].content = docs[e].content
        BY <4>1, <4>4, <4>5
      <4>7. codes[k].source = e
        BY <4>1, <4>4, <4>6 DEF CodesInv, OneDocPerText
      <4> QED
        BY <3>2, <2>3, <4>2, <4>3, <4>7
    <3> QED
      BY <3>1, <3>2
  <2> QED
    BY <2>5, <2>6, <2>7
<1>3. ASSUME \A w \in Workers : ~Commit(w)
      PROVE  OneDocPerText' /\ CodesAreCurrent' /\ UnsharedCodesFound'
  <2>1. SameTexts
    BY <1>3, OtherStepsKeepTexts DEF CodesInv
  <2>2. Present' = Present
    BY <2>1 DEF SameTexts, Present
  <2> QED
    BY <2>1, <2>2 DEF SameTexts, CodesInv, OneDocPerText, CodesAreCurrent, UnsharedCodesFound
<1> QED
  BY <1>1, <1>2, <1>3 DEF CodesInv

\* A promoted code is one its document documents, for any number of workers.
THEOREM CodesFollowDocuments == CorpusSpec => []CodesAreCurrent
<1>1. CodesInv => CodesAreCurrent
  BY DEF CodesInv
<1> QED
  BY CodesInit, CodesStep, <1>1, PTL DEF CorpusSpec

\* A code that one text only documents is found while a document has that text.
THEOREM CodesAreFound == CorpusSpec => []UnsharedCodesFound
<1>1. CodesInv => UnsharedCodesFound
  BY DEF CodesInv
<1> QED
  BY CodesInit, CodesStep, <1>1, PTL DEF CorpusSpec

-----------------------------------------------------------------------------
(* Vectors *)

ModelAllowed == meta \in {None, NewModel}

\* The model on record is that of the vectors, once there are any; what a
\* worker has seen agree is still so; and a re-embedding under way misses only
\* documents that have the new model's vectors already.
VectorInv ==
    /\ CorpusTypeOK /\ JobsHaveText
    /\ OneVectorSpace
    /\ meta = None => Present = {}
    /\ \A w \in Workers : seen[w].fresh /\ seen[w].model \in {None, NewModel} => ModelAllowed
    /\ \A w \in Workers : job[w].pc # "idle" => ModelAllowed
    /\ reembed.pc = "embedding" =>
        /\ reembed.width = width
        /\ \A d \in Present : docs[d].at \notin reembed.rows =>
                docs[d].vec = NewModel /\ width = Dim[NewModel]

LEMMA VectorInit == CorpusInit => VectorInv
<1> SUFFICES ASSUME CorpusInit PROVE VectorInv
  OBVIOUS
<1>1. CorpusTypeOK /\ JobsHaveText
  BY CorpusTypingInit
<1>2. /\ \A w \in Workers : ~seen[w].fresh /\ job[w].pc = "idle"
      /\ reembed.pc = "idle"
  BY DEF CorpusInit, Idle
<1>3. CASE docs = [d \in Docs |-> None]
  BY <1>1, <1>2, <1>3 DEF VectorInv, OneVectorSpace, Present
<1>4. CASE \E d0 \in Docs, c0 \in Contents \ Invalid, m \in Models :
             /\ docs = [d \in Docs |-> IF d = d0 THEN [content |-> c0, at |-> 0, vec |-> m] ELSE None]
             /\ meta = m /\ width = Dim[m]
  <2> PICK d0 \in Docs, c0 \in Contents \ Invalid, m \in Models :
             /\ docs = [d \in Docs |-> IF d = d0 THEN [content |-> c0, at |-> 0, vec |-> m] ELSE None]
             /\ meta = m /\ width = Dim[m]
    BY <1>4
  <2>1. \A d \in Present : docs[d].vec = m
    BY DEF Present
  <2>2. m # None
    BY CorpusAssumption
  <2> QED
    BY <1>1, <1>2, <2>1, <2>2 DEF VectorInv, OneVectorSpace
<1> QED
  BY <1>3, <1>4, CorpusAssumption DEF CorpusInit

LEMMA VectorStep ==
    ASSUME \A w \in Workers : ModelOf[w] = NewModel, VectorInv, [CorpusNext]_corpusVars
    PROVE  VectorInv'
<1>1. CorpusTypeOK' /\ JobsHaveText'
  BY CorpusTypingStep DEF VectorInv
<1>2. ASSUME NEW w \in Workers, NEW d \in Docs, NEW c \in Contents, Start(w, d, c)
      PROVE  VectorInv'
  <2>1. Known(w) \in {None, NewModel} => ModelAllowed
    BY DEF Known, VectorInv, ModelAllowed
  <2>2. \A v \in Workers : seen'[v].fresh /\ seen'[v].model \in {None, NewModel} => ModelAllowed
    BY <1>2, <2>1 DEF Start, VectorInv, CorpusTypeOK
  <2>3. \A v \in Workers : job'[v].pc # "idle" => ModelAllowed
    BY <1>2, <2>1 DEF Start, Agrees, VectorInv, CorpusTypeOK
  <2> QED
    BY <1>1, <1>2, <2>2, <2>3 DEF Start, VectorInv, ModelAllowed, OneVectorSpace, Present
<1>3. ASSUME NEW w \in Workers, Begin(w) \/ Delete(w) \/ Fail(w) \/ Expire(w)
      PROVE  VectorInv'
  <2>1. \A v \in Workers : job'[v].pc # "idle" => job[v].pc # "idle"
    BY <1>3 DEF Begin, Delete, Fail, Expire, Idle, VectorInv, CorpusTypeOK, Job
  <2>2. \A v \in Workers : seen'[v].fresh => seen'[v] = seen[v]
    BY <1>3 DEF Begin, Delete, Fail, Expire, VectorInv, CorpusTypeOK
  <2>3. UNCHANGED <<docs, meta, width, reembed>>
    BY <1>3 DEF Begin, Delete, Fail, Expire
  <2> QED
    BY <1>1, <2>1, <2>2, <2>3 DEF VectorInv, ModelAllowed, OneVectorSpace, Present
<1>4. ASSUME NEW w \in Workers, Commit(w)
      PROVE  VectorInv'
  <2> DEFINE d == job[w].doc
  <2>1. /\ d \in Docs /\ Present' = Present \cup {d}
        /\ \A e \in Docs \ {d} : docs'[e] = docs[e]
    BY <1>4, CommitPutsText DEF VectorInv
  <2>2. docs'[d].vec = NewModel
    BY <1>4, <2>1 DEF Commit, VectorInv, CorpusTypeOK
  <2>3. meta \in {None, NewModel} /\ meta' = NewModel /\ width' = width /\ width = Dim[NewModel]
    BY <1>4 DEF Commit, Accepted, VectorInv, ModelAllowed
  <2>4. \A e \in Present \ {d} : e \in Docs /\ docs'[e] = docs[e] /\ docs'[e].vec = NewModel
    BY <2>1, <2>3 DEF VectorInv, OneVectorSpace, Present
  <2>5. \A e \in Present' : docs'[e].vec = NewModel
    BY <2>1, <2>2, <2>4
  <2>6. UNCHANGED <<seen, reembed>>
    BY <1>4 DEF Commit
  <2>7. meta' # None
    BY <2>3, CorpusAssumption
  <2> HIDE DEF d
  <2> QED
    BY <1>1, <2>3, <2>5, <2>6, <2>7 DEF VectorInv, ModelAllowed, OneVectorSpace
<1>5. CASE ReembedReads
  BY <1>1, <1>5 DEF ReembedReads, VectorInv, ModelAllowed, OneVectorSpace, Present
<1>6. CASE ReembedWrites
  <2>1. Present' = Present
    BY <1>6, ReembedKeepsTexts DEF VectorInv, SameTexts, Present
  <2>2. \A e \in Present : docs'[e].vec = NewModel
    <3> SUFFICES ASSUME NEW e \in Present PROVE docs'[e].vec = NewModel
      OBVIOUS
    <3>1. docs'[e] = [docs[e] EXCEPT !.vec = Reembedded(docs[e])] /\ docs[e] \in Row
      BY <1>6 DEF ReembedWrites, Present, VectorInv, CorpusTypeOK
    <3>2. docs'[e].vec = Reembedded(docs[e])
      BY <3>1 DEF Row
    <3>3. Reembedded(docs[e]) = NewModel
      BY <1>6 DEF Reembedded, ReembedWrites, VectorInv
    <3> QED
      BY <3>2, <3>3
  <2>3. meta' = NewModel /\ width' = Dim[NewModel] /\ meta' # None /\ reembed'.pc = "done"
    BY <1>6, CorpusAssumption DEF ReembedWrites, VectorInv, CorpusTypeOK, Reembed
  <2> QED
    BY <1>1, <2>1, <2>2, <2>3 DEF VectorInv, ModelAllowed, OneVectorSpace
<1>7. CASE Migrate
  BY <1>1, <1>7 DEF Migrate, VectorInv, ModelAllowed, OneVectorSpace, Present
<1>8. CASE UNCHANGED corpusVars
  BY <1>1, <1>8 DEF corpusVars, VectorInv, ModelAllowed, OneVectorSpace, Present
<1> QED
  BY <1>2, <1>3, <1>4, <1>5, <1>6, <1>7, <1>8 DEF CorpusNext, WorkerStep

\* With the services restarted on the new model, the vectors of the corpus are
\* of one model and width at every moment of a re-embedding.
THEOREM OneModelAtATime ==
    ASSUME \A w \in Workers : ModelOf[w] = NewModel
    PROVE  CorpusSpec => []OneVectorSpace
<1>1. VectorInv => OneVectorSpace
  BY DEF VectorInv
<1>2. VectorInv /\ [CorpusNext]_corpusVars => VectorInv'
  BY VectorStep
<1> QED
  BY VectorInit, <1>1, <1>2, PTL DEF CorpusSpec


-----------------------------------------------------------------------------
(* Sequences without one of their elements *)

LEMMA WithoutOne ==
    ASSUME NEW S, NEW q \in Seq(S), NEW i \in 1..Len(q)
    PROVE  /\ RemoveAt(q, i) \in Seq(S) /\ Len(RemoveAt(q, i)) = Len(q) - 1
           /\ \A j \in 1..(Len(q) - 1) : RemoveAt(q, i)[j] = IF j < i THEN q[j] ELSE q[j + 1]
<1> DEFINE n == Len(q)
           a == SubSeq(q, 1, i - 1)
           b == SubSeq(q, i + 1, n)
<1>1. n \in Nat /\ i \in 1..n
  OBVIOUS
<1>2. a \in Seq(S) /\ Len(a) = i - 1 /\ \A j \in 1..(i - 1) : a[j] = q[j]
  <2>1. (\A j \in 1..(i - 1) : q[j] \in S) /\ i - 1 \in Int /\ 1 \in Int
    BY <1>1
  <2>2. QED
    BY <2>1, SubSeqProperties
<1>3. b \in Seq(S) /\ Len(b) = n - i /\ \A j \in 1..(n - i) : b[j] = q[i + j]
  <2>1. (\A j \in (i + 1)..n : q[j] \in S) /\ i + 1 \in Int /\ n \in Int
    BY <1>1
  <2>2. /\ SubSeq(q, i + 1, n) \in Seq(S)
        /\ Len(SubSeq(q, i + 1, n)) = IF i + 1 <= n THEN n - (i + 1) + 1 ELSE 0
        /\ \A j \in 1..(n - (i + 1) + 1) : SubSeq(q, i + 1, n)[j] = q[i + 1 + j - 1]
    BY <2>1, SubSeqProperties
  <2> HIDE DEF b, n
  <2>3. /\ n - (i + 1) + 1 = n - i
        /\ (IF i + 1 <= n THEN n - (i + 1) + 1 ELSE 0) = n - i
        /\ \A j \in 1..(n - i) : i + 1 + j - 1 = i + j
    BY <1>1
  <2>4. b = SubSeq(q, i + 1, n)
    BY DEF b
  <2>5. QED
    BY <2>2, <2>3, <2>4
<1> HIDE DEF a, b, n
<1>4. RemoveAt(q, i) = a \o b
  BY DEF RemoveAt, a, b, n
<1>5. /\ a \o b \in Seq(S) /\ Len(a \o b) = Len(a) + Len(b)
      /\ \A j \in 1..(Len(a) + Len(b)) : (a \o b)[j] = IF j <= Len(a) THEN a[j] ELSE b[j - Len(a)]
  BY <1>2, <1>3, ConcatProperties
<1>6. Len(a) + Len(b) = n - 1
  BY <1>1, <1>2, <1>3
<1>7. ASSUME NEW j \in 1..(n - 1)
      PROVE  (a \o b)[j] = IF j < i THEN q[j] ELSE q[j + 1]
  <2>1. (a \o b)[j] = IF j <= i - 1 THEN a[j] ELSE b[j - (i - 1)]
    BY <1>2, <1>5, <1>6
  <2>2. CASE j < i
    <3>1. j \in 1..(i - 1) /\ j <= i - 1
      BY <1>1, <2>2
    <3>2. QED
      BY <1>2, <2>1, <2>2, <3>1
  <2>3. CASE ~(j < i)
    <3>1. /\ ~(j <= i - 1) /\ j - (i - 1) \in 1..(n - i) /\ i + (j - (i - 1)) = j + 1
      BY <1>1, <2>3
    <3>2. b[j - (i - 1)] = q[i + (j - (i - 1))]
      BY <1>3, <3>1
    <3>3. QED
      BY <2>1, <2>3, <3>1, <3>2
  <2>4. QED
    BY <2>2, <2>3
<1>8. QED
  BY <1>4, <1>5, <1>6, <1>7 DEF n

-----------------------------------------------------------------------------
(* The entries of the cache and the keys in the order of their last use *)

FullKeys == (Nat \X Nat) \X Keys
Entries == [key : FullKeys, fresh : BOOLEAN, found : Nat]

Distinct(u) == \A p, q \in 1..Len(u) : u[p] = u[q] => p = q
DistinctKeys(d) == \A i, j \in 1..Len(d) : d[i].key = d[j].key => i = j

\* Every entry's key has been used, and the entries lie in the order of use.
AllUsed(d, u) == \A i \in 1..Len(d) : \E p \in 1..Len(u) : u[p] = d[i].key
Ordered(d, u) ==
    \A i, j \in 1..Len(d) : i < j =>
        \E p, q \in 1..Len(u) : p < q /\ u[p] = d[i].key /\ u[q] = d[j].key

\* RecentlyUsedKept.
Kept(d, u, P) ==
    \A p \in 1..Len(u) : Len(u) - p < MaxEntries /\ u[p] \notin P
        => \E j \in 1..Len(d) : d[j].key = u[p]

InUseOrder(d, u) ==
    /\ d \in Seq(Entries) /\ DistinctKeys(d)
    /\ u \in Seq(FullKeys) /\ Distinct(u)
    /\ AllUsed(d, u) /\ Ordered(d, u)

\* v is u with k last: the others keep their order, and come no nearer to the end.
UsedLast(u, k, v) ==
    /\ v \in Seq(FullKeys) /\ Distinct(v) /\ Len(v) \in Nat \ {0} /\ v[Len(v)] = k
    /\ \A p, q \in 1..Len(u) : p < q /\ u[p] # k /\ u[q] # k =>
         \E r, s \in 1..(Len(v) - 1) : r < s /\ v[r] = u[p] /\ v[s] = u[q]
    /\ \A p \in 1..Len(u) : u[p] # k => \E r \in 1..(Len(v) - 1) : v[r] = u[p]
    /\ \A r \in 1..(Len(v) - 1) : \E p \in 1..Len(u) :
         v[r] = u[p] /\ u[p] # k /\ Len(u) - p <= Len(v) - r

LEMMA RecencyShape ==
    ASSUME NEW u \in Seq(FullKeys), Distinct(u), NEW k \in FullKeys
    PROVE  UsedLast(u, k, Append(RemoveFirst(u, k), k))
<1> DEFINE n == Len(u)
           v == Append(RemoveFirst(u, k), k)
<1>1. n \in Nat /\ \A p \in 1..n : u[p] \in FullKeys
  OBVIOUS
<1>2. CASE \E i \in 1..n : u[i] = k
  <2>1. PICK i \in 1..n : u[i] = k
    BY <1>2
  <2> DEFINE w == RemoveAt(u, i)
  <2>2. RemoveFirst(u, k) = w
    <3>1. {j \in 1..Len(u) : u[j] = k} = {i}
      BY <2>1 DEF Distinct
    <3>2. Min({i}) = i
      BY <2>1 DEF Min
    <3>3. SelectInSeq(u, LAMBDA x : x = k) = i
      BY <3>1, <3>2 DEF SelectInSeq
    <3>4. QED
      BY <1>2, <3>3 DEF RemoveFirst
  <2>3. /\ w \in Seq(FullKeys) /\ Len(w) = n - 1
        /\ \A j \in 1..(n - 1) : w[j] = IF j < i THEN u[j] ELSE u[j + 1]
    BY <2>1, WithoutOne
  <2>a. v = Append(w, k)
    BY <2>2
  <2> HIDE DEF w, n, v
  <2>4. /\ v \in Seq(FullKeys) /\ Len(v) = n /\ v[n] = k
        /\ \A j \in 1..(n - 1) : v[j] = IF j < i THEN u[j] ELSE u[j + 1]
    <3>1. /\ v \in Seq(FullKeys) /\ Len(v) = (n - 1) + 1 /\ v[(n - 1) + 1] = k
          /\ \A j \in 1..(n - 1) : v[j] = w[j]
      BY <2>3, <2>a
    <3>2. (n - 1) + 1 = n
      BY <1>1
    <3>3. QED
      BY <2>3, <3>1, <3>2
  <2> DEFINE Old(r) == IF r < i THEN r ELSE r + 1
             New(p) == IF p < i THEN p ELSE p - 1
  <2>5. \A r \in 1..(n - 1) : Old(r) \in 1..n /\ Old(r) # i /\ v[r] = u[Old(r)] /\ n - Old(r) <= n - r
    BY <1>1, <2>1, <2>4
  <2>6. \A p \in 1..n : p # i => New(p) \in 1..(n - 1) /\ Old(New(p)) = p
    BY <1>1, <2>1
  <2>7. \A p, q \in 1..n : p < q /\ p # i /\ q # i => New(p) < New(q)
    BY <1>1, <2>1
  <2>8. \A r, s \in 1..(n - 1) : Old(r) = Old(s) => r = s
    BY <1>1, <2>1
  <2> HIDE DEF Old, New
  <2>9. \A p \in 1..n : u[p] = k <=> p = i
    BY <2>1 DEF Distinct, n
  <2>10. \A p \in 1..n : p # i => v[New(p)] = u[p]
    BY <2>5, <2>6
  <2>11. Distinct(v)
    <3> SUFFICES ASSUME NEW r \in 1..n, NEW s \in 1..n, v[r] = v[s]
                 PROVE  r = s
      BY <2>4 DEF Distinct
    <3>1. \A x \in 1..n : x = n \/ x \in 1..(n - 1)
      BY <1>1
    <3>2. \A x \in 1..(n - 1) : v[x] # k
      BY <2>5, <2>9
    <3>3. CASE r \in 1..(n - 1) /\ s \in 1..(n - 1)
      <4>1. v[r] = u[Old(r)] /\ v[s] = u[Old(s)] /\ Old(r) \in 1..n /\ Old(s) \in 1..n
        BY <2>5, <3>3
      <4>2. Old(r) = Old(s)
        BY <4>1 DEF Distinct, n
      <4>3. QED
        BY <2>8, <3>3, <4>2
    <3>4. QED
      BY <2>4, <3>1, <3>2, <3>3
  <2>12. n # 0
    BY <2>1
  <2>13. \A p, q \in 1..n : p < q /\ u[p] # k /\ u[q] # k =>
                \E r, s \in 1..(n - 1) : r < s /\ v[r] = u[p] /\ v[s] = u[q]
    BY <2>6, <2>7, <2>9, <2>10
  <2>14. \A p \in 1..n : u[p] # k => \E r \in 1..(n - 1) : v[r] = u[p]
    BY <2>6, <2>9, <2>10
  <2>15. \A r \in 1..(n - 1) : \E p \in 1..n : v[r] = u[p] /\ u[p] # k /\ n - p <= n - r
    BY <2>5, <2>9
  <2>16. /\ v \in Seq(FullKeys) /\ Distinct(v) /\ Len(v) \in Nat \ {0} /\ v[Len(v)] = k
         /\ Len(v) = n
    BY <1>1, <2>4, <2>11, <2>12
  <2>17. UsedLast(u, k, v)
    <3>1. \A p, q \in 1..n : p < q /\ u[p] # k /\ u[q] # k =>
                \E r, s \in 1..(Len(v) - 1) : r < s /\ v[r] = u[p] /\ v[s] = u[q]
      <4> SUFFICES ASSUME NEW p \in 1..n, NEW q \in 1..n, p < q /\ u[p] # k /\ u[q] # k
                   PROVE  \E r, s \in 1..(Len(v) - 1) : r < s /\ v[r] = u[p] /\ v[s] = u[q]
        OBVIOUS
      <4>1. PICK r \in 1..(n - 1), s \in 1..(n - 1) : r < s /\ v[r] = u[p] /\ v[s] = u[q]
        BY <2>13, Zenon
      <4>2. r \in 1..(Len(v) - 1) /\ s \in 1..(Len(v) - 1)
        BY <2>16, <4>1
      <4>3. QED
        BY <4>1, <4>2, Zenon
    <3>5. \A p \in 1..n : u[p] # k => \E r \in 1..(Len(v) - 1) : v[r] = u[p]
      BY <2>14, <2>16, Zenon
    <3>2. \A r \in 1..(Len(v) - 1) : \E p \in 1..n : v[r] = u[p] /\ u[p] # k /\ n - p <= Len(v) - r
      BY <2>15, <2>16, Zenon
    <3>3. n = Len(u)
      BY DEF n
    <3>4. QED
      BY <2>16, <3>1, <3>2, <3>3, <3>5, Zenon DEF UsedLast
  <2>18. QED
    BY <2>17 DEF v
<1>3. CASE ~\E i \in 1..n : u[i] = k
  <2>1. v = Append(u, k)
    BY <1>3 DEF RemoveFirst
  <2>2. /\ v \in Seq(FullKeys) /\ Len(v) = n + 1 /\ v[n + 1] = k
        /\ \A j \in 1..n : v[j] = u[j] /\ u[j] # k
    BY <1>3, <2>1
  <2> HIDE DEF n, v
  <2>3. (n + 1) - 1 = n /\ \A x \in 1..(n + 1) : x = n + 1 \/ x \in 1..n
    BY <1>1
  <2>4. Distinct(v)
    BY <2>2, <2>3 DEF Distinct, n
  <2>5. \A r \in 1..n : n - r <= (n + 1) - r
    BY <1>1
  <2>6. UsedLast(u, k, v)
    BY <1>1, <2>2, <2>3, <2>4, <2>5 DEF UsedLast, n
  <2>7. QED
    BY <2>6 DEF v
<1>4. QED
  BY <1>2, <1>3

\* r is d without its entry of key k.
OneLess(d, u, k, r) ==
    /\ InUseOrder(r, u) /\ Len(r) = Len(d) - 1
    /\ \A j \in 1..Len(r) : r[j].key # k
    /\ \A j \in 1..Len(r) : \E l \in 1..Len(d) : r[j] = d[l]
    /\ \A j \in 1..Len(d) : d[j].key # k => \E l \in 1..Len(r) : r[l].key = d[j].key

LEMMA RemovedInOrder ==
    ASSUME NEW d, NEW u, InUseOrder(d, u), NEW i \in 1..Len(d)
    PROVE  OneLess(d, u, d[i].key, RemoveAt(d, i))
<1> DEFINE n == Len(d)
           r == RemoveAt(d, i)
           At(j) == IF j < i THEN j ELSE j + 1
           From(j) == IF j < i THEN j ELSE j - 1
<1>1. /\ r \in Seq(Entries) /\ Len(r) = n - 1
      /\ \A j \in 1..(n - 1) : r[j] = IF j < i THEN d[j] ELSE d[j + 1]
  BY WithoutOne DEF InUseOrder
<1>2. n \in Nat /\ i \in 1..n
  BY DEF InUseOrder
<1> HIDE DEF n, r
<1>3. \A j \in 1..(n - 1) : At(j) \in 1..n /\ At(j) # i /\ r[j] = d[At(j)]
  BY <1>1, <1>2
<1>4. \A j, l \in 1..(n - 1) : j < l => At(j) < At(l)
  BY <1>2
<1>5. \A j, l \in 1..(n - 1) : At(j) = At(l) => j = l
  BY <1>2
<1>6. \A j \in 1..n : j # i => From(j) \in 1..(n - 1) /\ At(From(j)) = j
  BY <1>2
<1> HIDE DEF At, From
<1>7. DistinctKeys(r)
  BY <1>1, <1>3, <1>5 DEF DistinctKeys, InUseOrder, n
<1>8. AllUsed(r, u)
  BY <1>1, <1>3 DEF AllUsed, InUseOrder, n
<1>9. Ordered(r, u)
  <2>1. \A x, y \in 1..n : x < y =>
            \E p, q \in 1..Len(u) : p < q /\ u[p] = d[x].key /\ u[q] = d[y].key
    BY DEF Ordered, InUseOrder, n
  <2>2. ASSUME NEW j \in 1..(n - 1), NEW l \in 1..(n - 1), j < l
        PROVE  \E p, q \in 1..Len(u) : p < q /\ u[p] = r[j].key /\ u[q] = r[l].key
    <3>1. /\ At(j) \in 1..n /\ At(l) \in 1..n /\ At(j) < At(l)
          /\ r[j] = d[At(j)] /\ r[l] = d[At(l)]
      BY <1>3, <1>4, <2>2
    <3>2. QED
      BY <2>1, <3>1
  <2>3. QED
    BY <1>1, <2>2 DEF Ordered
<1>10. \A j \in 1..(n - 1) : r[j].key # d[i].key
  BY <1>2, <1>3 DEF DistinctKeys, InUseOrder, n
<1>11. \A j \in 1..n : d[j].key # d[i].key => \E l \in 1..(n - 1) : r[l].key = d[j].key
  BY <1>3, <1>6
<1>12. OneLess(d, u, d[i].key, r)
  BY <1>1, <1>3, <1>7, <1>8, <1>9, <1>10, <1>11 DEF OneLess, InUseOrder, n
<1>13. QED
  BY <1>12 DEF r

\* a is d with e at the end.
OneMore(d, e, a, v) ==
    /\ InUseOrder(a, v) /\ Len(a) = Len(d) + 1 /\ a[Len(d) + 1] = e
    /\ \A j \in 1..Len(d) : a[j] = d[j]

LEMMA UsedInOrder ==
    ASSUME NEW d, NEW u, InUseOrder(d, u), NEW e \in Entries,
           \A j \in 1..Len(d) : d[j].key # e.key
    PROVE  OneMore(d, e, Append(d, e), Append(RemoveFirst(u, e.key), e.key))
<1> DEFINE n == Len(d)
           k == e.key
           v == Append(RemoveFirst(u, k), k)
           a == Append(d, e)
<1>1. /\ n \in Nat /\ a \in Seq(Entries) /\ Len(a) = n + 1 /\ a[n + 1] = e
      /\ \A j \in 1..n : a[j] = d[j]
  BY DEF InUseOrder
<1>2. k \in FullKeys
  BY DEF Entries
<1>3. UsedLast(u, k, v)
  <2>1. u \in Seq(FullKeys) /\ Distinct(u)
    BY DEF InUseOrder
  <2> HIDE DEF k
  <2>2. QED
    BY <1>2, <2>1, RecencyShape
<1> DEFINE m == Len(v)
<1> HIDE DEF n, k, m, v, a
<1>4. \A x \in 1..(n + 1) : x = n + 1 \/ x \in 1..n
  BY <1>1
<1>5. /\ \A r \in 1..(m - 1) : r \in 1..m /\ r < m
      /\ m \in 1..m
  <2>1. m \in Nat \ {0}
    BY <1>3 DEF UsedLast, m
  <2>2. QED
    BY <2>1
<1>6. \A j \in 1..n : d[j].key # k
  BY DEF n, k
<1>7. DistinctKeys(a)
  BY <1>1, <1>4, <1>6 DEF DistinctKeys, InUseOrder, n, k
<1>8. ASSUME NEW j \in 1..n
      PROVE  \E r \in 1..(m - 1) : v[r] = a[j].key
  <2>1. PICK p \in 1..Len(u) : u[p] = d[j].key
    BY DEF AllUsed, InUseOrder, n
  <2>2. u[p] # k
    BY <1>6, <2>1
  <2>3. PICK r \in 1..(m - 1) : v[r] = u[p]
    BY <1>3, <2>2 DEF UsedLast, m
  <2>4. QED
    BY <1>1, <2>1, <2>3
<1>9. AllUsed(a, v)
  <2>1. \A x \in 1..(n + 1) : \E p \in 1..m : v[p] = a[x].key
    BY <1>1, <1>3, <1>4, <1>5, <1>8 DEF UsedLast, m, k
  <2>2. QED
    BY <1>1, <2>1 DEF AllUsed, m
<1>10. Ordered(a, v)
  <2>1. ASSUME NEW i \in 1..(n + 1), NEW j \in 1..(n + 1), i < j
        PROVE  \E p, q \in 1..m : p < q /\ v[p] = a[i].key /\ v[q] = a[j].key
    <3>1. i \in 1..n
      BY <1>1, <2>1
    <3>2. CASE j \in 1..n
      <4>1. PICK p \in 1..Len(u), q \in 1..Len(u) : p < q /\ u[p] = d[i].key /\ u[q] = d[j].key
        BY <2>1, <3>1, <3>2 DEF Ordered, InUseOrder, n
      <4>2. u[p] # k /\ u[q] # k
        BY <1>6, <3>1, <3>2, <4>1
      <4>3. PICK r \in 1..(m - 1), s \in 1..(m - 1) : r < s /\ v[r] = u[p] /\ v[s] = u[q]
        BY <1>3, <4>1, <4>2 DEF UsedLast, m
      <4>4. r \in 1..m /\ s \in 1..m /\ v[r] = a[i].key /\ v[s] = a[j].key
        BY <1>1, <1>5, <3>1, <3>2, <4>1, <4>3
      <4>5. QED
        BY <4>3, <4>4
    <3>3. CASE j = n + 1
      <4>1. PICK r \in 1..(m - 1) : v[r] = a[i].key
        BY <1>8, <3>1
      <4>2. r \in 1..m /\ m \in 1..m /\ r < m /\ v[m] = a[j].key
        BY <1>1, <1>3, <1>5, <3>3, <4>1 DEF UsedLast, m, k
      <4>3. QED
        BY <4>1, <4>2
    <3>4. QED
      BY <1>4, <3>2, <3>3
  <2>2. SUFFICES ASSUME NEW i \in 1..Len(a), NEW j \in 1..Len(a), i < j
                 PROVE  \E p, q \in 1..Len(v) : p < q /\ v[p] = a[i].key /\ v[q] = a[j].key
    BY DEF Ordered
  <2>3. i \in 1..(n + 1) /\ j \in 1..(n + 1) /\ m = Len(v)
    BY <1>1 DEF m
  <2>4. PICK p \in 1..m, q \in 1..m : p < q /\ v[p] = a[i].key /\ v[q] = a[j].key
    BY <2>1, <2>2, <2>3
  <2>5. QED
    BY <2>3, <2>4
<1>11. OneMore(d, e, a, v)
  BY <1>1, <1>3, <1>7, <1>9, <1>10 DEF OneMore, InUseOrder, UsedLast, n
<1>12. QED
  BY <1>11 DEF a, v, k

\* The first entry has at least as many keys after it as the cache has entries
\* after it.
LEMMA FirstIsFar ==
    ASSUME NEW d, NEW u, InUseOrder(d, u), d # <<>>,
           NEW p \in 1..Len(u), u[p] = d[1].key
    PROVE  Len(d) - 1 <= Len(u) - p
<1> DEFINE n == Len(d)
           m == Len(u)
           S == 2..n
           T == (p + 1)..m
           pos == [j \in S |-> CHOOSE q \in 1..m : u[q] = d[j].key]
<1>1. n \in Nat \ {0} /\ m \in Nat /\ p \in 1..m
  BY EmptySeq DEF InUseOrder
<1> HIDE DEF n, m
<1>2. ASSUME NEW j \in S
      PROVE  pos[j] \in T /\ u[pos[j]] = d[j].key
  <2>1. 1 \in 1..n /\ j \in 1..n /\ 1 < j
    BY <1>1
  <2>2. PICK a \in 1..m, q \in 1..m : a < q /\ u[a] = d[1].key /\ u[q] = d[j].key
    BY <2>1 DEF Ordered, InUseOrder, n, m
  <2>3. a = p
    BY <2>2 DEF Distinct, InUseOrder, m
  <2>4. pos[j] \in 1..m /\ u[pos[j]] = d[j].key
    BY <2>2
  <2>5. pos[j] = q
    BY <2>2, <2>4 DEF Distinct, InUseOrder, m
  <2> HIDE DEF pos
  <2>6. QED
    BY <1>1, <2>2, <2>3, <2>4, <2>5
<1>3. pos \in Injection(S, T)
  <2>1. ASSUME NEW i \in S, NEW j \in S, pos[i] = pos[j]
        PROVE  i = j
    <3>1. d[i].key = d[j].key /\ i \in 1..n /\ j \in 1..n
      BY <1>1, <1>2, <2>1
    <3>2. QED
      BY <3>1 DEF DistinctKeys, InUseOrder, n
  <2>2. pos \in [S -> T]
    BY <1>2
  <2> HIDE DEF pos, S, T
  <2>3. QED
    BY <2>1, <2>2 DEF Injection, IsInjective
<1>4. /\ IsFiniteSet(T) /\ Cardinality(T) = IF p + 1 > m THEN 0 ELSE m - (p + 1) + 1
      /\ Cardinality(S) = IF 2 > n THEN 0 ELSE n - 2 + 1
  <2>1. p + 1 \in Int /\ m \in Int /\ 2 \in Int /\ n \in Int
    BY <1>1
  <2>2. QED
    BY <2>1, FS_Interval
<1>5. Cardinality(S) <= Cardinality(T)
  <2> HIDE DEF pos, S, T
  <2>1. QED
    BY <1>3, <1>4, FS_Injection
<1>6. QED
  BY <1>1, <1>4, <1>5 DEF n, m

-----------------------------------------------------------------------------
(* Types and the order of use, step by step *)

\* A call that has a version, and what it asks.
HasVersion == {"read", "missed", "searched", "answered"}

CallsReady ==
    \A c \in Callers :
        /\ call[c].pc # "idle" => call[c].key \in Keys
        /\ call[c].pc \in HasVersion => call[c].ver \in Nat \X Nat

CacheInv ==
    /\ CacheTypeOK /\ CallsReady
    /\ version.fresh => version.value \in Nat \X Nat
    /\ changes \in Nat
    /\ InUseOrder(data, used) /\ Kept(data, used, popped)

\* Only c moves, to k.
MovesTo(c, k) == call' = [call EXCEPT ![c] = k]

LEMMA CallMoves ==
    ASSUME CacheInv, NEW c \in Callers, NEW k \in CallState, MovesTo(c, k),
           k.pc # "idle" => k.key \in Keys,
           k.pc \in HasVersion => k.ver \in Nat \X Nat
    PROVE  call' \in [Callers -> CallState] /\ CallsReady' /\ call'[c] = k
           /\ \A d \in Callers \ {c} : call'[d] = call[d]
BY DEF CacheInv, CacheTypeOK, MovesTo, CallsReady

\* The types of the entries, from their order.
LEMMA DataTyped ==
    ASSUME NEW d, NEW u, InUseOrder(d, u)
    PROVE  /\ d \in Seq([key : (Nat \X Nat) \X Keys, fresh : BOOLEAN, found : Nat])
           /\ IsInjective([i \in 1..Len(d) |-> d[i].key])
BY DEF InUseOrder, Entries, FullKeys, DistinctKeys, IsInjective

LEMMA NoCallTyped == NoCall \in CallState /\ NoCall.pc = "idle"
BY DEF NoCall, CallState

\* What a lookup does: the call has its answer or not, and the entries are in
\* the order of use still.
LookedUp(c, key, ver, at) ==
    /\ \E k \in CallState :
        /\ MovesTo(c, k)
        /\ k.key = key /\ k.ver = ver /\ k.at = at /\ k.pc \in {"missed", "answered"}
        /\ k.pc = "answered" =>
             \E i \in 1..Len(data) : data[i].key = <<ver, key>> /\ data[i].found = k.found
    /\ \A j \in 1..Len(data') : \E i \in 1..Len(data) :
         data'[j].key = data[i].key /\ data'[j].found = data[i].found
    /\ Len(data') <= Len(data)
    /\ InUseOrder(data', used') /\ Kept(data', used', popped')

LEMMA HitKeeps ==
    ASSUME CacheInv, NEW i \in 1..Len(data), NEW k, k = data[i].key,
           data' = Touched(i), used' = Recency(k), popped' = popped
    PROVE  /\ InUseOrder(data', used') /\ Kept(data', used', popped')
           /\ Len(data') = Len(data)
           /\ \A j \in 1..Len(data') : \E l \in 1..Len(data) : data'[j] = data[l]
<1> DEFINE r == RemoveAt(data, i)
           n == Len(data)
           e == data[i]
<1>1. InUseOrder(data, used) /\ n \in Nat /\ i \in 1..n /\ e \in Entries /\ k = e.key
  BY DEF CacheInv, InUseOrder
<1>2. OneLess(data, used, k, r)
  BY <1>1, RemovedInOrder
<1>3. data' = Append(r, e) /\ used' = Append(RemoveFirst(used, e.key), e.key)
  BY <1>1 DEF Touched, Recency
<1> HIDE DEF r, n, e
<1>4. OneMore(r, e, data', used')
  <2>1. InUseOrder(r, used) /\ \A j \in 1..Len(r) : r[j].key # e.key
    BY <1>1, <1>2 DEF OneLess
  <2>2. QED
    BY <1>1, <1>3, <2>1, UsedInOrder
<1>5. Len(data') = n /\ Len(r) + 1 = n
  BY <1>1, <1>2, <1>4 DEF OneLess, OneMore, n
<1>6. \A j \in 1..n : j = n \/ j \in 1..Len(r)
  BY <1>1, <1>2 DEF OneLess, n
<1>7. \A j \in 1..Len(data') : \E l \in 1..n : data'[j] = data[l]
  <2>1. \A j \in 1..Len(r) : \E l \in 1..n : data'[j] = data[l]
    BY <1>2, <1>4 DEF OneLess, OneMore, n
  <2>2. data'[n] = data[i]
    BY <1>4, <1>5 DEF OneMore, e
  <2>3. QED
    BY <1>1, <1>5, <1>6, <2>1, <2>2
<1>8. \A l \in 1..Len(r) : l \in 1..n
  BY <1>1, <1>2 DEF OneLess, n
<1>9. ASSUME NEW p \in 1..Len(used'), Len(used') - p < MaxEntries, used'[p] \notin popped
      PROVE  \E j \in 1..n : data'[j].key = used'[p]
  <2>1. UsedLast(used, k, used')
    <3>1. used \in Seq(FullKeys) /\ Distinct(used) /\ k \in FullKeys
      BY <1>1 DEF InUseOrder, Entries
    <3>2. QED
      BY <1>1, <1>3, <3>1, RecencyShape
  <2>2. Len(used') \in Nat \ {0} /\ used'[Len(used')] = k
    BY <2>1 DEF UsedLast
  <2>3. CASE p = Len(used')
    <3>1. n \in 1..n /\ data'[n] = e
      BY <1>1, <1>4, <1>5 DEF OneMore
    <3>2. QED
      BY <1>1, <2>2, <2>3, <3>1
  <2>4. CASE p # Len(used')
    <3>1. p \in 1..(Len(used') - 1)
      BY <2>2, <2>4
    <3>2. PICK q \in 1..Len(used) : used'[p] = used[q] /\ used[q] # k /\ Len(used) - q <= Len(used') - p
      BY <2>1, <3>1 DEF UsedLast
    <3>3. Len(used) \in Nat
      BY <1>1 DEF InUseOrder
    <3>4. Len(used) - q < MaxEntries
      BY <1>9, <2>2, <3>2, <3>3, CacheAssumption
    <3>5. PICK j \in 1..n : data[j].key = used[q]
      BY <1>9, <3>2, <3>4 DEF CacheInv, Kept, n
    <3>6. PICK l \in 1..Len(r) : r[l].key = data[j].key
      BY <1>2, <3>2, <3>5 DEF OneLess, n
    <3>7. QED
      BY <1>4, <1>8, <3>2, <3>5, <3>6 DEF OneMore
  <2>5. QED
    BY <2>3, <2>4
<1>10. Kept(data', used', popped')
  BY <1>5, <1>9 DEF Kept
<1>11. QED
  BY <1>4, <1>5, <1>7, <1>10 DEF OneMore, n

LEMMA LookUpKeeps ==
    ASSUME CacheInv, NEW c \in Callers, NEW key \in Keys, NEW ver \in Nat \X Nat, NEW at \in Nat,
           LookUp(c, key, ver, at)
    PROVE  LookedUp(c, key, ver, at)
<1> DEFINE k == FullKey(ver, key)
           here == {i \in 1..Len(data) : data[i].key = k}
           state(pc, found) == [pc |-> pc, key |-> key, ver |-> ver, at |-> at, found |-> found]
<1>1. k = <<ver, key>> /\ k \in FullKeys
  BY DEF FullKey, FullKeys
<1>2. /\ InUseOrder(data, used) /\ data \in Seq(Entries) /\ Len(data) \in Nat
      /\ \A i \in 1..Len(data) : data[i] \in Entries /\ data[i].found \in Nat
  <2>1. InUseOrder(data, used) /\ data \in Seq(Entries)
    BY DEF CacheInv, InUseOrder
  <2>2. \A e \in Entries : e.found \in Nat
    BY DEF Entries
  <2>3. QED
    BY <2>1, <2>2
<1>3. \A pc \in {"missed", "answered"} : \A f \in Nat :
        /\ state(pc, f) \in CallState
        /\ state(pc, f).key = key /\ state(pc, f).ver = ver /\ state(pc, f).at = at
        /\ state(pc, f).pc = pc /\ state(pc, f).found = f
  BY DEF CallState
<1>4. CASE \E i \in here : /\ data[i].fresh
                           /\ MovesTo(c, state("answered", data[i].found))
                           /\ data' = Touched(i) /\ used' = Recency(k) /\ UNCHANGED popped
  <2>1. PICK i \in here : /\ MovesTo(c, state("answered", data[i].found))
                          /\ data' = Touched(i) /\ used' = Recency(k) /\ UNCHANGED popped
    BY <1>4
  <2>2. /\ InUseOrder(data', used') /\ Kept(data', used', popped') /\ Len(data') = Len(data)
        /\ \A j \in 1..Len(data') : \E l \in 1..Len(data) : data'[j] = data[l]
    BY <2>1, HitKeeps
  <2>3. \E s \in CallState :
        /\ MovesTo(c, s)
        /\ s.key = key /\ s.ver = ver /\ s.at = at /\ s.pc \in {"missed", "answered"}
        /\ s.pc = "answered" => \E l \in 1..Len(data) : data[l].key = <<ver, key>> /\ data[l].found = s.found
    <3>1. data[i].found \in Nat /\ i \in 1..Len(data) /\ data[i].key = <<ver, key>>
      BY <1>1, <1>2
    <3> DEFINE s == state("answered", data[i].found)
    <3>2. /\ s \in CallState /\ s.key = key /\ s.ver = ver /\ s.at = at
          /\ s.pc = "answered" /\ s.found = data[i].found
      BY <1>3, <3>1
    <3>3. MovesTo(c, s)
      BY <2>1
    <3> HIDE DEF s
    <3>4. QED
      BY <3>1, <3>2, <3>3
  <2>4. /\ \A j \in 1..Len(data') : \E l \in 1..Len(data) :
              data'[j].key = data[l].key /\ data'[j].found = data[l].found
        /\ Len(data') <= Len(data)
    <3>1. Len(data') <= Len(data)
      BY <1>2, <2>2
    <3>2. QED
      BY <2>2, <3>1, Zenon
  <2>5. QED
    BY <2>2, <2>3, <2>4, Zenon DEF LookedUp
<1>5. ASSUME MovesTo(c, state("missed", 0))
      PROVE  \E s \in CallState :
        /\ MovesTo(c, s)
        /\ s.key = key /\ s.ver = ver /\ s.at = at /\ s.pc \in {"missed", "answered"}
        /\ s.pc = "answered" => \E l \in 1..Len(data) : data[l].key = <<ver, key>> /\ data[l].found = s.found
  <2> DEFINE s == state("missed", 0)
  <2>1. s \in CallState /\ s.key = key /\ s.ver = ver /\ s.at = at /\ s.pc = "missed"
    BY <1>3
  <2> HIDE DEF s
  <2>2. MovesTo(c, s)
    BY <1>5 DEF s
  <2>3. QED
    BY <2>1, <2>2
<1>6. CASE \E i \in here : /\ ~data[i].fresh
                           /\ MovesTo(c, state("missed", 0))
                           /\ data' = RemoveAt(data, i) /\ popped' = popped \cup {k} /\ UNCHANGED used
  <2>1. PICK i \in here : /\ MovesTo(c, state("missed", 0))
                          /\ data' = RemoveAt(data, i) /\ popped' = popped \cup {k} /\ UNCHANGED used
    BY <1>6
  <2>2. OneLess(data, used, k, data')
    <3>1. i \in 1..Len(data) /\ data[i].key = k
      OBVIOUS
    <3>2. QED
      BY <1>2, <2>1, <3>1, RemovedInOrder
  <2>3. Kept(data', used', popped')
    <3> SUFFICES ASSUME NEW p \in 1..Len(used), Len(used) - p < MaxEntries, used[p] \notin popped'
                 PROVE  \E j \in 1..Len(data') : data'[j].key = used[p]
      BY <2>1 DEF Kept
    <3>1. used[p] \notin popped /\ used[p] # k
      BY <2>1
    <3>2. PICK j \in 1..Len(data) : data[j].key = used[p]
      BY <3>1 DEF CacheInv, Kept
    <3>3. QED
      BY <2>2, <3>1, <3>2 DEF OneLess
  <2>4. InUseOrder(data', used') /\ Len(data') <= Len(data)
    BY <1>2, <2>1, <2>2 DEF OneLess
  <2>5. \A j \in 1..Len(data') : \E l \in 1..Len(data) :
            data'[j].key = data[l].key /\ data'[j].found = data[l].found
    BY <2>2 DEF OneLess
  <2>6. QED
    BY <1>5, <2>1, <2>3, <2>4, <2>5, Zenon DEF LookedUp
<1>7. CASE MovesTo(c, state("missed", 0)) /\ UNCHANGED <<data, used, popped>>
  BY <1>2, <1>5, <1>7 DEF LookedUp, CacheInv
<1>8. QED
  BY <1>4, <1>6, <1>7 DEF LookUp, MovesTo

LEMMA PutKeeps ==
    ASSUME CacheInv, NEW k \in FullKeys, NEW found \in Nat,
           data' = StoredIn(k, found), used' = Recency(k), popped' = popped \ {k}
    PROVE  /\ InUseOrder(data', used') /\ Kept(data', used', popped')
           /\ Len(data') <= MaxEntries
           /\ \A j \in 1..Len(data') :
                \/ data'[j].key = k /\ data'[j].found = found
                \/ \E l \in 1..Len(data) : data'[j] = data[l]
<1> DEFINE r == RemoveFirstMatch(data, LAMBDA x : x.key = k)
           e == [key |-> k, fresh |-> TRUE, found |-> found]
           all == Append(r, e)
<1>1. InUseOrder(data, used) /\ Len(data) \in Nat /\ Len(data) <= MaxEntries
  BY DEF CacheInv, InUseOrder, CacheTypeOK
<1>2. /\ InUseOrder(r, used) /\ Len(r) <= Len(data)
      /\ \A j \in 1..Len(r) : r[j].key # k
      /\ \A j \in 1..Len(r) : \E l \in 1..Len(data) : r[j] = data[l]
      /\ \A j \in 1..Len(data) : data[j].key # k => \E l \in 1..Len(r) : r[l].key = data[j].key
  <2>1. CASE \E i \in 1..Len(data) : data[i].key = k
    <3>1. PICK i \in 1..Len(data) : data[i].key = k
      BY <2>1
    <3>2. {j \in 1..Len(data) : data[j].key = k} = {i}
      BY <1>1, <3>1 DEF InUseOrder, DistinctKeys
    <3>3. Min({i}) = i
      BY <3>1 DEF Min
    <3>4. SelectInSeq(data, LAMBDA x : x.key = k) = i
      BY <3>2, <3>3 DEF SelectInSeq
    <3>5. r = RemoveAt(data, i)
      BY <2>1, <3>4 DEF RemoveFirstMatch
    <3>6. OneLess(data, used, k, r)
      BY <1>1, <3>1, <3>5, RemovedInOrder
    <3> HIDE DEF r
    <3>7. QED
      BY <1>1, <3>6 DEF OneLess
  <2>2. CASE ~\E i \in 1..Len(data) : data[i].key = k
    <3>1. r = data
      BY <2>2 DEF RemoveFirstMatch
    <3> HIDE DEF r
    <3>2. QED
      BY <1>1, <2>2, <3>1
  <2>3. QED
    BY <2>1, <2>2
<1>3. data' = IF Len(all) > MaxEntries THEN Tail(all) ELSE all
  BY DEF StoredIn
<1>4. e \in Entries /\ e.key = k /\ e.found = found
  BY DEF Entries
<1> HIDE DEF r, e, all
<1>5. OneMore(r, e, all, used')
  <2>1. used' = Append(RemoveFirst(used, e.key), e.key)
    BY <1>4 DEF Recency
  <2>2. all = Append(r, e)
    BY DEF all
  <2>3. InUseOrder(r, used) /\ e \in Entries /\ \A j \in 1..Len(r) : r[j].key # e.key
    BY <1>2, <1>4
  <2>4. OneMore(r, e, Append(r, e), Append(RemoveFirst(used, e.key), e.key))
    BY ONLY <2>3, UsedInOrder
  <2>5. QED
    BY ONLY <2>1, <2>2, <2>4
<1> DEFINE n == Len(r)
<1>6. n \in Nat /\ n <= MaxEntries /\ Len(all) = n + 1 /\ all[n + 1] = e
  BY <1>1, <1>2, <1>5, CacheAssumption DEF OneMore, InUseOrder
<1>7. \A j \in 1..n : all[j] = r[j]
  BY <1>5 DEF OneMore
<1> HIDE DEF n
<1>8. \A j \in 1..(n + 1) : j = n + 1 \/ j \in 1..n
  BY <1>6
<1>9. \A j \in 1..Len(all) : \/ all[j].key = k /\ all[j].found = found
                             \/ \E l \in 1..Len(data) : all[j] = data[l]
  <2>1. \A j \in 1..n : \E l \in 1..Len(data) : all[j] = data[l]
    BY <1>2, <1>7 DEF n
  <2>2. QED
    BY <1>4, <1>6, <1>8, <2>1
<1>10. ASSUME NEW p \in 1..Len(used'), Len(used') - p < MaxEntries, used'[p] \notin popped'
       PROVE  \E j \in 1..Len(all) : all[j].key = used'[p]
  <2>1. UsedLast(used, k, used')
    <3>1. used \in Seq(FullKeys) /\ Distinct(used)
      BY <1>1 DEF InUseOrder
    <3>2. QED
      BY <3>1, RecencyShape DEF Recency
  <2>2. Len(used') \in Nat \ {0} /\ used'[Len(used')] = k
    BY <2>1 DEF UsedLast
  <2>3. CASE p = Len(used')
    BY <1>4, <1>6, <2>2, <2>3
  <2>4. CASE p # Len(used')
    <3>1. p \in 1..(Len(used') - 1)
      BY <2>2, <2>4
    <3>2. PICK q \in 1..Len(used) : used'[p] = used[q] /\ used[q] # k /\ Len(used) - q <= Len(used') - p
      BY <2>1, <3>1 DEF UsedLast
    <3>3. Len(used) \in Nat
      BY <1>1 DEF InUseOrder
    <3>4. Len(used) - q < MaxEntries
      BY <1>10, <2>2, <3>2, <3>3, CacheAssumption
    <3>5. used[q] \notin popped
      BY <1>10, <3>2
    <3>6. PICK j \in 1..Len(data) : data[j].key = used[q]
      BY <3>4, <3>5 DEF CacheInv, Kept
    <3>7. PICK l \in 1..n : r[l].key = used[q]
      BY <1>2, <3>2, <3>6 DEF n
    <3>8. l \in 1..Len(all) /\ all[l].key = used'[p]
      BY <1>6, <1>7, <3>2, <3>7
    <3>9. QED
      BY <3>8
  <2>5. QED
    BY <2>3, <2>4
<1>11. CASE ~(Len(all) > MaxEntries)
  <2>1. data' = all /\ Len(all) <= MaxEntries
    BY <1>3, <1>6, <1>11, CacheAssumption
  <2>2. InUseOrder(data', used')
    BY <1>5, <2>1 DEF OneMore
  <2>3. Kept(data', used', popped')
    BY <1>10, <2>1 DEF Kept
  <2>4. QED
    BY <1>9, <2>1, <2>2, <2>3
<1>12. CASE Len(all) > MaxEntries
  <2> DEFINE x == all[1].key
  <2>1. n = MaxEntries /\ MaxEntries \in Nat \ {0}
    BY <1>6, <1>12, CacheAssumption
  <2>2. InUseOrder(all, used')
    BY <1>5 DEF OneMore
  <2>3. all \in Seq(Entries) /\ 1 \in 1..Len(all) /\ all # <<>>
    BY <1>6, <2>1, <2>2 DEF InUseOrder
  <2>4. Tail(all) = RemoveAt(all, 1)
    <3>1. SubSeq(all, 1, 1 - 1) = <<>>
      BY SubSeqEmpty
    <3>2. SubSeq(all, 1 + 1, Len(all)) = Tail(all)
      BY <2>3, TailIsSubSeq
    <3>3. Tail(all) \in Seq(Entries)
      BY <2>3
    <3>4. <<>> \o Tail(all) = Tail(all)
      BY <3>3, ConcatEmptySeq
    <3>5. QED
      BY <3>1, <3>2, <3>4 DEF RemoveAt
  <2>5. OneLess(all, used', x, data')
    BY <1>3, <1>12, <2>2, <2>3, <2>4, RemovedInOrder
  <2>6. InUseOrder(data', used') /\ Len(data') = MaxEntries
    <3>1. Len(data') = Len(all) - 1 /\ InUseOrder(data', used')
      BY <2>5 DEF OneLess
    <3>2. QED
      BY <1>6, <2>1, <3>1
  <2>7. Kept(data', used', popped')
    <3> SUFFICES ASSUME NEW p \in 1..Len(used'), Len(used') - p < MaxEntries, used'[p] \notin popped'
                 PROVE  \E j \in 1..Len(data') : data'[j].key = used'[p]
      BY DEF Kept
    <3>1. PICK j \in 1..Len(all) : all[j].key = used'[p]
      BY <1>10
    <3>2. x # used'[p]
      <4>1. ASSUME used'[p] = x
            PROVE  FALSE
        <5>1. Len(all) - 1 <= Len(used') - p
          BY <2>2, <2>3, <4>1, FirstIsFar
        <5>2. Len(used') \in Nat
          BY <2>2 DEF InUseOrder
        <5>3. QED
          BY <1>6, <2>1, <5>1, <5>2
      <4>2. QED
        BY <4>1
    <3>3. QED
      BY <2>5, <3>1, <3>2 DEF OneLess
  <2>8. \A j \in 1..Len(data') : \E l \in 1..Len(all) : data'[j] = all[l]
    BY <2>5 DEF OneLess
  <2>9. \A j \in 1..Len(data') : \/ data'[j].key = k /\ data'[j].found = found
                                 \/ \E l \in 1..Len(data) : data'[j] = data[l]
    <3> SUFFICES ASSUME NEW j \in 1..Len(data')
                 PROVE  \/ data'[j].key = k /\ data'[j].found = found
                        \/ \E l \in 1..Len(data) : data'[j] = data[l]
      OBVIOUS
    <3>1. PICK l \in 1..Len(all) : data'[j] = all[l]
      BY <2>8
    <3>2. QED
      BY <1>9, <3>1
  <2>10. QED
    BY <2>1, <2>6, <2>7, <2>9
<1>13. QED
  BY <1>11, <1>12

\* The version read is a pair of numbers.
LEMMA CorpusVersionType ==
    ASSUME CorpusTypeOK
    PROVE  /\ CorpusVersion \in Nat \X Nat
           /\ \A d \in Present : docs[d].at \in Nat /\ docs[d].at <= CorpusVersion[2]
           /\ CorpusVersion[2] = 0 \/ \E d \in Present : docs[d].at = CorpusVersion[2]
<1> DEFINE S == {docs[d].at : d \in Present} \cup {0}
<1>1. S \subseteq 0..MaxStamp /\ S # {}
  BY CorpusAssumption DEF CorpusTypeOK, Present, Row
<1>2. \E x \in S : \A y \in S : x >= y
  <2> DEFINE Above == {x..MaxStamp : x \in S}
  <2>1. \A x \in S : (x..MaxStamp) \in SUBSET Nat /\ IsFiniteSet(x..MaxStamp)
    <3> SUFFICES ASSUME NEW x \in S
                 PROVE  (x..MaxStamp) \in SUBSET Nat /\ IsFiniteSet(x..MaxStamp)
      OBVIOUS
    <3>1. x \in Int /\ x \in Nat /\ MaxStamp \in Int
      BY <1>1, CorpusAssumption
    <3>2. IsFiniteSet(x..MaxStamp)
      BY <3>1, FS_Interval
    <3>3. QED
      BY <3>1, <3>2
  <2>2. Above \subseteq FiniteSubsetsOf(Nat) /\ Above # {}
    BY <1>1, <2>1 DEF FiniteSubsetsOf
  <2>3. \E s \in Above : \A r \in Above : ~(<<r, s>> \in StrictSubsetOrdering(Nat))
    <3>1. IsWellFoundedOn(StrictSubsetOrdering(Nat), FiniteSubsetsOf(Nat))
      BY FS_StrictSubsetOrderingWellFounded
    <3> HIDE DEF Above
    <3>2. QED
      BY <2>2, <3>1, WFMin
  <2>4. PICK x \in S : \A y \in S : ~(<<y..MaxStamp, x..MaxStamp>> \in StrictSubsetOrdering(Nat))
    BY <2>3
  <2>5. ASSUME NEW y \in S, ~(x >= y)
        PROVE  FALSE
    <3>1. x \in Nat /\ y \in Nat /\ x < y /\ x <= MaxStamp /\ MaxStamp \in Nat
      BY <1>1, <2>5, CorpusAssumption, SMTT(30)
    <3>2. y..MaxStamp \subseteq x..MaxStamp /\ x \in x..MaxStamp /\ x \notin y..MaxStamp
      BY <3>1
    <3>3. QED
      BY <2>1, <2>4, <3>2 DEF StrictSubsetOrdering
  <2>6. QED
    BY <2>5
<1>3. Max(S) \in S /\ \A y \in S : Max(S) >= y
  BY <1>2 DEF Max
<1>4. Cardinality(Present) \in Nat
  BY CacheAssumption, FS_Subset, FS_CardinalityType DEF Present
<1>5. CorpusVersion = <<Cardinality(Present), Max(S)>>
  BY DEF CorpusVersion
<1>6. \A y \in S : y \in Nat
  BY <1>1, CorpusAssumption
<1>7. \A d \in Present : docs[d].at \in S
  OBVIOUS
<1>8. Max(S) = 0 \/ \E d \in Present : docs[d].at = Max(S)
  BY <1>3
<1> HIDE DEF S
<1>9. QED
  BY <1>3, <1>4, <1>5, <1>6, <1>7, <1>8

LEMMA CacheInvInit == Init => CorpusTypeOK /\ JobsHaveText /\ CacheInv
<1> SUFFICES ASSUME Init
             PROVE  CorpusTypeOK /\ JobsHaveText /\ CacheInv
  OBVIOUS
<1>1. CorpusTypeOK /\ JobsHaveText
  BY CorpusTypingInit DEF Init
<1>2. call \in [Callers -> CallState] /\ \A c \in Callers : call[c].pc = "idle"
  BY NoCallTyped DEF Init, CacheInit
<1>3. InUseOrder(<<>>, <<>>) /\ Kept(<<>>, <<>>, {})
  BY DEF InUseOrder, Distinct, DistinctKeys, AllUsed, Ordered, Kept
<1>4. CacheTypeOK
  <2>1. version \in [fresh : BOOLEAN, value : (Nat \X Nat) \cup {None}, at : Nat]
    BY DEF Init, CacheInit
  <2>2. data = <<>> /\ Len(data) = 0
    BY DEF Init, CacheInit
  <2>3. QED
    <3>1. InUseOrder(data, used)
      BY <1>3, <2>2 DEF Init, CacheInit
    <3>2. /\ data \in Seq([key : (Nat \X Nat) \X Keys, fresh : BOOLEAN, found : Nat])
          /\ IsInjective([i \in 1..Len(data) |-> data[i].key])
      BY <3>1, DataTyped
    <3>3. Len(data) <= MaxEntries
      BY <2>2, CacheAssumption
    <3>4. QED
      BY <1>2, <2>1, <3>2, <3>3 DEF CacheTypeOK
<1>5. QED
  BY <1>1, <1>2, <1>3, <1>4 DEF Init, CacheInit, CacheInv, CallsReady, HasVersion

\* The step of a call that looks nothing up and puts nothing.
LEMMA CallStepInv ==
    ASSUME CacheInv, NEW c \in Callers, NEW k \in CallState, MovesTo(c, k),
           k.pc # "idle" => k.key \in Keys,
           k.pc \in HasVersion => k.ver \in Nat \X Nat,
           UNCHANGED <<version, data, changes, used, popped>>
    PROVE  CacheInv'
<1>1. call' \in [Callers -> CallState] /\ CallsReady'
  BY CallMoves
<1>2. QED
  BY <1>1 DEF CacheInv, CacheTypeOK

LEMMA LookedUpInv ==
    ASSUME CacheInv, NEW c \in Callers, NEW key \in Keys, NEW ver \in Nat \X Nat, NEW at \in Nat,
           LookUp(c, key, ver, at), changes' = changes,
           version' \in [fresh : BOOLEAN, value : (Nat \X Nat) \cup {None}, at : Nat],
           version'.fresh => version'.value \in Nat \X Nat
    PROVE  CacheInv'
<1>1. LookedUp(c, key, ver, at)
  BY LookUpKeeps
<1>2. PICK k \in CallState : MovesTo(c, k) /\ k.key = key /\ k.ver = ver
  BY <1>1 DEF LookedUp
<1>3. call' \in [Callers -> CallState] /\ CallsReady'
  BY <1>2, CallMoves
<1>4. InUseOrder(data', used') /\ Kept(data', used', popped') /\ Len(data') <= Len(data)
  BY <1>1 DEF LookedUp
<1>5. Len(data') <= MaxEntries
  <2>1. Len(data) \in Nat /\ Len(data) <= MaxEntries
    BY DEF CacheInv, CacheTypeOK
  <2>2. Len(data') \in Nat
    BY <1>4 DEF InUseOrder
  <2>3. QED
    BY <1>4, <2>1, <2>2, CacheAssumption
<1>6. CacheTypeOK'
  BY <1>3, <1>4, <1>5, DataTyped DEF CacheTypeOK
<1>7. QED
  BY <1>3, <1>4, <1>6 DEF CacheInv

LEMMA CacheInvStep ==
    ASSUME CorpusTypeOK, CacheInv, [Next]_vars
    PROVE  CacheInv'
<1> DEFINE V == [fresh : BOOLEAN, value : (Nat \X Nat) \cup {None}, at : Nat]
<1>0. /\ version \in V /\ changes \in Nat /\ call \in [Callers -> CallState] /\ CallsReady
      /\ InUseOrder(data, used) /\ Kept(data, used, popped)
      /\ version.fresh => version.value \in Nat \X Nat
      /\ version.at \in Nat
  BY DEF CacheInv, CacheTypeOK
<1>1. ASSUME NEW c \in Callers, NEW key \in Keys, Ask(c, key)
      PROVE  CacheInv'
  <2>1. CASE version.fresh
    <3>1. LookUp(c, key, version.value, version.at)
      BY <1>1, <2>1 DEF Ask
    <3>2. version' = version /\ changes' = changes
      BY <1>1 DEF Ask
    <3>3. QED
      BY <1>0, <2>1, <3>1, <3>2, LookedUpInv
  <2>2. CASE ~version.fresh
    <3> DEFINE k == [NoCall EXCEPT !.pc = "reading", !.key = key]
    <3>1. k \in CallState /\ k.pc = "reading" /\ k.key = key
      BY DEF NoCall, CallState
    <3>2. MovesTo(c, k) /\ UNCHANGED <<version, data, changes, used, popped>>
      BY <1>1, <2>2 DEF Ask, MovesTo
    <3> HIDE DEF k
    <3>3. QED
      BY <3>1, <3>2, CallStepInv DEF HasVersion
  <2>3. QED
    BY <1>0, <2>1, <2>2
<1>2. ASSUME NEW c \in Callers, ReadVersion(c)
      PROVE  CacheInv'
  <2> DEFINE k == [call[c] EXCEPT !.pc = "read", !.ver = CorpusVersion, !.at = changes]
  <2>1. CorpusVersion \in Nat \X Nat
    BY CorpusVersionType
  <2>2. k \in CallState /\ k.ver = CorpusVersion /\ k.key = call[c].key
    BY <1>0, <2>1, ZenonT(30) DEF CallState
  <2>3. MovesTo(c, k) /\ call[c].key \in Keys
    BY <1>0, <1>2 DEF ReadVersion, MovesTo, CallsReady
  <2> HIDE DEF k
  <2>4. QED
    BY <1>2, <2>1, <2>2, <2>3, CallStepInv DEF ReadVersion
<1>3. ASSUME NEW c \in Callers, KeepVersion(c)
      PROVE  CacheInv'
  <2>1. /\ call[c].pc = "read" /\ call[c].key \in Keys /\ call[c].ver \in Nat \X Nat
        /\ call[c].at \in Nat
    BY <1>0, <1>3 DEF KeepVersion, CallsReady, HasVersion, CallState
  <2>2. version' \in V /\ version'.value \in Nat \X Nat
    BY <1>3, <2>1 DEF KeepVersion
  <2>3. LookUp(c, call[c].key, call[c].ver, call[c].at) /\ changes' = changes
    BY <1>3 DEF KeepVersion
  <2>4. QED
    BY <2>1, <2>2, <2>3, LookedUpInv
<1>4. ASSUME NEW c \in Callers, Compute(c)
      PROVE  CacheInv'
  <2> DEFINE k == [call[c] EXCEPT !.pc = "searched", !.found = changes]
  <2>1. k \in CallState /\ k.ver = call[c].ver /\ k.key = call[c].key
    BY <1>0, ZenonT(30) DEF CallState
  <2>2. MovesTo(c, k) /\ call[c].key \in Keys /\ call[c].ver \in Nat \X Nat
    BY <1>0, <1>4 DEF Compute, MovesTo, CallsReady, HasVersion
  <2> HIDE DEF k
  <2>3. QED
    BY <1>4, <2>1, <2>2, CallStepInv DEF Compute
<1>5. ASSUME NEW c \in Callers, Put(c)
      PROVE  CacheInv'
  <2> DEFINE k == FullKey(call[c].ver, call[c].key)
             s == [call[c] EXCEPT !.pc = "answered"]
  <2>1. /\ call[c].key \in Keys /\ call[c].ver \in Nat \X Nat /\ call[c].found \in Nat
        /\ k \in FullKeys
    BY <1>0, <1>5 DEF Put, CallsReady, HasVersion, CallState, FullKey, FullKeys
  <2>2. s \in CallState /\ s.ver = call[c].ver /\ s.key = call[c].key
    BY <1>0 DEF CallState
  <2>3. MovesTo(c, s)
    BY <1>5 DEF Put, MovesTo
  <2>4. data' = StoredIn(k, call[c].found) /\ used' = Recency(k) /\ popped' = popped \ {k}
    BY <1>5 DEF Put
  <2> HIDE DEF k, s
  <2>5. InUseOrder(data', used') /\ Kept(data', used', popped') /\ Len(data') <= MaxEntries
    BY <2>1, <2>4, PutKeeps
  <2>6. call' \in [Callers -> CallState] /\ CallsReady'
    BY <2>1, <2>2, <2>3, CallMoves
  <2>7. UNCHANGED <<version, changes>>
    BY <1>5 DEF Put
  <2>8. QED
    BY <1>0, <2>5, <2>6, <2>7, DataTyped DEF CacheInv, CacheTypeOK
<1>6. ASSUME NEW c \in Callers, NotKept(c) \/ Return(c)
      PROVE  CacheInv'
  <2>1. MovesTo(c, NoCall) /\ UNCHANGED <<version, data, changes, used, popped>>
    BY <1>6 DEF NotKept, Return, MovesTo
  <2>2. QED
    BY <2>1, NoCallTyped, CallStepInv DEF HasVersion
<1>7. CASE VersionAges
  <2>1. version' \in V /\ ~version'.fresh
    BY <1>0, <1>7 DEF VersionAges
  <2>2. UNCHANGED <<call, data, changes, used, popped>>
    BY <1>7 DEF VersionAges
  <2>3. QED
    BY <2>1, <2>2 DEF CacheInv, CacheTypeOK, CallsReady
<1>8. ASSUME NEW i \in 1..Len(data), EntryAges(i)
      PROVE  CacheInv'
  <2>1. /\ data \in Seq(Entries) /\ data' = [data EXCEPT ![i].fresh = FALSE]
        /\ UNCHANGED <<version, call, changes, used, popped>>
    BY <1>0, <1>8 DEF EntryAges, InUseOrder
  <2>2. /\ data' \in Seq(Entries) /\ Len(data') = Len(data)
        /\ \A j \in 1..Len(data) : data'[j].key = data[j].key
    <3>1. [data[i] EXCEPT !.fresh = FALSE] \in Entries /\ [data[i] EXCEPT !.fresh = FALSE].key = data[i].key
      <4>1. data[i] \in Entries
        BY <2>1
      <4>2. QED
        BY <4>1 DEF Entries
    <3>2. QED
      BY <2>1, <3>1
  <2>3. InUseOrder(data', used')
    <3>1. DistinctKeys(data')
      BY <1>0, <2>2 DEF InUseOrder, DistinctKeys
    <3>2. AllUsed(data', used)
      BY <1>0, <2>2 DEF InUseOrder, AllUsed
    <3>3. Ordered(data', used)
      <4> SUFFICES ASSUME NEW j \in 1..Len(data'), NEW l \in 1..Len(data'), j < l
                   PROVE  \E p, q \in 1..Len(used) : p < q /\ used[p] = data'[j].key /\ used[q] = data'[l].key
        BY DEF Ordered
      <4>1. j \in 1..Len(data) /\ l \in 1..Len(data)
        BY <2>2
      <4>2. \E p, q \in 1..Len(used) : p < q /\ used[p] = data[j].key /\ used[q] = data[l].key
        BY <1>0, <4>1 DEF InUseOrder, Ordered
      <4>3. QED
        BY <2>2, <4>1, <4>2
    <3>4. QED
      BY <1>0, <2>1, <2>2, <3>1, <3>2, <3>3 DEF InUseOrder
  <2>4. Kept(data', used', popped')
    BY <1>0, <2>1, <2>2 DEF Kept
  <2>5. Len(data') <= MaxEntries
    BY <2>2 DEF CacheInv, CacheTypeOK
  <2>6. QED
    <3>1. CacheTypeOK'
      <4>1. /\ data' \in Seq([key : (Nat \X Nat) \X Keys, fresh : BOOLEAN, found : Nat])
            /\ IsInjective([j \in 1..Len(data') |-> data'[j].key])
        BY <2>3, DataTyped
      <4>2. QED
        BY <1>0, <2>1, <2>5, <4>1 DEF CacheTypeOK
    <3>2. CallsReady'
      BY <1>0, <2>1 DEF CallsReady
    <3>3. QED
      BY <1>0, <2>1, <2>3, <2>4, <3>1, <3>2 DEF CacheInv
<1>9. CASE IngestStep
  <2>1. UNCHANGED <<version, call, data, used, popped>> /\ changes' \in Nat
    BY <1>0, <1>9 DEF IngestStep
  <2>2. QED
    BY <2>1 DEF CacheInv, CacheTypeOK, CallsReady
<1>10. CASE UNCHANGED vars
  BY <1>10 DEF vars, cacheVars, CacheInv, CacheTypeOK, CallsReady
<1>11. QED
  BY <1>1, <1>2, <1>3, <1>4, <1>5, <1>6, <1>7, <1>8, <1>9, <1>10 DEF Next, CallStep

\* To the corpus, the steps of the cache are none.
LEMMA CacheLeavesCorpus == [Next]_vars => [CorpusNext]_corpusVars
BY DEF Next, CallStep, Ask, ReadVersion, KeepVersion, Compute, Put, NotKept, Return,
       VersionAges, EntryAges, IngestStep, CorpusNext, corpusVars, vars

\* Every variable keeps its type, and the cache its size: it never holds more
\* than max_entries, nor two entries of one key.
THEOREM CacheTyping == Spec => [](CorpusTypeOK /\ CacheTypeOK)
<1>1. CacheInv => CacheTypeOK
  BY DEF CacheInv
<1>2. QED
  BY CacheInvInit, CacheLeavesCorpus, CorpusTypingStep, CacheInvStep, <1>1, PTL DEF Spec

\* What has been used or put with fewer than max_entries others after it is
\* found again, unless its time was up: entries leave from the front, the
\* entries lie in the order in which their keys were used last, and the first of
\* a full cache has as many used after it as the cache has entries.
THEOREM RecentIsKept == Spec => []RecentlyUsedKept
<1>1. CacheInv => RecentlyUsedKept
  BY DEF CacheInv, Kept, RecentlyUsedKept
<1>2. QED
  BY CacheInvInit, CacheLeavesCorpus, CorpusTypingStep, CacheInvStep, <1>1, PTL DEF Spec

-----------------------------------------------------------------------------
(* No answer is older than the version it was asked with *)

\* The versions in use, each with the ingestions committed when it was read,
\* and the results, each with its version and those committed when computed.
Reads ==
    {<<call[c].ver, call[c].at>> : c \in {d \in Callers : call[d].pc \in HasVersion}}
        \cup (IF version.fresh THEN {<<version.value, version.at>>} ELSE {})

Results ==
    {<<call[c].ver, call[c].found>> : c \in {d \in Callers : call[d].pc \in {"searched", "answered"}}}
        \cup {<<data[i].key[1], data[i].found>> : i \in 1..Len(data)}

Latest == CorpusVersion[2]

\* Of the latest version only if nothing has been committed since.
UpToDate(x) == x[1][2] \in Nat /\ x[1][2] <= Latest /\ x[2] \in Nat /\ x[2] <= changes
               /\ (x[1][2] = Latest => x[2] = changes)

FreshInv ==
    /\ \A r \in Reads : UpToDate(r)
    /\ \A f \in Results : UpToDate(f)
    /\ \A r \in Reads, f \in Results : r[1] = f[1] => r[2] <= f[2]

\* What a transaction under way will write is newer than all there is.
StampInv ==
    /\ \A d \in Present : docs[d].at <= stamp
    /\ \A w \in Workers : job[w].pc \in {"begun", "deleted"} =>
         job[w].at \in Nat \ {0} /\ job[w].at <= stamp /\ \A d \in Present : docs[d].at < job[w].at

OneIngest == \A v, w \in Workers : v = w

\* The latest ingested_at, now and after a step.
LatestIsMax ==
    /\ Latest \in Nat /\ \A d \in Present : docs[d].at <= Latest
    /\ Latest = 0 \/ \E d \in Present : docs[d].at = Latest

LEMMA LatestType == CorpusTypeOK => LatestIsMax
BY CorpusVersionType DEF LatestIsMax, Latest

LEMMA LatestTypeNext == CorpusTypeOK' => LatestIsMax'
BY LatestType, PTL

LEMMA FreshGrows ==
    ASSUME CacheInv, CorpusTypeOK, FreshInv, docs' = docs, changes' = changes,
           \A r \in Reads' : r \in Reads \/ r = <<CorpusVersion, changes>>,
           \A f \in Results' : f \in Results \/ \E r \in Reads : f = <<r[1], changes>>
    PROVE  FreshInv'
<1>1. Latest' = Latest /\ Latest \in Nat /\ changes \in Nat
  BY CorpusVersionType DEF Latest, CorpusVersion, Present, CacheInv
<1>2. \A x : UpToDate(x)' <=> UpToDate(x)
  BY <1>1 DEF UpToDate
<1> DEFINE now == <<CorpusVersion, changes>>
<1>3. UpToDate(now) /\ now[1][2] = Latest /\ now[2] = changes
  BY <1>1 DEF UpToDate, Latest
<1> HIDE DEF now
<1>4. \A r \in Reads' : UpToDate(r) /\ (r \in Reads \/ r = now)
  BY <1>3 DEF FreshInv, now
<1>5. ASSUME NEW f \in Results'
      PROVE  UpToDate(f) /\ (f \in Results \/ f[2] = changes)
  <2>1. CASE f \in Results
    BY <2>1 DEF FreshInv
  <2>2. CASE \E r \in Reads : f = <<r[1], changes>>
    <3>1. PICK r \in Reads : f = <<r[1], changes>>
      BY <2>2
    <3>2. f[1] = r[1] /\ f[2] = changes /\ UpToDate(r)
      BY <3>1 DEF FreshInv
    <3>3. QED
      BY <1>1, <3>2 DEF UpToDate
  <2>3. QED
    BY <2>1, <2>2
<1>6. ASSUME NEW r \in Reads', NEW f \in Results', r[1] = f[1]
      PROVE  r[2] <= f[2]
  <2>1. UpToDate(r) /\ UpToDate(f)
    BY <1>4, <1>5
  <2>2. CASE f[2] = changes
    BY <2>1, <2>2 DEF UpToDate
  <2>3. CASE f \in Results /\ r \in Reads
    BY <1>6, <2>3 DEF FreshInv
  <2>4. CASE r = now
    BY <1>1, <1>3, <1>6, <2>1, <2>4 DEF UpToDate
  <2>5. QED
    BY <1>4, <1>5, <2>2, <2>3, <2>4
<1>7. QED
  BY <1>2, <1>4, <1>5, <1>6 DEF FreshInv

\* A commit leaves every version behind.
LEMMA FreshCommits ==
    ASSUME CacheInv, CorpusTypeOK, FreshInv, CorpusTypeOK', Latest < Latest', changes' = changes + 1,
           Reads' = Reads, Results' = Results
    PROVE  FreshInv'
<1>1. Latest \in Nat /\ Latest' \in Nat /\ changes \in Nat
  BY LatestType, LatestTypeNext DEF LatestIsMax, CacheInv
<1>2. \A x : UpToDate(x) => UpToDate(x)'
  BY <1>1 DEF UpToDate
<1>3. QED
  BY <1>2 DEF FreshInv

LEMMA StampInit == Init => StampInv
<1> SUFFICES ASSUME Init
             PROVE  StampInv
  OBVIOUS
<1>1. stamp = 0 /\ \A w \in Workers : job[w].pc = "idle"
  BY DEF Init, CorpusInit, Idle
<1>2. \A d \in Present : docs[d].at = 0
  <2>1. CASE docs = [d \in Docs |-> None]
    BY <2>1 DEF Present
  <2>2. CASE \E d0 \in Docs, c0 \in Contents \ Invalid, m \in Models :
             docs = [d \in Docs |-> IF d = d0 THEN [content |-> c0, at |-> 0, vec |-> m] ELSE None]
    BY <2>2 DEF Present
  <2>3. QED
    BY <2>1, <2>2, CorpusAssumption DEF Init, CorpusInit
<1>3. QED
  BY <1>1, <1>2 DEF StampInv

LEMMA StampStep ==
    ASSUME OneIngest, CorpusTypeOK, JobsHaveText, StampInv, NEW w \in Workers, WorkerStep(w)
    PROVE  /\ StampInv'
           /\ docs' # docs => Commit(w)
<1>1. stamp \in Nat /\ job[w].at \in Nat /\ \A v \in Workers : v = w
  BY CorpusAssumption DEF OneIngest, CorpusTypeOK, Job
<1>2. CASE Commit(w)
  <2> DEFINE d == job[w].doc
  <2>1. /\ d \in Docs /\ Present' = Present \cup {d}
        /\ \A e \in Docs \ {d} : docs'[e] = docs[e]
    BY <1>2, CommitPutsText
  <2>2. docs'[d].at = job[w].at
    BY <1>2, <2>1 DEF Commit, CorpusTypeOK
  <2>3. job[w].at <= stamp /\ stamp' = stamp
    BY <1>2 DEF Commit, StampInv
  <2>4. job'[w].pc = "idle"
    BY <1>2 DEF Commit, CorpusTypeOK, Idle
  <2> HIDE DEF d
  <2>5. \A e \in Present' : docs'[e].at <= stamp'
    BY <2>1, <2>2, <2>3 DEF StampInv, Present
  <2>6. QED
    BY <1>1, <1>2, <2>4, <2>5 DEF StampInv
<1>3. CASE Begin(w)
  <2>1. docs' = docs /\ stamp' = stamp + 1
    BY <1>3 DEF Begin
  <2>2. job'[w].pc = "idle" \/ job'[w].at = stamp + 1
    BY <1>3, <1>1 DEF Begin, CorpusTypeOK, Job, Idle
  <2>3. \A d \in Present : docs[d].at <= stamp /\ docs[d].at \in Nat
    BY CorpusAssumption DEF StampInv, Present, CorpusTypeOK, Row
  <2>4. Present' = Present
    BY <2>1 DEF Present
  <2>5. \A d \in Present : docs[d].at <= stamp + 1 /\ docs[d].at < stamp + 1
    BY <1>1, <2>3
  <2>6. QED
    BY <1>1, <2>1, <2>2, <2>4, <2>5 DEF StampInv
<1>4. CASE Delete(w)
  <2>1. docs' = docs /\ stamp' = stamp /\ job[w].pc = "begun" /\ job'[w].at = job[w].at
    BY <1>4 DEF Delete, CorpusTypeOK, Job
  <2>2. QED
    BY <1>1, <2>1 DEF StampInv, Present
<1>5. CASE Fail(w) \/ Expire(w) \/ \E d \in Docs, c \in Contents : Start(w, d, c)
  <2>1. docs' = docs /\ stamp' = stamp
    BY <1>5 DEF Fail, Expire, Start
  <2>2. job'[w].pc \in {"begun", "deleted"} => job' = job
    <3>1. CASE Fail(w)
      BY <3>1 DEF Fail, CorpusTypeOK, Idle
    <3>2. CASE Expire(w)
      BY <3>2 DEF Expire
    <3>3. CASE \E d \in Docs, c \in Contents : Start(w, d, c)
      <4>1. PICK d \in Docs, c \in Contents : Start(w, d, c)
        BY <3>3
      <4> DEFINE j == [Idle EXCEPT !.pc = "embedding", !.doc = d, !.content = c]
      <4>2. job' = job \/ job' = [job EXCEPT ![w] = j]
        BY <4>1 DEF Start
      <4>3. j.pc = "embedding"
        BY DEF Idle
      <4> HIDE DEF j
      <4>4. QED
        BY <4>2, <4>3 DEF CorpusTypeOK
    <3>4. QED
      BY <1>5, <3>1, <3>2, <3>3
  <2>3. QED
    BY <1>1, <2>1, <2>2 DEF StampInv, Present
<1>6. QED
  BY <1>2, <1>3, <1>4, <1>5 DEF WorkerStep

AnswerInv == CacheInv /\ JobsHaveText /\ CorpusTypeOK /\ StampInv /\ FreshInv

\* The steps of a call, as far as versions and results go.
LEMMA CallStepReads ==
    ASSUME CacheInv, NEW c \in Callers, NEW k \in CallState, MovesTo(c, k), version' = version,
           k.pc \in HasVersion =>
              <<k.ver, k.at>> \in Reads \/ <<k.ver, k.at>> = <<CorpusVersion, changes>>
    PROVE  \A r \in Reads' : r \in Reads \/ r = <<CorpusVersion, changes>>
<1>1. call'[c] = k /\ \A d \in Callers \ {c} : call'[d] = call[d]
  BY DEF MovesTo, CacheInv, CacheTypeOK
<1>2. QED
  BY <1>1 DEF Reads

LEMMA CallStepResults ==
    ASSUME CacheInv, NEW c \in Callers, NEW k \in CallState, MovesTo(c, k),
           \A j \in 1..Len(data') : <<data'[j].key[1], data'[j].found>> \in Results,
           k.pc \in {"searched", "answered"} =>
              <<k.ver, k.found>> \in Results \/ \E r \in Reads : <<k.ver, k.found>> = <<r[1], changes>>
    PROVE  \A f \in Results' : f \in Results \/ \E r \in Reads : f = <<r[1], changes>>
<1>1. call'[c] = k /\ \A d \in Callers \ {c} : call'[d] = call[d]
  BY DEF MovesTo, CacheInv, CacheTypeOK
<1>2. QED
  BY <1>1 DEF Results

LEMMA EntriesAreResults == \A i \in 1..Len(data) : <<data[i].key[1], data[i].found>> \in Results
BY DEF Results

LEMMA CallsAreReads ==
    ASSUME NEW c \in Callers
    PROVE  /\ call[c].pc \in HasVersion => <<call[c].ver, call[c].at>> \in Reads
           /\ call[c].pc \in {"searched", "answered"} => <<call[c].ver, call[c].found>> \in Results
           /\ version.fresh => <<version.value, version.at>> \in Reads
BY DEF Reads, Results

\* A lookup with a version in use finds a result of that version.
LEMMA LookUpReads ==
    ASSUME CacheInv, NEW c \in Callers, NEW key \in Keys, NEW ver \in Nat \X Nat, NEW at \in Nat,
           LookUp(c, key, ver, at), <<ver, at>> \in Reads,
           version' = version \/ version' = [fresh |-> TRUE, value |-> ver, at |-> at]
    PROVE  /\ \A r \in Reads' : r \in Reads
           /\ \A f \in Results' : f \in Results
<1>1. LookedUp(c, key, ver, at)
  BY LookUpKeeps
<1>2. PICK k \in CallState :
        /\ MovesTo(c, k)
        /\ k.key = key /\ k.ver = ver /\ k.at = at /\ k.pc \in {"missed", "answered"}
        /\ k.pc = "answered" =>
             \E i \in 1..Len(data) : data[i].key = <<ver, key>> /\ data[i].found = k.found
  BY <1>1 DEF LookedUp
<1>3. call'[c] = k /\ \A d \in Callers \ {c} : call'[d] = call[d]
  BY <1>2 DEF MovesTo, CacheInv, CacheTypeOK
<1>4. \A r \in Reads' : r \in Reads
  <2>1. \A d \in Callers : call'[d].pc \in HasVersion => <<call'[d].ver, call'[d].at>> \in Reads
    BY <1>2, <1>3, CallsAreReads
  <2>2. version'.fresh => <<version'.value, version'.at>> \in Reads
    <3>1. CASE version' = version
      BY <3>1, CallsAreReads
    <3>2. CASE version' = [fresh |-> TRUE, value |-> ver, at |-> at]
      <4>1. version'.value = ver /\ version'.at = at
        BY <3>2
      <4>2. QED
        BY <4>1
    <3>3. QED
      BY <3>1, <3>2
  <2>3. QED
    BY <2>1, <2>2 DEF Reads
<1>5. \A j \in 1..Len(data') : <<data'[j].key[1], data'[j].found>> \in Results
  BY <1>1, EntriesAreResults DEF LookedUp
<1>6. call'[c].pc \in {"searched", "answered"} => <<call'[c].ver, call'[c].found>> \in Results
  <2>1. CASE k.pc = "answered"
    <3>1. PICK i \in 1..Len(data) : data[i].key = <<ver, key>> /\ data[i].found = k.found
      BY <1>2, <2>1
    <3>2. data[i].key[1] = ver
      BY <3>1
    <3>3. QED
      BY <1>2, <1>3, <3>1, <3>2, EntriesAreResults
  <2>2. CASE k.pc = "missed"
    BY <1>3, <2>2
  <2>3. QED
    BY <1>2, <2>1, <2>2
<1>7. \A f \in Results' : f \in Results
  <2>1. \A d \in Callers : call'[d].pc \in {"searched", "answered"} => <<call'[d].ver, call'[d].found>> \in Results
    BY <1>3, <1>6, CallsAreReads
  <2>2. QED
    BY <1>5, <2>1 DEF Results
<1>8. QED
  BY <1>4, <1>7

LEMMA AnswerStep ==
    ASSUME OneIngest, AnswerInv, [Next]_vars
    PROVE  AnswerInv'
<1>0. /\ CacheInv /\ CorpusTypeOK /\ JobsHaveText /\ StampInv /\ FreshInv
      /\ call \in [Callers -> CallState] /\ version.at \in Nat
      /\ version.fresh => version.value \in Nat \X Nat
  BY DEF AnswerInv, CacheInv, CacheTypeOK
<1>1. CacheInv' /\ CorpusTypeOK' /\ JobsHaveText'
  BY <1>0, CacheInvStep, CacheLeavesCorpus, CorpusTypingStep
<1>2. UNCHANGED corpusVars => StampInv'
  BY <1>0 DEF corpusVars, StampInv, Present
<1>3. ASSUME UNCHANGED corpusVars, changes' = changes,
             \A r \in Reads' : r \in Reads \/ r = <<CorpusVersion, changes>>,
             \A f \in Results' : f \in Results \/ \E r \in Reads : f = <<r[1], changes>>
      PROVE  AnswerInv'
  <2>1. docs' = docs
    BY <1>3 DEF corpusVars
  <2>2. FreshInv'
    BY <1>0, <1>3, <2>1, FreshGrows
  <2>3. QED
    BY <1>1, <1>2, <1>3, <2>2 DEF AnswerInv
<1>4. ASSUME NEW c \in Callers, NEW key \in Keys, Ask(c, key)
      PROVE  AnswerInv'
  <2>1. UNCHANGED corpusVars /\ changes' = changes /\ version' = version
    BY <1>4 DEF Ask
  <2>2. CASE version.fresh
    <3>1. LookUp(c, key, version.value, version.at) /\ <<version.value, version.at>> \in Reads
      BY <1>4, <2>2, CallsAreReads DEF Ask
    <3>2. (\A r \in Reads' : r \in Reads) /\ \A f \in Results' : f \in Results
      BY <1>0, <2>1, <2>2, <3>1, LookUpReads
    <3>3. QED
      BY <1>3, <2>1, <3>2
  <2>3. CASE ~version.fresh
    <3> DEFINE k == [NoCall EXCEPT !.pc = "reading", !.key = key]
    <3>1. k \in CallState /\ k.pc = "reading"
      BY DEF NoCall, CallState
    <3>2. MovesTo(c, k) /\ data' = data
      BY <1>4, <2>3 DEF Ask, MovesTo
    <3> HIDE DEF k
    <3>3. \A r \in Reads' : r \in Reads \/ r = <<CorpusVersion, changes>>
      BY <1>0, <2>1, <3>1, <3>2, CallStepReads DEF HasVersion
    <3>4. \A f \in Results' : f \in Results \/ \E r \in Reads : f = <<r[1], changes>>
      BY <1>0, <3>1, <3>2, CallStepResults, EntriesAreResults
    <3>5. QED
      BY <1>3, <2>1, <3>3, <3>4
  <2>4. QED
    BY <2>2, <2>3, <1>0 DEF CacheInv, CacheTypeOK
<1>5. ASSUME NEW c \in Callers, ReadVersion(c)
      PROVE  AnswerInv'
  <2> DEFINE k == [call[c] EXCEPT !.pc = "read", !.ver = CorpusVersion, !.at = changes]
  <2>1. CorpusVersion \in Nat \X Nat /\ changes \in Nat
    BY <1>0, CorpusVersionType DEF CacheInv
  <2>2. k \in CallState /\ k.ver = CorpusVersion /\ k.at = changes /\ k.pc = "read"
    BY <1>0, <2>1 DEF CallState
  <2>3. MovesTo(c, k) /\ UNCHANGED <<corpusVars, changes, version, data>>
    BY <1>5 DEF ReadVersion, MovesTo
  <2> HIDE DEF k
  <2>4. \A r \in Reads' : r \in Reads \/ r = <<CorpusVersion, changes>>
    BY <1>0, <2>2, <2>3, CallStepReads
  <2>5. \A f \in Results' : f \in Results \/ \E r \in Reads : f = <<r[1], changes>>
    BY <1>0, <2>2, <2>3, CallStepResults, EntriesAreResults
  <2>6. QED
    BY <1>3, <2>3, <2>4, <2>5
<1>6. ASSUME NEW c \in Callers, KeepVersion(c)
      PROVE  AnswerInv'
  <2>1. /\ call[c].pc = "read" /\ call[c].key \in Keys /\ call[c].ver \in Nat \X Nat
        /\ call[c].at \in Nat
    BY <1>0, <1>6 DEF KeepVersion, CacheInv, CallsReady, HasVersion, CallState
  <2>2. <<call[c].ver, call[c].at>> \in Reads
    BY <2>1, CallsAreReads DEF HasVersion
  <2>3. /\ version' = [fresh |-> TRUE, value |-> call[c].ver, at |-> call[c].at]
        /\ LookUp(c, call[c].key, call[c].ver, call[c].at)
        /\ UNCHANGED corpusVars /\ changes' = changes
    BY <1>6 DEF KeepVersion
  <2>4. (\A r \in Reads' : r \in Reads) /\ \A f \in Results' : f \in Results
    BY <1>0, <2>1, <2>2, <2>3, LookUpReads
  <2>5. QED
    BY <1>3, <2>3, <2>4
<1>7. ASSUME NEW c \in Callers, Compute(c)
      PROVE  AnswerInv'
  <2> DEFINE k == [call[c] EXCEPT !.pc = "searched", !.found = changes]
  <2>1. call[c].pc = "missed" /\ changes \in Nat
    BY <1>0, <1>7 DEF Compute, CacheInv
  <2>2. k \in CallState /\ k.ver = call[c].ver /\ k.at = call[c].at /\ k.found = changes /\ k.pc = "searched"
    BY <1>0, <2>1 DEF CallState
  <2>3. MovesTo(c, k) /\ UNCHANGED <<corpusVars, changes, version, data>>
    BY <1>7 DEF Compute, MovesTo
  <2>4. <<call[c].ver, call[c].at>> \in Reads
    BY <2>1, CallsAreReads DEF HasVersion
  <2> HIDE DEF k
  <2>5. \A r \in Reads' : r \in Reads \/ r = <<CorpusVersion, changes>>
    BY <1>0, <2>2, <2>3, <2>4, CallStepReads
  <2>6. \E r \in Reads : <<k.ver, k.found>> = <<r[1], changes>>
    <3>1. <<call[c].ver, call[c].at>>[1] = k.ver /\ k.found = changes
      BY <2>2
    <3>2. QED
      BY <2>4, <3>1
  <2>7. \A f \in Results' : f \in Results \/ \E r \in Reads : f = <<r[1], changes>>
    BY <1>0, <2>2, <2>3, <2>6, CallStepResults, EntriesAreResults
  <2>8. QED
    BY <1>3, <2>3, <2>5, <2>7
<1>8. ASSUME NEW c \in Callers, Put(c)
      PROVE  AnswerInv'
  <2> DEFINE q == FullKey(call[c].ver, call[c].key)
             k == [call[c] EXCEPT !.pc = "answered"]
  <2>1. /\ call[c].pc = "searched" /\ call[c].found \in Nat /\ q \in FullKeys /\ q[1] = call[c].ver
    BY <1>0, <1>8 DEF Put, CacheInv, CallsReady, HasVersion, CallState, FullKey, FullKeys
  <2>2. k \in CallState /\ k.ver = call[c].ver /\ k.at = call[c].at /\ k.found = call[c].found /\ k.pc = "answered"
    BY <1>0, <2>1 DEF CallState
  <2>3. MovesTo(c, k) /\ UNCHANGED <<corpusVars, changes, version>>
    BY <1>8 DEF Put, MovesTo
  <2>4. data' = StoredIn(q, call[c].found) /\ used' = Recency(q) /\ popped' = popped \ {q}
    BY <1>8 DEF Put
  <2>5. <<call[c].ver, call[c].at>> \in Reads /\ <<call[c].ver, call[c].found>> \in Results
    BY <2>1, CallsAreReads DEF HasVersion
  <2> HIDE DEF k, q
  <2>6. \A j \in 1..Len(data') :
           \/ data'[j].key = q /\ data'[j].found = call[c].found
           \/ \E l \in 1..Len(data) : data'[j] = data[l]
    BY <1>0, <2>1, <2>4, PutKeeps
  <2>7. \A j \in 1..Len(data') : <<data'[j].key[1], data'[j].found>> \in Results
    BY <2>1, <2>5, <2>6, EntriesAreResults
  <2>8. \A r \in Reads' : r \in Reads \/ r = <<CorpusVersion, changes>>
    BY <1>0, <2>2, <2>3, <2>5, CallStepReads
  <2>9. \A f \in Results' : f \in Results \/ \E r \in Reads : f = <<r[1], changes>>
    BY <1>0, <2>2, <2>3, <2>5, <2>7, CallStepResults
  <2>10. QED
    BY <1>3, <2>3, <2>8, <2>9
<1>9. ASSUME NEW c \in Callers, NotKept(c) \/ Return(c)
      PROVE  AnswerInv'
  <2>1. MovesTo(c, NoCall) /\ UNCHANGED <<corpusVars, changes, version, data>>
    BY <1>9 DEF NotKept, Return, MovesTo
  <2>2. \A r \in Reads' : r \in Reads \/ r = <<CorpusVersion, changes>>
    BY <1>0, <2>1, NoCallTyped, CallStepReads DEF HasVersion
  <2>3. \A f \in Results' : f \in Results \/ \E r \in Reads : f = <<r[1], changes>>
    BY <1>0, <2>1, NoCallTyped, CallStepResults, EntriesAreResults
  <2>4. QED
    BY <1>3, <2>1, <2>2, <2>3
<1>10. CASE VersionAges \/ UNCHANGED vars
  <2>1. UNCHANGED <<corpusVars, changes, data, call>>
    BY <1>10 DEF VersionAges, vars, cacheVars
  <2>2. version' = version \/ ~version'.fresh
    BY <1>0, <1>10 DEF VersionAges, vars, cacheVars, CacheInv, CacheTypeOK
  <2>3. Results' = Results
    BY <2>1 DEF Results
  <2>4. \A r \in Reads' : r \in Reads
    BY <2>1, <2>2 DEF Reads
  <2>5. QED
    BY <1>3, <2>1, <2>3, <2>4
<1>11. ASSUME NEW i \in 1..Len(data), EntryAges(i)
       PROVE  AnswerInv'
  <2>1. /\ UNCHANGED <<corpusVars, changes, version, call>>
        /\ data' = [data EXCEPT ![i].fresh = FALSE] /\ data \in Seq(Entries)
    BY <1>0, <1>11 DEF EntryAges, CacheInv, InUseOrder
  <2>2. /\ Len(data') = Len(data)
        /\ \A j \in 1..Len(data) : data'[j].key = data[j].key /\ data'[j].found = data[j].found
    <3>1. data[i] \in Entries
      BY <2>1
    <3>2. /\ [data[i] EXCEPT !.fresh = FALSE].key = data[i].key
          /\ [data[i] EXCEPT !.fresh = FALSE].found = data[i].found
      BY <3>1 DEF Entries
    <3>3. QED
      BY <2>1, <3>2
  <2>3. Reads' = Reads
    BY <2>1 DEF Reads
  <2>4. \A f \in Results' : f \in Results
    BY <2>1, <2>2 DEF Results
  <2>5. QED
    BY <1>3, <2>1, <2>3, <2>4
<1>12. CASE IngestStep
  <2>1. PICK w \in Workers : WorkerStep(w)
    BY <1>12 DEF IngestStep
  <2>2. UNCHANGED <<version, call, data>> /\ changes' = IF docs' # docs THEN changes + 1 ELSE changes
    BY <1>12 DEF IngestStep
  <2>3. Reads' = Reads /\ Results' = Results
    BY <2>2 DEF Reads, Results
  <2>4. StampInv' /\ (docs' # docs => Commit(w))
    BY <1>0, <2>1, StampStep
  <2>5. CASE docs' = docs
    <3>1. FreshInv'
      BY <1>0, <2>2, <2>3, <2>5, FreshGrows
    <3>2. QED
      BY <1>1, <2>4, <3>1 DEF AnswerInv
  <2>6. CASE docs' # docs
    <3>1. Latest < Latest'
      <4> DEFINE d == job[w].doc
      <4>1. d \in Present' /\ docs'[d].at = job[w].at
        <5>1. d \in Docs /\ d \in Present'
          BY <1>0, <2>4, <2>6, CommitPutsText
        <5>2. QED
          BY <1>0, <2>4, <2>6, <5>1 DEF Commit, CorpusTypeOK
      <4>2. /\ job[w].at \in Nat \ {0}
            /\ \A e \in Present : docs[e].at < job[w].at
        BY <1>0, <2>4, <2>6 DEF Commit, StampInv
      <4>3. Latest' \in Nat /\ job[w].at <= Latest'
        BY <1>1, <4>1, LatestTypeNext DEF LatestIsMax
      <4>4. Latest \in Nat /\ Latest < job[w].at
        BY <1>0, <4>2, LatestType DEF LatestIsMax
      <4>5. QED
        BY <4>2, <4>3, <4>4
    <3>2. FreshInv'
      BY <1>0, <1>1, <2>2, <2>3, <2>6, <3>1, FreshCommits
    <3>3. QED
      BY <1>1, <2>4, <3>2 DEF AnswerInv
  <2>7. QED
    BY <2>5, <2>6
<1>13. QED
  BY <1>4, <1>5, <1>6, <1>7, <1>8, <1>9, <1>10, <1>11, <1>12 DEF Next, CallStep

\* An answer is of no older corpus than the version its call used was read
\* from, as long as one process ingests: ingested_at is the start of the
\* transaction, so that only then every commit changes the version.
THEOREM AnswersKeepUp ==
    ASSUME OneIngest
    PROVE  Spec => []AnsweredSinceRead
<1>1. Init => AnswerInv
  <2> SUFFICES ASSUME Init
               PROVE  AnswerInv
    OBVIOUS
  <2>1. CacheInv /\ CorpusTypeOK /\ JobsHaveText /\ StampInv
    BY CacheInvInit, StampInit
  <2>2. Reads = {} /\ Results = {}
    <3>1. \A c \in Callers : call[c].pc = "idle"
      BY DEF Init, CacheInit, NoCall
    <3>2. ~version.fresh /\ Len(data) = 0
      BY DEF Init, CacheInit
    <3>3. QED
      BY <3>1, <3>2 DEF Reads, Results, HasVersion
  <2>3. QED
    BY <2>1, <2>2 DEF AnswerInv, FreshInv
<1>2. AnswerInv /\ [Next]_vars => AnswerInv'
  BY AnswerStep
<1>3. AnswerInv => AnsweredSinceRead
  <2> SUFFICES ASSUME AnswerInv, NEW c \in Callers, call[c].pc = "answered"
               PROVE  call[c].found >= call[c].at
    BY DEF AnsweredSinceRead
  <2>1. <<call[c].ver, call[c].at>> \in Reads /\ <<call[c].ver, call[c].found>> \in Results
    BY CallsAreReads DEF HasVersion
  <2>2. <<call[c].ver, call[c].at>>[2] <= <<call[c].ver, call[c].found>>[2]
    BY <2>1 DEF AnswerInv, FreshInv
  <2>3. call[c].found \in Nat /\ call[c].at \in Nat
    BY DEF AnswerInv, CacheInv, CacheTypeOK, CallState
  <2>4. QED
    BY <2>2, <2>3
<1>4. QED
  BY <1>1, <1>2, <1>3, PTL DEF Spec

-----------------------------------------------------------------------------
(* Statements: one place after another.  ExportedInTurn, HeightsInTurn,      *)
(* ReturnedInTurn and JoinedInTurn are one argument, of four recursive       *)
(* functions.                                                                *)

\* Numbers have a least one.
LEMMA Least ==
    ASSUME NEW S \in SUBSET Nat, S # {}
    PROVE  \E x \in S : \A y \in S : x <= y
<1> DEFINE Below == {0..x : x \in S}
<1>1. \A x \in S : (0..x) \in SUBSET Nat /\ IsFiniteSet(0..x)
  BY FS_Interval
<1>2. Below \subseteq FiniteSubsetsOf(Nat) /\ Below # {}
  BY <1>1 DEF FiniteSubsetsOf
<1>3. \E s \in Below : \A r \in Below : ~(<<r, s>> \in StrictSubsetOrdering(Nat))
  <2>1. IsWellFoundedOn(StrictSubsetOrdering(Nat), FiniteSubsetsOf(Nat))
    BY FS_StrictSubsetOrderingWellFounded
  <2> HIDE DEF Below
  <2> QED
    BY <1>2, <2>1, WFMin
<1>4. PICK x \in S : \A y \in S : ~(<<0..y, 0..x>> \in StrictSubsetOrdering(Nat))
  BY <1>3
<1>5. ASSUME NEW y \in S, y < x
      PROVE  FALSE
  <2>1. 0..y \subseteq 0..x /\ x \in 0..x /\ x \notin 0..y
    BY <1>5
  <2> QED
    BY <1>1, <1>4, <2>1 DEF StrictSubsetOrdering
<1> QED
  BY <1>5

\* A set that has zero, and of each of the first numbers the next one.
LEMMA OneByOne ==
    ASSUME NEW n \in Nat, NEW S, 0 \in S, \A k \in 0..n : k < n /\ k \in S => k + 1 \in S
    PROVE  \A k \in 0..n : k \in S
<1> DEFINE Bad == {k \in 0..n : k \notin S}
<1> SUFFICES ASSUME Bad # {}
             PROVE  FALSE
  OBVIOUS
<1>1. Bad \in SUBSET Nat
  OBVIOUS
<1> HIDE DEF Bad
<1>2. PICK x \in Bad : \A y \in Bad : x <= y
  BY <1>1, Least
<1>3. x \in 0..n /\ x \notin S /\ x # 0
  BY DEF Bad
<1>4. x - 1 \in 0..n /\ x - 1 < n /\ x - 1 \notin Bad
  BY <1>2, <1>3
<1>5. x - 1 \in S /\ x - 1 + 1 = x
  BY <1>3, <1>4 DEF Bad
<1> QED
  BY <1>3, <1>4, <1>5

\* Each place in turn, of those before it.
LEMMA ExportedInTurn ==
    ASSUME NEW tree, Len(tree.selects) \in Nat
    PROVE  LET g == ExportedUpTo(tree)
           IN  /\ g[0] = <<>>
               /\ \A k \in 1..Len(tree.selects) : g[k] = Append(g[k - 1], Exports(g[k - 1], tree.selects[k]))
<1> DEFINE n == Len(tree.selects)
           first == <<>>
           After(g, k) == Append(g[k - 1], Exports(g[k - 1], tree.selects[k]))
           Rec(g, m) == g = [k \in 0..m |-> IF k = 0 THEN first ELSE After(g, k)]
           S == {m \in 0..n : \E g : Rec(g, m)}
<1>1. ASSUME NEW m \in 0..n, NEW g, NEW h, NEW k \in 1..m, g[k - 1] = h[k - 1]
      PROVE  After(g, k) = After(h, k)
  BY <1>1
<1>2. ExportedUpTo(tree) = CHOOSE g : Rec(g, n)
  BY Zenon DEF ExportedUpTo
<1> HIDE DEF first, After
<1>3. 0 \in S
  <2> DEFINE g == [k \in 0..0 |-> first]
  <2>1. g = [k \in 0..0 |-> IF k = 0 THEN first ELSE After(g, k)]
    <3> HIDE DEF g
    <3>1. \A k \in 0..0 : first = IF k = 0 THEN first ELSE After(g, k)
      OBVIOUS
    <3> QED
      BY <3>1 DEF g
  <2> HIDE DEF g
  <2> QED
    BY <2>1
<1>4. ASSUME NEW m \in 0..n, m < n, m \in S
      PROVE  m + 1 \in S
  <2>1. PICK g : Rec(g, m)
    BY <1>4
  <2> DEFINE h == [k \in 0..m + 1 |-> IF k = 0 THEN first ELSE After(g, k)]
  <2>2. \A k \in 0..m : h[k] = g[k]
    BY <2>1, <1>4
  <2>3. \A k \in 1..m + 1 : After(g, k) = After(h, k)
    <3> HIDE DEF h
    <3> TAKE k \in 1..m + 1
    <3>1. k - 1 \in 0..m /\ m + 1 \in 0..n
      BY <1>4
    <3>2. g[k - 1] = h[k - 1]
      BY <2>2, <3>1
    <3> QED
      BY <1>1, <3>1, <3>2
  <2> DEFINE Is(k) == IF k = 0 THEN first ELSE After(g, k)
             Must(k) == IF k = 0 THEN first ELSE After(h, k)
  <2>4. \A k \in 0..m + 1 : Is(k) = Must(k)
    <3> HIDE DEF h
    <3> TAKE k \in 0..m + 1
    <3>1. k # 0 => k \in 1..m + 1
      BY <1>4
    <3> QED
      BY <2>3, <3>1
  <2>5. Rec(h, m + 1)
    <3>1. h = [k \in 0..m + 1 |-> Is(k)]
      OBVIOUS
    <3> HIDE DEF h, Is, Must
    <3>2. h = [k \in 0..m + 1 |-> Must(k)]
      BY <2>4, <3>1
    <3> QED
      BY <3>2 DEF Must
  <2> HIDE DEF Rec, h
  <2> QED
    BY <1>4, <2>5
<1> HIDE DEF S
<1>5. n \in S
  <2>1. n \in Nat /\ n \in 0..n
    OBVIOUS
  <2> HIDE DEF n
  <2> QED
    BY <1>3, <1>4, <2>1, OneByOne
<1> DEFINE g == ExportedUpTo(tree)
<1> HIDE DEF Rec
<1>6. Rec(g, n)
  BY <1>2, <1>5 DEF S
<1> HIDE DEF g
<1>7. g[0] = first /\ \A k \in 1..n : g[k] = After(g, k)
  <2>1. g = [k \in 0..n |-> IF k = 0 THEN first ELSE After(g, k)]
    BY <1>6 DEF Rec
  <2> DEFINE Must(k) == IF k = 0 THEN first ELSE After(g, k)
  <2>2. g = [k \in 0..n |-> Must(k)]
    BY <2>1
  <2>3. 0 \in 0..n /\ \A k \in 1..n : k \in 0..n /\ k # 0
    OBVIOUS
  <2> HIDE DEF n, Must
  <2>4. \A k \in 0..n : g[k] = Must(k)
    BY <2>2
  <2> QED
    BY <2>3, <2>4 DEF Must
<1> QED
  BY <1>7 DEF g, first, After

LEMMA HeightsInTurn ==
    ASSUME NEW tree, Len(tree.selects) \in Nat
    PROVE  LET g == HeightsUpTo(tree)
           IN  /\ g[0] = <<>>
               /\ \A k \in 1..Len(tree.selects) : g[k] = Append(g[k - 1], Height(tree, g[k - 1], tree.selects[k]))
<1> DEFINE n == Len(tree.selects)
           first == <<>>
           After(g, k) == Append(g[k - 1], Height(tree, g[k - 1], tree.selects[k]))
           Rec(g, m) == g = [k \in 0..m |-> IF k = 0 THEN first ELSE After(g, k)]
           S == {m \in 0..n : \E g : Rec(g, m)}
<1>1. ASSUME NEW m \in 0..n, NEW g, NEW h, NEW k \in 1..m, g[k - 1] = h[k - 1]
      PROVE  After(g, k) = After(h, k)
  BY <1>1
<1>2. HeightsUpTo(tree) = CHOOSE g : Rec(g, n)
  BY Zenon DEF HeightsUpTo
<1> HIDE DEF first, After
<1>3. 0 \in S
  <2> DEFINE g == [k \in 0..0 |-> first]
  <2>1. g = [k \in 0..0 |-> IF k = 0 THEN first ELSE After(g, k)]
    <3> HIDE DEF g
    <3>1. \A k \in 0..0 : first = IF k = 0 THEN first ELSE After(g, k)
      OBVIOUS
    <3> QED
      BY <3>1 DEF g
  <2> HIDE DEF g
  <2> QED
    BY <2>1
<1>4. ASSUME NEW m \in 0..n, m < n, m \in S
      PROVE  m + 1 \in S
  <2>1. PICK g : Rec(g, m)
    BY <1>4
  <2> DEFINE h == [k \in 0..m + 1 |-> IF k = 0 THEN first ELSE After(g, k)]
  <2>2. \A k \in 0..m : h[k] = g[k]
    BY <2>1, <1>4
  <2>3. \A k \in 1..m + 1 : After(g, k) = After(h, k)
    <3> HIDE DEF h
    <3> TAKE k \in 1..m + 1
    <3>1. k - 1 \in 0..m /\ m + 1 \in 0..n
      BY <1>4
    <3>2. g[k - 1] = h[k - 1]
      BY <2>2, <3>1
    <3> QED
      BY <1>1, <3>1, <3>2
  <2> DEFINE Is(k) == IF k = 0 THEN first ELSE After(g, k)
             Must(k) == IF k = 0 THEN first ELSE After(h, k)
  <2>4. \A k \in 0..m + 1 : Is(k) = Must(k)
    <3> HIDE DEF h
    <3> TAKE k \in 0..m + 1
    <3>1. k # 0 => k \in 1..m + 1
      BY <1>4
    <3> QED
      BY <2>3, <3>1
  <2>5. Rec(h, m + 1)
    <3>1. h = [k \in 0..m + 1 |-> Is(k)]
      OBVIOUS
    <3> HIDE DEF h, Is, Must
    <3>2. h = [k \in 0..m + 1 |-> Must(k)]
      BY <2>4, <3>1
    <3> QED
      BY <3>2 DEF Must
  <2> HIDE DEF Rec, h
  <2> QED
    BY <1>4, <2>5
<1> HIDE DEF S
<1>5. n \in S
  <2>1. n \in Nat /\ n \in 0..n
    OBVIOUS
  <2> HIDE DEF n
  <2> QED
    BY <1>3, <1>4, <2>1, OneByOne
<1> DEFINE g == HeightsUpTo(tree)
<1> HIDE DEF Rec
<1>6. Rec(g, n)
  BY <1>2, <1>5 DEF S
<1> HIDE DEF g
<1>7. g[0] = first /\ \A k \in 1..n : g[k] = After(g, k)
  <2>1. g = [k \in 0..n |-> IF k = 0 THEN first ELSE After(g, k)]
    BY <1>6 DEF Rec
  <2> DEFINE Must(k) == IF k = 0 THEN first ELSE After(g, k)
  <2>2. g = [k \in 0..n |-> Must(k)]
    BY <2>1
  <2>3. 0 \in 0..n /\ \A k \in 1..n : k \in 0..n /\ k # 0
    OBVIOUS
  <2> HIDE DEF n, Must
  <2>4. \A k \in 0..n : g[k] = Must(k)
    BY <2>2
  <2> QED
    BY <2>3, <2>4 DEF Must
<1> QED
  BY <1>7 DEF g, first, After

LEMMA ReturnedInTurn ==
    ASSUME NEW tree, Len(tree.selects) \in Nat
    PROVE  LET g == ReturnedUpTo(tree)
           IN  /\ g[0] = <<>>
               /\ \A k \in 1..Len(tree.selects) : g[k] = Append(g[k - 1], Returned(tree, g[k - 1], tree.selects[k]))
<1> DEFINE n == Len(tree.selects)
           first == <<>>
           After(g, k) == Append(g[k - 1], Returned(tree, g[k - 1], tree.selects[k]))
           Rec(g, m) == g = [k \in 0..m |-> IF k = 0 THEN first ELSE After(g, k)]
           S == {m \in 0..n : \E g : Rec(g, m)}
<1>1. ASSUME NEW m \in 0..n, NEW g, NEW h, NEW k \in 1..m, g[k - 1] = h[k - 1]
      PROVE  After(g, k) = After(h, k)
  BY <1>1
<1>2. ReturnedUpTo(tree) = CHOOSE g : Rec(g, n)
  BY Zenon DEF ReturnedUpTo
<1> HIDE DEF first, After
<1>3. 0 \in S
  <2> DEFINE g == [k \in 0..0 |-> first]
  <2>1. g = [k \in 0..0 |-> IF k = 0 THEN first ELSE After(g, k)]
    <3> HIDE DEF g
    <3>1. \A k \in 0..0 : first = IF k = 0 THEN first ELSE After(g, k)
      OBVIOUS
    <3> QED
      BY <3>1 DEF g
  <2> HIDE DEF g
  <2> QED
    BY <2>1
<1>4. ASSUME NEW m \in 0..n, m < n, m \in S
      PROVE  m + 1 \in S
  <2>1. PICK g : Rec(g, m)
    BY <1>4
  <2> DEFINE h == [k \in 0..m + 1 |-> IF k = 0 THEN first ELSE After(g, k)]
  <2>2. \A k \in 0..m : h[k] = g[k]
    BY <2>1, <1>4
  <2>3. \A k \in 1..m + 1 : After(g, k) = After(h, k)
    <3> HIDE DEF h
    <3> TAKE k \in 1..m + 1
    <3>1. k - 1 \in 0..m /\ m + 1 \in 0..n
      BY <1>4
    <3>2. g[k - 1] = h[k - 1]
      BY <2>2, <3>1
    <3> QED
      BY <1>1, <3>1, <3>2
  <2> DEFINE Is(k) == IF k = 0 THEN first ELSE After(g, k)
             Must(k) == IF k = 0 THEN first ELSE After(h, k)
  <2>4. \A k \in 0..m + 1 : Is(k) = Must(k)
    <3> HIDE DEF h
    <3> TAKE k \in 0..m + 1
    <3>1. k # 0 => k \in 1..m + 1
      BY <1>4
    <3> QED
      BY <2>3, <3>1
  <2>5. Rec(h, m + 1)
    <3>1. h = [k \in 0..m + 1 |-> Is(k)]
      OBVIOUS
    <3> HIDE DEF h, Is, Must
    <3>2. h = [k \in 0..m + 1 |-> Must(k)]
      BY <2>4, <3>1
    <3> QED
      BY <3>2 DEF Must
  <2> HIDE DEF Rec, h
  <2> QED
    BY <1>4, <2>5
<1> HIDE DEF S
<1>5. n \in S
  <2>1. n \in Nat /\ n \in 0..n
    OBVIOUS
  <2> HIDE DEF n
  <2> QED
    BY <1>3, <1>4, <2>1, OneByOne
<1> DEFINE g == ReturnedUpTo(tree)
<1> HIDE DEF Rec
<1>6. Rec(g, n)
  BY <1>2, <1>5 DEF S
<1> HIDE DEF g
<1>7. g[0] = first /\ \A k \in 1..n : g[k] = After(g, k)
  <2>1. g = [k \in 0..n |-> IF k = 0 THEN first ELSE After(g, k)]
    BY <1>6 DEF Rec
  <2> DEFINE Must(k) == IF k = 0 THEN first ELSE After(g, k)
  <2>2. g = [k \in 0..n |-> Must(k)]
    BY <2>1
  <2>3. 0 \in 0..n /\ \A k \in 1..n : k \in 0..n /\ k # 0
    OBVIOUS
  <2> HIDE DEF n, Must
  <2>4. \A k \in 0..n : g[k] = Must(k)
    BY <2>2
  <2> QED
    BY <2>3, <2>4 DEF Must
<1> QED
  BY <1>7 DEF g, first, After

LEMMA JoinedInTurn ==
    ASSUME NEW tree, NEW returned, NEW s, Len(s.joins) \in Nat
    PROVE  LET g == JoinedUpTo(tree, returned, s)
           IN  /\ g[0] = {With(Blank(tree, s), s.from, v) : v \in SourceRows(returned, s.from)}
               /\ \A k \in 1..Len(s.joins) : g[k] = Joined(g[k - 1], SourceRows(returned, s.joins[k].source), s.joins[k], Blank(tree, s))
<1> DEFINE n == Len(s.joins)
           first == {With(Blank(tree, s), s.from, v) : v \in SourceRows(returned, s.from)}
           After(g, k) == Joined(g[k - 1], SourceRows(returned, s.joins[k].source), s.joins[k], Blank(tree, s))
           Rec(g, m) == g = [k \in 0..m |-> IF k = 0 THEN first ELSE After(g, k)]
           S == {m \in 0..n : \E g : Rec(g, m)}
<1>1. ASSUME NEW m \in 0..n, NEW g, NEW h, NEW k \in 1..m, g[k - 1] = h[k - 1]
      PROVE  After(g, k) = After(h, k)
  BY <1>1
<1>2. JoinedUpTo(tree, returned, s) = CHOOSE g : Rec(g, n)
  BY Zenon DEF JoinedUpTo
<1> HIDE DEF first, After
<1>3. 0 \in S
  <2> DEFINE g == [k \in 0..0 |-> first]
  <2>1. g = [k \in 0..0 |-> IF k = 0 THEN first ELSE After(g, k)]
    <3> HIDE DEF g
    <3>1. \A k \in 0..0 : first = IF k = 0 THEN first ELSE After(g, k)
      OBVIOUS
    <3> QED
      BY <3>1 DEF g
  <2> HIDE DEF g
  <2> QED
    BY <2>1
<1>4. ASSUME NEW m \in 0..n, m < n, m \in S
      PROVE  m + 1 \in S
  <2>1. PICK g : Rec(g, m)
    BY <1>4
  <2> DEFINE h == [k \in 0..m + 1 |-> IF k = 0 THEN first ELSE After(g, k)]
  <2>2. \A k \in 0..m : h[k] = g[k]
    BY <2>1, <1>4
  <2>3. \A k \in 1..m + 1 : After(g, k) = After(h, k)
    <3> HIDE DEF h
    <3> TAKE k \in 1..m + 1
    <3>1. k - 1 \in 0..m /\ m + 1 \in 0..n
      BY <1>4
    <3>2. g[k - 1] = h[k - 1]
      BY <2>2, <3>1
    <3> QED
      BY <1>1, <3>1, <3>2
  <2> DEFINE Is(k) == IF k = 0 THEN first ELSE After(g, k)
             Must(k) == IF k = 0 THEN first ELSE After(h, k)
  <2>4. \A k \in 0..m + 1 : Is(k) = Must(k)
    <3> HIDE DEF h
    <3> TAKE k \in 0..m + 1
    <3>1. k # 0 => k \in 1..m + 1
      BY <1>4
    <3> QED
      BY <2>3, <3>1
  <2>5. Rec(h, m + 1)
    <3>1. h = [k \in 0..m + 1 |-> Is(k)]
      OBVIOUS
    <3> HIDE DEF h, Is, Must
    <3>2. h = [k \in 0..m + 1 |-> Must(k)]
      BY <2>4, <3>1
    <3> QED
      BY <3>2 DEF Must
  <2> HIDE DEF Rec, h
  <2> QED
    BY <1>4, <2>5
<1> HIDE DEF S
<1>5. n \in S
  <2>1. n \in Nat /\ n \in 0..n
    OBVIOUS
  <2> HIDE DEF n
  <2> QED
    BY <1>3, <1>4, <2>1, OneByOne
<1> DEFINE g == JoinedUpTo(tree, returned, s)
<1> HIDE DEF Rec
<1>6. Rec(g, n)
  BY <1>2, <1>5 DEF S
<1> HIDE DEF g
<1>7. g[0] = first /\ \A k \in 1..n : g[k] = After(g, k)
  <2>1. g = [k \in 0..n |-> IF k = 0 THEN first ELSE After(g, k)]
    BY <1>6 DEF Rec
  <2> DEFINE Must(k) == IF k = 0 THEN first ELSE After(g, k)
  <2>2. g = [k \in 0..n |-> Must(k)]
    BY <2>1
  <2>3. 0 \in 0..n /\ \A k \in 1..n : k \in 0..n /\ k # 0
    OBVIOUS
  <2> HIDE DEF n, Must
  <2>4. \A k \in 0..n : g[k] = Must(k)
    BY <2>2
  <2> QED
    BY <2>3, <2>4 DEF Must
<1> QED
  BY <1>7 DEF g, first, After

-----------------------------------------------------------------------------
(* The columns a statement reads *)

\* A sequence with one more at its end.
LEMMA AddedTo ==
    ASSUME NEW k \in Nat, NEW e, e = [i \in 1..k |-> e[i]], NEW v
    PROVE  LET all == Append(e, v)
           IN  /\ all = [i \in 1..k + 1 |-> all[i]]
               /\ all[k + 1] = v
               /\ \A i \in 1..k : all[i] = e[i]
<1> DEFINE S == {e[i] : i \in 1..k} \cup {v}
           all == Append(e, v)
<1>1. e \in [1..k -> S] /\ v \in S
  OBVIOUS
<1> HIDE DEF S
<1>2. e \in Seq(S) /\ Len(e) = k
  BY <1>1
<1>3. all \in Seq(S) /\ Len(all) = k + 1 /\ all[k + 1] = v /\ \A i \in 1..k : all[i] = e[i]
  BY <1>1, <1>2, AppendProperties
<1> HIDE DEF all
<1>4. all = [i \in 1..k + 1 |-> all[i]]
  BY <1>3
<1> QED
  BY <1>3, <1>4 DEF all

\* A column of an accepted select is of one of its sources, and if that is a
\* table, one that may be read.
LEMMA SourceIsThere ==
    ASSUME NEW k, NEW s, SelectAt(k, s), NEW ref \in Refs(s)
    PROVE  SourceOf(s, ref[1]) \in Sources(s) /\ SourceOf(s, ref[1]).alias = ref[1]
<1>1. \E x \in Sources(s) : x.alias = ref[1]
  BY DEF SelectAt
<1> QED
  BY <1>1 DEF SourceOf

\* If no earlier select hands a denied column on, this one reads none.
LEMMA RealIsAllowed ==
    ASSUME NEW tree, Statement(tree), Validated(Policy, tree), NEW k \in Places(tree),
           NEW e, \A i \in 1..k - 1 : \A q \in e[i] : q[2] \notin Denied,
           NEW ref \in Refs(tree.selects[k])
    PROVE  RealColumn(e, tree.selects[k], ref) \cap Denied = {}
<1> DEFINE s == tree.selects[k]
           x == SourceOf(s, ref[1])
<1>1. SelectAt(k, s) /\ s \in Selects(tree)
  BY DEF Statement, Selects
<1>2. x \in Sources(s)
  BY <1>1, SourceIsThere
<1>3. x.select \in 0..k - 1
  BY <1>1, <1>2 DEF SelectAt
<1>4. ColumnAllowed(Policy, tree, s, ref)
  BY <1>1 DEF Validated
<1>5. CASE IsTable(x)
  <2>1. <<x.table, ref[2]>> \notin Denied
    BY <1>4, <1>5 DEF ColumnAllowed, Policy
  <2>2. RealColumn(e, s, ref) = {<<x.table, ref[2]>>}
    BY <1>5 DEF RealColumn
  <2> QED
    BY <2>1, <2>2
<1>6. CASE ~IsTable(x)
  <2>1. RealColumn(e, s, ref) = {q[2] : q \in {r \in e[x.select] : r[1] = ref[2]}}
    BY <1>6 DEF RealColumn
  <2>2. x.select \in 1..k - 1
    BY <1>3, <1>6 DEF IsTable, Places
  <2> HIDE DEF x, s
  <2> QED
    BY <2>1, <2>2 DEF s
<1> QED
  BY <1>5, <1>6

\* Place by place, no select hands a denied column on.
LEMMA DeniedIsNotRead ==
    ASSUME NEW tree, Statement(tree)
    PROVE  DeniedNeverRead(tree)
<1> SUFFICES ASSUME Validated(Policy, tree)
             PROVE  \A s \in Selects(tree) : \A ref \in Refs(s) : RealColumn(Exported(tree), s, ref) \cap Denied = {}
  BY DEF DeniedNeverRead
<1> DEFINE n == Len(tree.selects)
           g == ExportedUpTo(tree)
           Clean(k) == \A i \in 1..k : \A q \in g[k][i] : q[2] \notin Denied
           S == {k \in 0..n : g[k] = [i \in 1..k |-> g[k][i]] /\ Clean(k)}
<1>1. n \in Nat /\ Places(tree) = 1..n
  BY DEF Statement, Places
<1>2. g[0] = <<>> /\ \A k \in 1..n : g[k] = Append(g[k - 1], Exports(g[k - 1], tree.selects[k]))
  BY <1>1, ExportedInTurn
<1> HIDE DEF g
<1>3. 0 \in S
  <2>1. g[0] = [i \in 1..0 |-> g[0][i]]
    BY <1>2
  <2> QED
    BY <1>1, <2>1
<1>4. ASSUME NEW k \in 0..n, k < n, k \in S
      PROVE  k + 1 \in S
  <2> DEFINE s == tree.selects[k + 1]
             more == Exports(g[k], s)
  <2>1. k + 1 \in 1..n /\ (k + 1) - 1 = k /\ k \in Nat
    BY <1>1, <1>4
  <2>2. g[k + 1] = Append(g[k], more)
    BY <1>2, <2>1
  <2>3. g[k] = [i \in 1..k |-> g[k][i]] /\ Clean(k)
    BY <1>4
  <2>4. \A q \in more : q[2] \notin Denied
    <3> TAKE q \in more
    <3>0. PICK p \in s.items : p.plain /\ \E ref \in p.refs : \E c \in RealColumn(g[k], s, ref) : q = <<p.as, c>>
      <4> DEFINE e == g[k]
      <4>1. q \in Exports(e, s)
        OBVIOUS
      <4> HIDE DEF e, s
      <4>2. \E p \in s.items : p.plain /\ \E ref \in p.refs : \E c \in RealColumn(e, s, ref) : q = <<p.as, c>>
        BY <4>1 DEF Exports
      <4> QED
        BY <4>2 DEF e
    <3>1. PICK ref \in p.refs : \E c \in RealColumn(g[k], s, ref) : q = <<p.as, c>>
      BY <3>0
    <3>2. ref \in Refs(s)
      BY <3>0, <3>1 DEF Refs
    <3>3. k + 1 \in Places(tree) /\ \A i \in 1..(k + 1) - 1 : \A r \in g[k][i] : r[2] \notin Denied
      BY <1>1, <2>1, <2>3
    <3>4. RealColumn(g[k], s, ref) \cap Denied = {}
      BY <3>2, <3>3, RealIsAllowed
    <3> QED
      BY <3>1, <3>4
  <2> HIDE DEF more
  <2>5. /\ g[k + 1] = [i \in 1..k + 1 |-> g[k + 1][i]]
        /\ g[k + 1][k + 1] = more
        /\ \A i \in 1..k : g[k + 1][i] = g[k][i]
    <3> DEFINE e == g[k]
    <3>1. e = [i \in 1..k |-> e[i]]
      BY <2>3
    <3> HIDE DEF e
    <3>2. LET all == Append(e, more)
          IN  /\ all = [i \in 1..k + 1 |-> all[i]]
              /\ all[k + 1] = more
              /\ \A i \in 1..k : all[i] = e[i]
      BY <2>1, <3>1, AddedTo
    <3> QED
      BY <2>2, <3>2 DEF e
  <2>6. Clean(k + 1)
    <3> SUFFICES ASSUME NEW i \in 1..k + 1
                 PROVE  \A q \in g[k + 1][i] : q[2] \notin Denied
      OBVIOUS
    <3>1. i = k + 1 \/ i \in 1..k
      BY <2>1
    <3> QED
      BY <2>3, <2>4, <2>5, <3>1
  <2> QED
    BY <2>1, <2>5, <2>6
<1> HIDE DEF S
<1>5. n \in S
  <2>1. n \in 0..n
    BY <1>1
  <2> HIDE DEF n
  <2> QED
    BY <1>1, <1>3, <1>4, <2>1, OneByOne
<1>6. \A i \in 1..n : \A q \in Exported(tree)[i] : q[2] \notin Denied
  BY <1>5 DEF S, Exported, g
<1> TAKE s \in Selects(tree)
<1> TAKE ref \in Refs(s)
<1>7. PICK k \in Places(tree) : s = tree.selects[k]
  BY DEF Selects
<1>8. \A i \in 1..k - 1 : \A q \in Exported(tree)[i] : q[2] \notin Denied
  <2>1. \A i \in 1..k - 1 : i \in 1..n
    BY <1>1
  <2> QED
    BY <1>6, <2>1
<1> QED
  BY <1>7, <1>8, RealIsAllowed

-----------------------------------------------------------------------------
(* The rows a statement reads *)

\* A line of a source, and of what a select returns, with rows of R in it.
LinesOf(tree, x, R) == [ColumnsOf(tree, x) -> R]

LinesAt(tree, k, R) == [{p.as : p \in tree.selects[k].items} -> R]

\* What rows can be read from a select: its aliases are different, its tables
\* known, and its plain projections of columns its sources have.
Readable(tree, k, s) ==
    /\ Len(s.joins) \in Nat /\ DOMAIN s.joins = 1..Len(s.joins)
    /\ \A i \in 1..Len(s.joins) :
        /\ s.joins[i].source.alias # s.from.alias
        /\ \A l \in 1..i - 1 : s.joins[l].source.alias # s.joins[i].source.alias
    /\ \A x \in Sources(s) : x.select \in 0..k - 1 /\ (IsTable(x) => x.table \in DOMAIN Columns)
    /\ \A p \in s.items : p.plain =>
        \E ref \in p.refs : p.refs = {ref} /\ \E x \in Sources(s) : x.alias = ref[1] /\ ref[2] \in ColumnsOf(tree, x)

Before(tree, k, returned, R) == \A i \in 1..k - 1 : returned[i] \subseteq LinesAt(tree, i, R)

Aliases(s) == {x.alias : x \in Sources(s)}

IsEnv(tree, s, R, env) ==
    env = [a \in Aliases(s) |-> env[a]] /\ \A x \in Sources(s) : env[x.alias] \in LinesOf(tree, x, R)

\* From lines of R, a select reads rows of R only.
Keeps(tree, R) ==
    \A k \in Places(tree) : \A returned : Before(tree, k, returned, R) =>
        \A env \in Environments(tree, returned, tree.selects[k]) : IsEnv(tree, tree.selects[k], R, env)

LEMMA SourcesAre ==
    ASSUME NEW s, DOMAIN s.joins = 1..Len(s.joins)
    PROVE  Sources(s) = {s.from} \cup {s.joins[i].source : i \in 1..Len(s.joins)}
BY DEF Sources, ToSet

\* An alias says which source.
LEMMA OneSource ==
    ASSUME NEW tree, NEW k, NEW s, Readable(tree, k, s)
    PROVE  /\ \A x, y \in Sources(s) : x.alias = y.alias => x = y
           /\ \A x \in Sources(s) : SourceOf(s, x.alias) = x
<1> DEFINE n == Len(s.joins)
<1>1. n \in Nat /\ Sources(s) = {s.from} \cup {s.joins[i].source : i \in 1..n}
  BY SourcesAre DEF Readable
<1>2. \A i, l \in 1..n : s.joins[i].source.alias = s.joins[l].source.alias => i = l
  <2> SUFFICES ASSUME NEW i \in 1..n, NEW l \in 1..n, s.joins[i].source.alias = s.joins[l].source.alias, i # l
               PROVE  FALSE
    OBVIOUS
  <2>1. i \in 1..l - 1 \/ l \in 1..i - 1
    OBVIOUS
  <2> QED
    BY <2>1 DEF Readable
<1>3. \A i \in 1..n : s.joins[i].source.alias # s.from.alias
  BY DEF Readable
<1> HIDE DEF n
<1>4. ASSUME NEW x \in Sources(s), NEW y \in Sources(s), x.alias = y.alias
      PROVE  x = y
  BY <1>1, <1>2, <1>3, <1>4
<1>5. ASSUME NEW x \in Sources(s)
      PROVE  SourceOf(s, x.alias) = x
  BY <1>4 DEF SourceOf
<1> QED
  BY <1>4, <1>5

LEMMA BlankIs ==
    ASSUME NEW tree, NEW k, NEW s, Readable(tree, k, s)
    PROVE  /\ Blank(tree, s) = [a \in Aliases(s) |-> Blank(tree, s)[a]]
           /\ \A x \in Sources(s) : Blank(tree, s)[x.alias] = [c \in ColumnsOf(tree, x) |-> NoRow]
<1>1. \A x \in Sources(s) : SourceOf(s, x.alias) = x
  BY OneSource
<1>2. \A x \in Sources(s) : x.alias \in Aliases(s)
  BY DEF Aliases
<1>3. Blank(tree, s) = [a \in Aliases(s) |-> [c \in ColumnsOf(tree, SourceOf(s, a)) |-> NoRow]]
  BY DEF Blank, Aliases
<1> QED
  BY <1>1, <1>2, <1>3

LEMMA WithIs ==
    ASSUME NEW A, NEW env, env = [a \in A |-> env[a]], NEW x, x.alias \in A, NEW v
    PROVE  /\ With(env, x, v) = [a \in A |-> With(env, x, v)[a]]
           /\ With(env, x, v)[x.alias] = v
           /\ \A a \in A : a # x.alias => With(env, x, v)[a] = env[a]
BY DEF With

\* A line of a table is of one row, a line of anything else of what was kept.
LEMMA SourceRowsAre ==
    ASSUME NEW tree, NEW k, NEW s, Readable(tree, k, s), NEW returned, NEW R, Before(tree, k, returned, R),
           NEW x \in Sources(s), NEW v \in SourceRows(returned, x)
    PROVE  /\ IsTable(x) => \E row \in Rows[x.table] : v = [c \in Columns[x.table] |-> row] /\ row.table = x.table
           /\ ~IsTable(x) => v \in LinesOf(tree, x, R)
<1>1. x.select \in 0..k - 1 /\ (IsTable(x) => x.table \in DOMAIN Columns)
  BY DEF Readable
<1>2. CASE IsTable(x)
  <2>1. PICK row \in Rows[x.table] : v = [c \in Columns[x.table] |-> row]
    BY <1>2 DEF SourceRows
  <2>2. row.table = x.table
    BY <1>1, <1>2, ValidatorAssumption
  <2> QED
    BY <1>2, <2>1, <2>2
<1>3. CASE ~IsTable(x)
  <2>1. x.select \in 1..k - 1
    BY <1>1, <1>3 DEF IsTable
  <2>2. v \in returned[x.select]
    BY <1>3 DEF SourceRows
  <2>3. v \in LinesAt(tree, x.select, R)
    BY <2>1, <2>2 DEF Before
  <2> QED
    BY <1>3, <2>3 DEF LinesAt, LinesOf, ColumnsOf
<1> QED
  BY <1>2, <1>3

\* A line a select returns is of rows it reads.
LEMMA LineIsOf ==
    ASSUME NEW tree, NEW k, NEW s, Readable(tree, k, s), NEW R, NoRow \in R,
           NEW env, IsEnv(tree, s, R, env)
    PROVE  Line(s, env) \in [{p.as : p \in s.items} -> R]
<1> DEFINE Item(name) == CHOOSE p \in s.items : p.as = name
<1> SUFFICES ASSUME NEW name \in {p.as : p \in s.items}
             PROVE  Value(env, Item(name)) \in R
  BY DEF Line
<1>1. Item(name) \in s.items
  OBVIOUS
<1> DEFINE p == Item(name)
<1> HIDE DEF Item
<1>2. CASE p.plain
  <2>1. PICK to \in p.refs : p.refs = {to} /\ \E x \in Sources(s) : x.alias = to[1] /\ to[2] \in ColumnsOf(tree, x)
    BY <1>1, <1>2 DEF Readable
  <2>2. PICK x \in Sources(s) : x.alias = to[1] /\ to[2] \in ColumnsOf(tree, x)
    BY <2>1
  <2> HIDE DEF p
  <2> DEFINE ref == CHOOSE q \in p.refs : TRUE
  <2>3. ref = to
    BY <2>1
  <2>4. Value(env, p) = env[x.alias][to[2]]
    <3>1. Value(env, p) = env[ref[1]][ref[2]]
      BY <1>2 DEF Value
    <3> HIDE DEF ref
    <3> QED
      BY <2>2, <2>3, <3>1
  <2>5. env[x.alias] \in LinesOf(tree, x, R)
    BY <2>2 DEF IsEnv
  <2> QED
    BY <2>2, <2>4, <2>5 DEF LinesOf, p
<1>3. CASE ~p.plain
  BY <1>3 DEF Value
<1> QED
  BY <1>2, <1>3

\* Then the whole statement does.
LEMMA KeptThroughout ==
    ASSUME NEW tree, Len(tree.selects) \in Nat, NEW R, NoRow \in R, Keeps(tree, R),
           \A k \in Places(tree) : Readable(tree, k, tree.selects[k])
    PROVE  Contributing(tree) \subseteq R
<1> DEFINE n == Len(tree.selects)
           g == ReturnedUpTo(tree)
           S == {k \in 0..n : g[k] = [i \in 1..k |-> g[k][i]] /\ Before(tree, k + 1, g[k], R)}
<1>1. n \in Nat /\ Places(tree) = 1..n
  BY DEF Places
<1>2. g[0] = <<>> /\ \A k \in 1..n : g[k] = Append(g[k - 1], Returned(tree, g[k - 1], tree.selects[k]))
  BY <1>1, ReturnedInTurn
<1> HIDE DEF g
<1>3. 0 \in S
  <2>1. g[0] = [i \in 1..0 |-> g[0][i]]
    BY <1>2
  <2> QED
    BY <1>1, <2>1 DEF Before
<1>4. ASSUME NEW k \in 0..n, k < n, k \in S
      PROVE  k + 1 \in S
  <2> DEFINE s == tree.selects[k + 1]
             e == g[k]
             more == Returned(tree, e, s)
  <2>1. k + 1 \in 1..n /\ (k + 1) - 1 = k /\ k \in Nat
    BY <1>1, <1>4
  <2>2. g[k + 1] = Append(e, more)
    BY <1>2, <2>1
  <2>3. e = [i \in 1..k |-> e[i]] /\ Before(tree, k + 1, e, R)
    BY <1>4
  <2>4. more \subseteq LinesAt(tree, k + 1, R)
    <3> SUFFICES ASSUME NEW env \in Environments(tree, e, s)
                 PROVE  Line(s, env) \in LinesAt(tree, k + 1, R)
      BY DEF Returned
    <3>1. k + 1 \in Places(tree)
      BY <1>1, <2>1
    <3>2. IsEnv(tree, s, R, env)
      BY <2>3, <3>1 DEF Keeps
    <3>3. Readable(tree, k + 1, s)
      BY <3>1
    <3>4. Line(s, env) \in [{p.as : p \in s.items} -> R]
      <4> HIDE DEF s
      <4> QED
        BY <3>2, <3>3, LineIsOf
    <3> QED
      BY <3>4 DEF LinesAt
  <2> HIDE DEF more, e
  <2>5. LET all == Append(e, more)
        IN  /\ all = [i \in 1..k + 1 |-> all[i]]
            /\ all[k + 1] = more
            /\ \A i \in 1..k : all[i] = e[i]
    BY <2>1, <2>3, AddedTo
  <2>6. Before(tree, (k + 1) + 1, g[k + 1], R)
    <3> SUFFICES ASSUME NEW i \in 1..k + 1
                 PROVE  g[k + 1][i] \subseteq LinesAt(tree, i, R)
      BY <2>1 DEF Before
    <3>1. i = k + 1 \/ i \in 1..k
      BY <2>1
    <3>2. \A l \in 1..k : e[l] \subseteq LinesAt(tree, l, R)
      BY <2>1, <2>3 DEF Before
    <3> QED
      BY <2>2, <2>4, <2>5, <3>1, <3>2
  <2>7. g[k + 1] = [i \in 1..k + 1 |-> g[k + 1][i]]
    BY <2>2, <2>5
  <2> QED
    BY <2>1, <2>6, <2>7
<1> HIDE DEF S
<1>5. \A k \in 0..n : k \in S
  <2> HIDE DEF n
  <2> QED
    BY <1>1, <1>3, <1>4, OneByOne
<1> SUFFICES ASSUME NEW k \in Places(tree), NEW env \in Environments(tree, g[k - 1], tree.selects[k])
             PROVE  ReadIn(env) \subseteq R
  BY DEF Contributing, g
<1>6. IsEnv(tree, tree.selects[k], R, env)
  <2>1. k - 1 \in 0..n /\ (k - 1) + 1 = k
    BY <1>1
  <2>2. Before(tree, k, g[k - 1], R)
    BY <1>5, <2>1 DEF S
  <2> QED
    BY <2>2 DEF Keeps
<1> DEFINE s == tree.selects[k]
<1> SUFFICES ASSUME NEW a \in DOMAIN env, NEW c \in DOMAIN env[a]
             PROVE  env[a][c] \in R
  BY DEF ReadIn
<1>7. PICK x \in Sources(s) : a = x.alias
  BY <1>6 DEF IsEnv, Aliases
<1>8. env[a] \in LinesOf(tree, x, R)
  BY <1>6, <1>7 DEF IsEnv
<1> QED
  BY <1>8 DEF LinesOf

-----------------------------------------------------------------------------
(* Conditions keep rows out *)

AllRows == (UNION {Rows[t] : t \in DOMAIN Rows}) \cup {NoRow}

Unflaggeds == {r \in AllRows : r.table = Guarded => ~r.flagged}

Recents == {r \in AllRows : (\E p \in TimeColumns : p[1] = r.table) => ~r.old}

GuardsIn(s) ==
    /\ GuardOf(s.from) \subseteq s.where
    /\ \A i \in 1..Len(s.joins) : GuardOf(s.joins[i].source) \subseteq s.joins[i].on

SidesIn(s, sides) == \A i \in 1..Len(s.joins) : s.joins[i].side \in sides

\* INNER keeps what fits, and LEFT what was there too.
LEMMA JoinedIs ==
    ASSUME NEW envs, NEW rows, NEW j, j.side \in {"inner", "left"}, NEW blank, NEW e \in Joined(envs, rows, j, blank)
    PROVE  \/ \E f \in envs : \E v \in rows : Fits(f, j, v) /\ e = With(f, j.source, v)
           \/ j.side = "left" /\ e \in envs
<1>1. j.side \notin {"right", "full"}
  OBVIOUS
<1>2. CASE e \in {With(p[1], j.source, p[2]) : p \in {q \in envs \X rows : Fits(q[1], j, q[2])}}
  BY <1>2
<1>3. CASE j.side \in {"left", "full"} /\ e \in {f \in envs : \A v \in rows : ~Fits(f, j, v)}
  BY <1>1, <1>3
<1> QED
  BY <1>1, <1>2, <1>3 DEF Joined

LEMMA HeldUnflagged ==
    ASSUME NEW x, NEW env, Holds(Unflagged(x), env)
    PROVE  ~env[x.alias][Flag].flagged
BY DEF Holds, Unflagged

LEMMA HeldSince ==
    ASSUME NEW t, t.op = "since", NEW env, Holds(t, env)
    PROVE  env[t.left[1]][t.left[2]] # NoRow /\ ~env[t.left[1]][t.left[2]].old
BY DEF Holds

\* A line of a source is in order, if a guarded one is.
LEMMA SourceIsUnflagged ==
    ASSUME NEW tree, NEW k, NEW s, Readable(tree, k, s), NEW returned, Before(tree, k, returned, Unflaggeds),
           NEW x \in Sources(s), NEW v \in SourceRows(returned, x), IsGuarded(x) => ~v[Flag].flagged
    PROVE  v \in LinesOf(tree, x, Unflaggeds)
<1>1. CASE ~IsTable(x)
  BY <1>1, SourceRowsAre
<1>2. CASE IsTable(x)
  <2>1. PICK row \in Rows[x.table] : v = [c \in Columns[x.table] |-> row] /\ row.table = x.table
    BY <1>2, SourceRowsAre
  <2>2. x.table \in DOMAIN Rows
    BY <1>2, ValidatorAssumption DEF Readable
  <2>3. x.table = Guarded => ~row.flagged
    BY <1>2, <2>1, ValidatorAssumption DEF IsGuarded
  <2>4. row \in Unflaggeds
    BY <2>1, <2>2, <2>3 DEF Unflaggeds, AllRows
  <2> QED
    BY <1>2, <2>1, <2>4 DEF LinesOf, ColumnsOf
<1> QED
  BY <1>1, <1>2

LEMMA NoRowIsKept == NoRow \in Unflaggeds /\ NoRow \in Recents
<1>1. NoRow \in AllRows /\ ~NoRow.old /\ ~NoRow.flagged
  <2>1. NoRow \in AllRows
    BY DEF AllRows
  <2> QED
    BY <2>1 DEF NoRow
<1> QED
  BY <1>1 DEF Unflaggeds, Recents

\* From the first source on: what is joined is guarded in its ON, and the
\* first source, whose lines a LEFT join keeps, in WHERE.
LEMMA FlaggedKeptOut ==
    ASSUME NEW tree,
           \A k \in Places(tree) : LET s == tree.selects[k]
                                   IN  Readable(tree, k, s) /\ GuardsIn(s) /\ SidesIn(s, {"inner", "left"})
    PROVE  Keeps(tree, Unflaggeds)
<1> SUFFICES ASSUME NEW k \in Places(tree), NEW returned, Before(tree, k, returned, Unflaggeds),
                    NEW env \in Environments(tree, returned, tree.selects[k])
             PROVE  IsEnv(tree, tree.selects[k], Unflaggeds, env)
  BY DEF Keeps
<1> DEFINE s == tree.selects[k]
           n == Len(s.joins)
           A == Aliases(s)
           g == JoinedUpTo(tree, returned, s)
           Fine(e) == /\ e = [a \in A |-> e[a]]
                      /\ e[s.from.alias] \in SourceRows(returned, s.from)
                      /\ \A x \in Sources(s) : x # s.from => e[x.alias] \in LinesOf(tree, x, Unflaggeds)
           S == {i \in 0..n : \A e \in g[i] : Fine(e)}
<1>1. Readable(tree, k, s) /\ GuardsIn(s) /\ SidesIn(s, {"inner", "left"})
  OBVIOUS
<1> HIDE DEF s
<1>2. /\ n \in Nat
      /\ Sources(s) = {s.from} \cup {s.joins[i].source : i \in 1..n}
      /\ \A x \in Sources(s) : x.alias \in A
      /\ \A x, y \in Sources(s) : x.alias = y.alias => x = y
  <2>1. Sources(s) = {s.from} \cup {s.joins[i].source : i \in 1..n}
    BY <1>1, SourcesAre DEF Readable
  <2>2. \A x, y \in Sources(s) : x.alias = y.alias => x = y
    BY <1>1, OneSource
  <2> QED
    BY <1>1, <2>1, <2>2 DEF Readable, Aliases
<1>3. /\ g[0] = {With(Blank(tree, s), s.from, v) : v \in SourceRows(returned, s.from)}
      /\ \A i \in 1..n : g[i] = Joined(g[i - 1], SourceRows(returned, s.joins[i].source), s.joins[i], Blank(tree, s))
  <2>1. Len(s.joins) \in Nat
    BY <1>2
  <2> QED
    BY <2>1, JoinedInTurn
<1> HIDE DEF g, n, A
<1>4. /\ Blank(tree, s) = [a \in A |-> Blank(tree, s)[a]]
      /\ \A x \in Sources(s) : Blank(tree, s)[x.alias] \in LinesOf(tree, x, Unflaggeds)
  <2>1. /\ Blank(tree, s) = [a \in Aliases(s) |-> Blank(tree, s)[a]]
        /\ \A x \in Sources(s) : Blank(tree, s)[x.alias] = [c \in ColumnsOf(tree, x) |-> NoRow]
    BY <1>1, BlankIs
  <2> QED
    BY <2>1, NoRowIsKept DEF LinesOf, A
<1>5. 0 \in S
  <2> SUFFICES ASSUME NEW v \in SourceRows(returned, s.from)
               PROVE  Fine(With(Blank(tree, s), s.from, v))
    <3>1. g[0] = {With(Blank(tree, s), s.from, v) : v \in SourceRows(returned, s.from)}
      BY <1>3
    <3>2. 0 \in 0..n
      BY <1>2
    <3> HIDE DEF Fine
    <3> QED
      BY <3>1, <3>2
  <2> DEFINE blank == Blank(tree, s)
             e == With(blank, s.from, v)
  <2>1. s.from \in Sources(s) /\ s.from.alias \in A
    BY <1>2
  <2> HIDE DEF blank
  <2>2. e = [a \in A |-> e[a]] /\ e[s.from.alias] = v /\ \A a \in A : a # s.from.alias => e[a] = blank[a]
    BY <1>4, <2>1, WithIs DEF blank
  <2> HIDE DEF e
  <2>3. \A x \in Sources(s) : x # s.from => e[x.alias] \in LinesOf(tree, x, Unflaggeds)
    BY <1>2, <1>4, <2>1, <2>2 DEF blank
  <2> QED
    BY <2>2, <2>3 DEF e, blank
<1>6. ASSUME NEW i \in 0..n, i < n, i \in S
      PROVE  i + 1 \in S
  <2> DEFINE j == s.joins[i + 1]
             x == j.source
  <2>1. i + 1 \in 1..n /\ (i + 1) - 1 = i
    BY <1>2, <1>6
  <2>2. g[i + 1] = Joined(g[i], SourceRows(returned, x), j, Blank(tree, s))
    BY <1>3, <2>1
  <2>3. x \in Sources(s) /\ x.alias \in A /\ x.alias # s.from.alias /\ x # s.from
    BY <1>1, <1>2, <2>1 DEF Readable, n
  <2>4. j.side \in {"inner", "left"} /\ GuardOf(x) \subseteq j.on
    BY <1>1, <2>1 DEF SidesIn, GuardsIn, n
  <2> HIDE DEF j
  <2> SUFFICES ASSUME NEW e \in g[i + 1]
               PROVE  Fine(e)
    BY <1>2, <2>1
  <2>5. \A f \in g[i] : Fine(f)
    BY <1>6
  <2>6. ASSUME NEW f \in g[i], NEW v \in SourceRows(returned, x), Fits(f, j, v), e = With(f, x, v)
        PROVE  Fine(e)
    <3>1. Fine(f)
      BY <2>5
    <3>2. e = [a \in A |-> e[a]] /\ e[x.alias] = v /\ \A a \in A : a # x.alias => e[a] = f[a]
      <4> HIDE DEF x
      <4> QED
        BY <2>3, <2>6, <3>1, WithIs
    <3>3. IsGuarded(x) => ~v[Flag].flagged
      <4> SUFFICES ASSUME IsGuarded(x)
                   PROVE  ~v[Flag].flagged
        OBVIOUS
      <4>1. Holds(Unflagged(x), e)
        BY <2>4, <2>6 DEF GuardOf, Fits
      <4> HIDE DEF x
      <4> QED
        BY <3>2, <4>1, HeldUnflagged
    <3>4. v \in LinesOf(tree, x, Unflaggeds)
      <4> HIDE DEF x
      <4> QED
        BY <1>1, <2>3, <3>3, SourceIsUnflagged
    <3> HIDE DEF x
    <3>5. e[s.from.alias] \in SourceRows(returned, s.from)
      BY <1>2, <2>3, <3>1, <3>2
    <3>6. ASSUME NEW y \in Sources(s), y # s.from
          PROVE  e[y.alias] \in LinesOf(tree, y, Unflaggeds)
      <4>1. CASE y = x
        BY <3>2, <3>4, <4>1
      <4>2. CASE y # x
        <5>1. y.alias # x.alias /\ y.alias \in A
          BY <1>2, <2>3, <4>2
        <5> QED
          BY <3>1, <3>2, <3>6, <5>1
      <4> QED
        BY <4>1, <4>2
    <3> QED
      BY <3>2, <3>5, <3>6
  <2>7. \/ \E f \in g[i] : \E v \in SourceRows(returned, x) : Fits(f, j, v) /\ e = With(f, x, v)
        \/ e \in g[i]
    BY <2>2, <2>4, JoinedIs
  <2> QED
    BY <2>5, <2>6, <2>7
<1> HIDE DEF S
<1>7. n \in S
  <2>1. n \in 0..n
    BY <1>2
  <2> QED
    BY <1>2, <1>5, <1>6, <2>1, OneByOne
<1>8. env \in g[n] /\ \A t \in s.where : Holds(t, env)
  BY DEF Environments, g, n, s
<1>9. Fine(env)
  BY <1>7, <1>8 DEF S
<1>10. IsGuarded(s.from) => ~env[s.from.alias][Flag].flagged
  BY <1>1, <1>8, HeldUnflagged DEF GuardsIn, GuardOf
<1>11. env[s.from.alias] \in LinesOf(tree, s.from, Unflaggeds)
  <2> DEFINE x == s.from
             v == env[x.alias]
  <2>1. x \in Sources(s) /\ v \in SourceRows(returned, x) /\ (IsGuarded(x) => ~v[Flag].flagged)
    BY <1>2, <1>9, <1>10
  <2> HIDE DEF x, v
  <2>2. v \in LinesOf(tree, x, Unflaggeds)
    BY <1>1, <2>1, SourceIsUnflagged
  <2> QED
    BY <2>2 DEF x, v
<1>12. IsEnv(tree, s, Unflaggeds, env)
  BY <1>9, <1>11 DEF IsEnv, A
<1> QED
  BY <1>12 DEF s

\* And recent, if a column of a large table says so.
LEMMA SourceIsRecent ==
    ASSUME NEW tree, NEW k, NEW s, Readable(tree, k, s), NEW returned, Before(tree, k, returned, Recents),
           NEW x \in Sources(s), NEW v \in SourceRows(returned, x),
           IsTable(x) /\ (\E p \in TimeColumns : p[1] = x.table) => \E c \in Columns[x.table] : ~v[c].old
    PROVE  v \in LinesOf(tree, x, Recents)
<1>1. CASE ~IsTable(x)
  BY <1>1, SourceRowsAre
<1>2. CASE IsTable(x)
  <2>1. PICK row \in Rows[x.table] : v = [c \in Columns[x.table] |-> row] /\ row.table = x.table
    BY <1>2, SourceRowsAre
  <2>2. x.table \in DOMAIN Rows
    BY <1>2, ValidatorAssumption DEF Readable
  <2>3. (\E p \in TimeColumns : p[1] = row.table) => ~row.old
    BY <1>2, <2>1
  <2>4. row \in Recents
    BY <2>1, <2>2, <2>3 DEF Recents, AllRows
  <2> QED
    BY <1>2, <2>1, <2>4 DEF LinesOf, ColumnsOf
<1> QED
  BY <1>1, <1>2

\* A lower bound is on a column its table has.
LEMMA BoundedColumn ==
    ASSUME NEW x, NEW t, IsLowerBound(TimeColumns, t, x)
    PROVE  t.op = "since" /\ t.left[1] = x.alias /\ t.left[2] \in Columns[x.table]
BY ValidatorAssumption DEF IsLowerBound

Bounded(s) ==
    \A x \in {y \in Sources(s) : IsTable(y)} :
        (\E p \in TimeColumns : p[1] = x.table) => \E t \in s.where \cup Ons(s) : IsLowerBound(TimeColumns, t, x)

\* A bound in an ON before its table is joined holds of no line, one after
\* that of every later line, and one in WHERE of the lines at the end.
LEMMA OldKeptOut ==
    ASSUME NEW tree,
           \A k \in Places(tree) : LET s == tree.selects[k]
                                   IN  Readable(tree, k, s) /\ Bounded(s) /\ SidesIn(s, {"inner"})
    PROVE  Keeps(tree, Recents)
<1> SUFFICES ASSUME NEW k \in Places(tree), NEW returned, Before(tree, k, returned, Recents),
                    NEW env \in Environments(tree, returned, tree.selects[k])
             PROVE  IsEnv(tree, tree.selects[k], Recents, env)
  BY DEF Keeps
<1> DEFINE s == tree.selects[k]
           n == Len(s.joins)
           A == Aliases(s)
           X(i) == s.joins[i].source
           g == JoinedUpTo(tree, returned, s)
           blank == Blank(tree, s)
           Passed(e, t, x) == e[x.alias][t.left[2]] # NoRow /\ ~e[x.alias][t.left[2]].old
           Fine(e) == /\ e = [a \in A |-> e[a]]
                      /\ e[s.from.alias] \in SourceRows(returned, s.from)
           There(i, e) == \A l \in 1..n : l <= i => e[X(l).alias] \in SourceRows(returned, X(l))
           Away(i, e) == \A l \in 1..n : l > i => e[X(l).alias] = blank[X(l).alias]
           Held(i, e) == \A l \in 1..n : l <= i =>
                            \A t \in s.joins[l].on : \A x \in Sources(s) : IsTable(x) /\ IsLowerBound(TimeColumns, t, x) => Passed(e, t, x)
           S == {i \in 0..n : \A e \in g[i] : Fine(e) /\ There(i, e) /\ Away(i, e) /\ Held(i, e)}
<1>1. Readable(tree, k, s) /\ Bounded(s) /\ SidesIn(s, {"inner"})
  OBVIOUS
<1> HIDE DEF s
<1>2. /\ n \in Nat
      /\ Sources(s) = {s.from} \cup {X(i) : i \in 1..n}
      /\ \A x \in Sources(s) : x.alias \in A
      /\ \A x, y \in Sources(s) : x.alias = y.alias => x = y
  <2>1. Sources(s) = {s.from} \cup {s.joins[i].source : i \in 1..n}
    BY <1>1, SourcesAre DEF Readable
  <2>2. \A x, y \in Sources(s) : x.alias = y.alias => x = y
    BY <1>1, OneSource
  <2> QED
    BY <1>1, <2>1, <2>2 DEF Readable, Aliases
<1>3. /\ g[0] = {With(blank, s.from, v) : v \in SourceRows(returned, s.from)}
      /\ \A i \in 1..n : g[i] = Joined(g[i - 1], SourceRows(returned, X(i)), s.joins[i], blank)
  <2>1. Len(s.joins) \in Nat
    BY <1>2
  <2> QED
    BY <2>1, JoinedInTurn
<1>4. /\ blank = [a \in A |-> blank[a]]
      /\ \A x \in Sources(s) : blank[x.alias] = [c \in ColumnsOf(tree, x) |-> NoRow]
  BY <1>1, BlankIs
<1>5. \A l \in 1..n : X(l) \in Sources(s) /\ X(l).alias \in A /\ X(l).alias # s.from.alias
  BY <1>1, <1>2 DEF Readable
<1>6. \A l, m \in 1..n : X(l).alias = X(m).alias => l = m
  <2> SUFFICES ASSUME NEW l \in 1..n, NEW m \in 1..n, X(l).alias = X(m).alias, l # m
               PROVE  FALSE
    OBVIOUS
  <2>1. l \in 1..m - 1 \/ m \in 1..l - 1
    BY <1>2
  <2> QED
    BY <1>1, <2>1 DEF Readable
<1> HIDE DEF g, n, A, blank, X, Passed
<1>7. 0 \in S
  <2> SUFFICES ASSUME NEW e \in g[0]
               PROVE  Fine(e) /\ Away(0, e)
    BY <1>2
  <2>1. PICK v \in SourceRows(returned, s.from) : e = With(blank, s.from, v)
    BY <1>3
  <2>2. s.from \in Sources(s) /\ s.from.alias \in A
    BY <1>2
  <2>3. e = [a \in A |-> e[a]] /\ e[s.from.alias] = v /\ \A a \in A : a # s.from.alias => e[a] = blank[a]
    BY <1>4, <2>1, <2>2, WithIs
  <2> QED
    BY <1>5, <2>3
<1>8. ASSUME NEW i \in 0..n, i < n, i \in S
      PROVE  i + 1 \in S
  <2> DEFINE j == s.joins[i + 1]
             x == X(i + 1)
  <2>1. i + 1 \in 1..n /\ (i + 1) - 1 = i
    BY <1>2, <1>8
  <2>2. g[i + 1] = Joined(g[i], SourceRows(returned, x), j, blank)
    BY <1>3, <2>1
  <2>3. x \in Sources(s) /\ x.alias \in A /\ x.alias # s.from.alias
    BY <1>5, <2>1
  <2>4. j.side = "inner" /\ j.source = x
    BY <1>1, <2>1 DEF SidesIn, n, X
  <2> HIDE DEF j, x
  <2> SUFFICES ASSUME NEW e \in g[i + 1]
               PROVE  Fine(e) /\ There(i + 1, e) /\ Away(i + 1, e) /\ Held(i + 1, e)
    BY <1>2, <2>1
  <2>5. PICK f \in g[i] : \E v \in SourceRows(returned, x) : Fits(f, j, v) /\ e = With(f, x, v)
    BY <2>2, <2>4, JoinedIs
  <2>6. PICK v \in SourceRows(returned, x) : Fits(f, j, v) /\ e = With(f, x, v)
    BY <2>5
  <2>7. Fine(f) /\ There(i, f) /\ Away(i, f) /\ Held(i, f)
    BY <1>8
  <2>8. e = [a \in A |-> e[a]] /\ e[x.alias] = v /\ \A a \in A : a # x.alias => e[a] = f[a]
    BY <2>3, <2>6, <2>7, WithIs
  <2>9. Fine(e)
    BY <1>2, <2>3, <2>7, <2>8
  <2>10. \A l \in 1..n : l # i + 1 => e[X(l).alias] = f[X(l).alias]
    <3> TAKE l \in 1..n
    <3>1. l # i + 1 => X(l).alias # x.alias
      BY <1>6, <2>1 DEF x
    <3> QED
      BY <1>5, <2>8, <3>1
  <2>11. There(i + 1, e)
    <3> SUFFICES ASSUME NEW l \in 1..n, l <= i + 1
                 PROVE  e[X(l).alias] \in SourceRows(returned, X(l))
      OBVIOUS
    <3>1. l = i + 1 \/ l <= i
      BY <1>2
    <3> QED
      BY <2>7, <2>8, <2>10, <3>1 DEF x
  <2>12. Away(i + 1, e)
    <3> SUFFICES ASSUME NEW l \in 1..n, l > i + 1
                 PROVE  e[X(l).alias] = blank[X(l).alias]
      OBVIOUS
    <3>1. l > i /\ l # i + 1
      BY <1>2
    <3> QED
      BY <2>7, <2>10, <3>1
  <2>13. Held(i + 1, e)
    <3> SUFFICES ASSUME NEW l \in 1..n, l <= i + 1, NEW t \in s.joins[l].on, NEW y \in Sources(s),
                        IsTable(y), IsLowerBound(TimeColumns, t, y)
                 PROVE  Passed(e, t, y)
      OBVIOUS
    <3>1. t.op = "since" /\ t.left[1] = y.alias /\ t.left[2] \in Columns[y.table]
      BY BoundedColumn
    <3>2. CASE l = i + 1
      <4>1. Holds(t, e)
        BY <2>4, <2>6, <3>2 DEF Fits, j
      <4> QED
        BY <3>1, <4>1, HeldSince DEF Passed
    <3>3. CASE l <= i
      <4>1. Passed(f, t, y)
        BY <2>7, <3>3
      <4>2. y # x
        <5> SUFFICES ASSUME y = x
                     PROVE  FALSE
          OBVIOUS
        <5>1. i + 1 > i
          BY <1>2
        <5>2. f[x.alias] = blank[x.alias]
          BY <2>1, <2>7, <5>1 DEF x
        <5>3. blank[x.alias] = [c \in Columns[x.table] |-> NoRow]
          BY <1>4, <2>3 DEF ColumnsOf
        <5> QED
          BY <3>1, <4>1, <5>2, <5>3 DEF Passed
      <4>3. e[y.alias] = f[y.alias]
        BY <1>2, <2>3, <2>8, <4>2
      <4> QED
        BY <4>1, <4>3 DEF Passed
    <3>4. l = i + 1 \/ l <= i
      BY <1>2
    <3> QED
      BY <3>2, <3>3, <3>4
  <2> HIDE DEF Fine, There, Away, Held
  <2> QED
    BY <2>9, <2>11, <2>12, <2>13
<1>9. n \in S
  <2>1. n \in 0..n
    BY <1>2
  <2> HIDE DEF S
  <2> QED
    BY <1>2, <1>7, <1>8, <2>1, OneByOne
<1>10. env \in g[n] /\ \A t \in s.where : Holds(t, env)
  BY DEF Environments, g, n, s
<1>11. Fine(env) /\ There(n, env) /\ Held(n, env)
  BY <1>9, <1>10
<1>12. \A l \in 1..n : l <= n
  BY <1>2
<1>13. ASSUME NEW x \in Sources(s)
       PROVE  env[x.alias] \in LinesOf(tree, x, Recents)
  <2> DEFINE v == env[x.alias]
  <2>1. v \in SourceRows(returned, x)
    BY <1>2, <1>11, <1>12
  <2>2. IsTable(x) /\ (\E p \in TimeColumns : p[1] = x.table) => \E c \in Columns[x.table] : ~v[c].old
    <3> SUFFICES ASSUME IsTable(x), \E p \in TimeColumns : p[1] = x.table
                 PROVE  \E c \in Columns[x.table] : ~v[c].old
      OBVIOUS
    <3>1. PICK t \in s.where \cup Ons(s) : IsLowerBound(TimeColumns, t, x)
      BY <1>1 DEF Bounded
    <3>2. t.op = "since" /\ t.left[1] = x.alias /\ t.left[2] \in Columns[x.table]
      BY <3>1, BoundedColumn
    <3>3. CASE t \in s.where
      <4>1. ~env[t.left[1]][t.left[2]].old
        BY <1>10, <3>2, <3>3, HeldSince
      <4> QED
        BY <3>2, <4>1
    <3>4. CASE t \in Ons(s)
      <4>1. PICK l \in 1..n : t \in s.joins[l].on
        BY <1>1, <3>4 DEF Ons, ToSet, Readable, n
      <4>2. Passed(env, t, x)
        BY <1>11, <1>12, <3>1, <4>1
      <4> QED
        BY <3>2, <4>2 DEF Passed
    <3> QED
      BY <3>3, <3>4
  <2> HIDE DEF v
  <2>3. v \in LinesOf(tree, x, Recents)
    BY <1>1, <2>1, <2>2, SourceIsRecent
  <2> QED
    BY <2>3 DEF v
<1>14. IsEnv(tree, s, Recents, env)
  BY <1>11, <1>13 DEF IsEnv, A
<1> QED
  BY <1>14 DEF s

-----------------------------------------------------------------------------
(* The rewriting *)

HasParts(s) ==
    s = [items |-> s.items, from |-> s.from, joins |-> s.joins, where |-> s.where,
         limit |-> s.limit, aggregate |-> s.aggregate]

\* What the rewriting leaves of a select: more conditions, on the same.
Grown(s, more) ==
    /\ more.items = s.items /\ more.from = s.from /\ s.where \subseteq more.where
    /\ Len(more.joins) = Len(s.joins) /\ DOMAIN more.joins = DOMAIN s.joins
    /\ \A i \in 1..Len(s.joins) :
        /\ more.joins[i].source = s.joins[i].source /\ more.joins[i].side = s.joins[i].side
        /\ s.joins[i].on \subseteq more.joins[i].on

LEMMA SameGrown == \A s : Grown(s, s)
BY DEF Grown

LEMMA SelectHas ==
    ASSUME NEW k, NEW s, SelectAt(k, s)
    PROVE  /\ HasParts(s) /\ Len(s.joins) \in Nat /\ DOMAIN s.joins = 1..Len(s.joins)
           /\ \A i \in 1..Len(s.joins) :
                s.joins[i] = [side |-> s.joins[i].side, source |-> s.joins[i].source, on |-> s.joins[i].on]
<1>1. HasParts(s)
  BY DEF SelectAt, HasParts
<1>2. s.joins \in Seq(ToSet(s.joins))
  BY DEF SelectAt
<1>3. Len(s.joins) \in Nat /\ DOMAIN s.joins = 1..Len(s.joins)
  <2> DEFINE q == s.joins
             Q == ToSet(q)
  <2>1. q \in Seq(Q)
    BY <1>2
  <2> HIDE DEF q, Q
  <2>2. Len(q) \in Nat /\ DOMAIN q = 1..Len(q)
    BY <2>1, LenProperties
  <2> QED
    BY <2>2 DEF q
<1>4. \A i \in 1..Len(s.joins) : s.joins[i] \in ToSet(s.joins)
  BY <1>3 DEF ToSet
<1>5. \A j \in ToSet(s.joins) : j = [side |-> j.side, source |-> j.source, on |-> j.on]
  BY DEF SelectAt
<1> QED
  BY <1>1, <1>3, <1>4, <1>5

LEMMA LenIs ==
    ASSUME NEW n \in Nat, NEW f, f = [i \in 1..n |-> f[i]]
    PROVE  Len(f) = n /\ DOMAIN f = 1..n
<1> DEFINE S == {f[i] : i \in 1..n}
<1>1. f \in [1..n -> S]
  OBVIOUS
<1> HIDE DEF S
<1> QED
  BY <1>1

LEMMA GuardedGrows ==
    ASSUME NEW k, NEW s, SelectAt(k, s)
    PROVE  Grown(s, GuardSelect(s)) /\ GuardsIn(GuardSelect(s)) /\ HasParts(GuardSelect(s))
<1> DEFINE n == Len(s.joins)
           more == GuardSelect(s)
           joins == [i \in 1..n |-> GuardJoin(s.joins[i])]
<1>1. /\ HasParts(s) /\ n \in Nat /\ DOMAIN s.joins = 1..n
      /\ \A i \in 1..n :
            s.joins[i] = [side |-> s.joins[i].side, source |-> s.joins[i].source, on |-> s.joins[i].on]
  BY SelectHas
<1>2. Len(joins) = n /\ DOMAIN joins = 1..n
  <2>1. n \in Nat
    BY <1>1
  <2>2. joins = [i \in 1..n |-> joins[i]]
    OBVIOUS
  <2> HIDE DEF n, joins
  <2> QED
    BY <2>1, <2>2, LenIs
<1>3. more = [items |-> s.items, from |-> s.from, joins |-> joins, where |-> s.where \cup GuardOf(s.from),
              limit |-> s.limit, aggregate |-> s.aggregate]
  <2>1. more = [s EXCEPT !.where = @ \cup GuardOf(s.from), !.joins = joins]
    BY DEF GuardSelect
  <2> HIDE DEF more, joins, n
  <2> QED
    BY <1>1, <2>1 DEF HasParts
<1>4. \A i \in 1..n :
         /\ joins[i].source = s.joins[i].source /\ joins[i].side = s.joins[i].side
         /\ joins[i].on = s.joins[i].on \cup GuardOf(s.joins[i].source)
  BY <1>1 DEF GuardJoin
<1> HIDE DEF more, joins, n
<1>5. /\ more.items = s.items /\ more.from = s.from /\ more.joins = joins
      /\ more.where = s.where \cup GuardOf(s.from) /\ HasParts(more)
  BY <1>3 DEF HasParts
<1>6. Grown(s, more)
  BY <1>1, <1>2, <1>4, <1>5 DEF Grown, n
<1>7. GuardsIn(more)
  BY <1>2, <1>4, <1>5 DEF GuardsIn
<1> QED
  BY <1>5, <1>6, <1>7 DEF more

LEMMA LimitedHas ==
    ASSUME NEW s, HasParts(s)
    PROVE  /\ Limited(s).items = s.items /\ Limited(s).from = s.from
           /\ Limited(s).joins = s.joins /\ Limited(s).where = s.where
BY DEF HasParts, Limited

\* The same selects at the same places.
GrownTree(tree, more) ==
    /\ Len(more.selects) = Len(tree.selects)
    /\ \A k \in Places(tree) : Grown(tree.selects[k], more.selects[k])

LEMMA WithGuardGrows ==
    ASSUME NEW tree, Statement(tree)
    PROVE  LET more == WithGuard(tree)
           IN  /\ more = [selects |-> more.selects, ctes |-> more.ctes]
               /\ more.selects = [k \in Places(tree) |-> more.selects[k]]
               /\ GrownTree(tree, more)
               /\ \A k \in Places(tree) : HasParts(more.selects[k]) /\ (~NamesFlag(tree) => GuardsIn(more.selects[k]))
<1> DEFINE n == Len(tree.selects)
           more == WithGuard(tree)
<1>1. /\ tree = [selects |-> tree.selects, ctes |-> tree.ctes] /\ n \in Nat /\ Places(tree) = 1..n
      /\ tree.selects = [k \in Places(tree) |-> tree.selects[k]]
  BY DEF Statement, Places
<1>2. \A k \in Places(tree) : SelectAt(k, tree.selects[k])
  BY DEF Statement
<1>3. CASE NamesFlag(tree)
  <2>1. more = tree
    BY <1>3 DEF WithGuard
  <2>2. \A k \in Places(tree) : HasParts(tree.selects[k]) /\ Grown(tree.selects[k], tree.selects[k])
    BY <1>2, SelectHas, SameGrown
  <2>3. GrownTree(tree, tree)
    BY <2>2 DEF GrownTree
  <2> HIDE DEF more
  <2> QED
    BY <1>1, <1>3, <2>1, <2>2, <2>3 DEF more
<1>4. CASE ~NamesFlag(tree)
  <2> DEFINE selects == [k \in Places(tree) |-> GuardSelect(tree.selects[k])]
  <2>1. more = [selects |-> selects, ctes |-> tree.ctes]
    BY <1>1, <1>4 DEF WithGuard
  <2>2. selects = [k \in Places(tree) |-> selects[k]]
    OBVIOUS
  <2>3. \A k \in Places(tree) : Grown(tree.selects[k], selects[k]) /\ GuardsIn(selects[k]) /\ HasParts(selects[k])
    BY <1>2, GuardedGrows
  <2> HIDE DEF more, selects
  <2>4. Len(selects) = n
    <3> HIDE DEF n
    <3> QED
      BY <1>1, <2>2, LenIs
  <2>5. more.selects = selects /\ more.ctes = tree.ctes
    BY <2>1
  <2>6. GrownTree(tree, more)
    BY <2>3, <2>4, <2>5 DEF GrownTree
  <2> QED
    BY <2>1, <2>2, <2>3, <2>5, <2>6 DEF more
<1> QED
  BY <1>3, <1>4

LEMMA RewrittenGrows ==
    ASSUME NEW tree, Statement(tree)
    PROVE  /\ GrownTree(tree, Rewritten(tree))
           /\ ~NamesFlag(tree) => \A k \in Places(tree) : GuardsIn(Rewritten(tree).selects[k])
           /\ Body(Rewritten(tree)) = Limited(Body(WithGuard(tree)))
<1> DEFINE n == Len(tree.selects)
           m == WithGuard(tree)
           more == Rewritten(tree)
<1>1. /\ m = [selects |-> m.selects, ctes |-> m.ctes]
      /\ m.selects = [k \in Places(tree) |-> m.selects[k]]
      /\ GrownTree(tree, m)
      /\ \A k \in Places(tree) : HasParts(m.selects[k]) /\ (~NamesFlag(tree) => GuardsIn(m.selects[k]))
  BY WithGuardGrows
<1>2. n \in Nat /\ Places(tree) = 1..n /\ n \in Places(tree)
  BY DEF Statement, Places
<1>3. Len(m.selects) = n
  BY <1>1 DEF GrownTree
<1> HIDE DEF m
<1> DEFINE selects == [m.selects EXCEPT ![n] = Limited(m.selects[n])]
<1>4. more = [selects |-> selects, ctes |-> m.ctes]
  <2> DEFINE last == Len(m.selects)
  <2>1. more = [m EXCEPT !.selects = [m.selects EXCEPT ![last] = Limited(m.selects[last])]]
    BY DEF Rewritten, WithLimit, m
  <2>2. more = [m EXCEPT !.selects = selects]
    <3> HIDE DEF last
    <3> QED
      BY <1>3, <2>1 DEF last
  <2> HIDE DEF more, selects
  <2> QED
    BY <1>1, <2>2
<1>5. /\ selects = [k \in Places(tree) |-> selects[k]] /\ selects[n] = Limited(m.selects[n])
      /\ \A k \in Places(tree) : k # n => selects[k] = m.selects[k]
  BY <1>1, <1>2
<1> HIDE DEF more, selects
<1>6. Len(selects) = n
  <2> HIDE DEF n
  <2> QED
    BY <1>2, <1>5, LenIs
<1>7. \A k \in Places(tree) :
         /\ selects[k].items = m.selects[k].items /\ selects[k].from = m.selects[k].from
         /\ selects[k].joins = m.selects[k].joins /\ selects[k].where = m.selects[k].where
  BY <1>1, <1>5, LimitedHas
<1>8. more.selects = selects
  BY <1>4
<1>9. GrownTree(tree, more)
  BY <1>1, <1>6, <1>7, <1>8 DEF GrownTree, Grown
<1>10. ~NamesFlag(tree) => \A k \in Places(tree) : GuardsIn(more.selects[k])
  BY <1>1, <1>7, <1>8 DEF GuardsIn
<1>11. Body(more) = Limited(Body(m))
  BY <1>3, <1>5, <1>6, <1>8 DEF Body
<1> QED
  BY <1>9, <1>10, <1>11 DEF more, m

\* What the checks of tables, columns and times come to.
LEMMA AcceptedIsReadable ==
    ASSUME NEW tree, Statement(tree), Validated(Policy, tree), NEW k \in Places(tree)
    PROVE  Readable(tree, k, tree.selects[k]) /\ Bounded(tree.selects[k])
<1> DEFINE s == tree.selects[k]
<1>1. SelectAt(k, s) /\ s \in Selects(tree)
  BY DEF Statement, Selects
<1>2. Len(s.joins) \in Nat /\ DOMAIN s.joins = 1..Len(s.joins)
  BY <1>1, SelectHas
<1>3. \A x \in Sources(s) : IsTable(x) => x.table \in DOMAIN Columns
  BY <1>1 DEF Validated, Policy
<1>4. TimesBounded(TimeColumns, tree) /\ \A ref \in Refs(s) : ColumnAllowed(Policy, tree, s, ref)
  BY <1>1 DEF Validated, Policy
<1> HIDE DEF s
<1>5. ASSUME NEW p \in s.items, p.plain
      PROVE  \E ref \in p.refs : p.refs = {ref} /\ \E x \in Sources(s) : x.alias = ref[1] /\ ref[2] \in ColumnsOf(tree, x)
  <2>1. PICK ref \in Refs(s) : p.refs = {ref}
    BY <1>1, <1>5 DEF SelectAt
  <2> DEFINE x == SourceOf(s, ref[1])
  <2>2. x \in Sources(s) /\ x.alias = ref[1]
    BY <1>1, SourceIsThere
  <2>3. ColumnAllowed(Policy, tree, s, ref)
    BY <1>4
  <2>4. ref[2] \in ColumnsOf(tree, x)
    <3>1. IF IsTable(x) THEN ref[2] \in Columns[x.table] ELSE \E q \in tree.selects[x.select].items : q.as = ref[2]
      BY <2>3 DEF ColumnAllowed, Policy
    <3> HIDE DEF x
    <3> QED
      BY <3>1 DEF ColumnsOf
  <2> HIDE DEF x
  <2> QED
    BY <2>1, <2>2, <2>4
<1>6. Readable(tree, k, s)
  BY <1>1, <1>2, <1>3, <1>5 DEF SelectAt, Readable
<1>7. Bounded(s)
  BY <1>1, <1>4 DEF TimesBounded, Bounded
<1> QED
  BY <1>6, <1>7 DEF s

LEMMA GrownIsReadable ==
    ASSUME NEW tree, NEW more, GrownTree(tree, more), NEW k \in Places(tree), Len(tree.selects) \in Nat,
           Readable(tree, k, tree.selects[k]), Bounded(tree.selects[k])
    PROVE  Readable(more, k, more.selects[k]) /\ Bounded(more.selects[k])
<1> DEFINE s == tree.selects[k]
           r == more.selects[k]
<1>1. Readable(tree, k, s) /\ Bounded(s) /\ Grown(s, r)
  BY DEF GrownTree
<1>2. \A i \in Places(tree) : more.selects[i].items = tree.selects[i].items
  BY DEF GrownTree, Grown
<1> HIDE DEF s, r
<1>3. /\ DOMAIN s.joins = 1..Len(s.joins) /\ DOMAIN r.joins = 1..Len(s.joins) /\ Len(r.joins) = Len(s.joins)
      /\ r.from = s.from /\ r.items = s.items /\ s.where \subseteq r.where
      /\ \A i \in 1..Len(s.joins) : r.joins[i].source = s.joins[i].source /\ s.joins[i].on \subseteq r.joins[i].on
  BY <1>1 DEF Readable, Grown
<1>4. Sources(r) = Sources(s)
  <2>1. Sources(s) = {s.from} \cup {s.joins[i].source : i \in 1..Len(s.joins)}
    BY <1>3, SourcesAre
  <2>2. Sources(r) = {r.from} \cup {r.joins[i].source : i \in 1..Len(r.joins)}
    BY <1>3, SourcesAre
  <2> QED
    BY <1>3, <2>1, <2>2
<1>5. ASSUME NEW x \in Sources(s)
      PROVE  ColumnsOf(more, x) = ColumnsOf(tree, x)
  <2>1. CASE IsTable(x)
    BY <2>1 DEF ColumnsOf
  <2>2. CASE ~IsTable(x)
    <3>1. x.select \in 0..k - 1
      BY <1>1 DEF Readable
    <3>2. x.select \in Places(tree)
      BY <2>2, <3>1 DEF IsTable, Places
    <3>3. more.selects[x.select].items = tree.selects[x.select].items
      BY <1>2, <3>2
    <3> QED
      BY <2>2, <3>3 DEF ColumnsOf
  <2> QED
    BY <2>1, <2>2
<1>6. Readable(more, k, r)
  <2>1. /\ Len(s.joins) \in Nat
        /\ \A i \in 1..Len(s.joins) :
            /\ s.joins[i].source.alias # s.from.alias
            /\ \A l \in 1..i - 1 : s.joins[l].source.alias # s.joins[i].source.alias
        /\ \A x \in Sources(s) : x.select \in 0..k - 1 /\ (IsTable(x) => x.table \in DOMAIN Columns)
        /\ \A p \in s.items : p.plain =>
            \E ref \in p.refs : p.refs = {ref} /\ \E x \in Sources(s) : x.alias = ref[1] /\ ref[2] \in ColumnsOf(tree, x)
    BY <1>1 DEF Readable
  <2>2. \A i \in 1..Len(s.joins) : \A l \in 1..i - 1 : l \in 1..Len(s.joins)
    BY <2>1
  <2>3. \A i \in 1..Len(s.joins) :
            /\ r.joins[i].source.alias # r.from.alias
            /\ \A l \in 1..i - 1 : r.joins[l].source.alias # r.joins[i].source.alias
    BY <1>3, <2>1, <2>2
  <2>4. \A p \in s.items : p.plain =>
            \E ref \in p.refs : p.refs = {ref} /\ \E x \in Sources(s) : x.alias = ref[1] /\ ref[2] \in ColumnsOf(more, x)
    BY <1>5, <2>1
  <2> QED
    BY <1>3, <1>4, <2>1, <2>3, <2>4 DEF Readable
<1>7. Ons(s) \subseteq Ons(r)
  <2> SUFFICES ASSUME NEW t \in Ons(s)
               PROVE  t \in Ons(r)
    OBVIOUS
  <2>1. PICK i \in 1..Len(s.joins) : t \in s.joins[i].on
    BY <1>3 DEF Ons, ToSet
  <2>2. t \in r.joins[i].on /\ i \in DOMAIN r.joins
    BY <1>3, <2>1
  <2> QED
    BY <2>2 DEF Ons, ToSet
<1>8. Bounded(r)
  BY <1>1, <1>3, <1>4, <1>7 DEF Bounded
<1> QED
  BY <1>6, <1>8 DEF r

LEMMA SidesKept ==
    ASSUME NEW tree, Statement(tree), NEW more, GrownTree(tree, more), NEW sides, JoinSides(tree) \subseteq sides,
           NEW k \in Places(tree)
    PROVE  SidesIn(more.selects[k], sides)
<1> DEFINE s == tree.selects[k]
<1>1. SelectAt(k, s) /\ s \in Selects(tree)
  BY DEF Statement, Selects
<1>2. DOMAIN s.joins = 1..Len(s.joins)
  BY <1>1, SelectHas
<1>3. \A i \in 1..Len(s.joins) : s.joins[i].side \in sides
  BY <1>1, <1>2 DEF JoinSides, ToSet
<1>4. Grown(s, more.selects[k])
  BY DEF GrownTree
<1> HIDE DEF s
<1> QED
  BY <1>3, <1>4 DEF SidesIn, Grown

\* Both, of what the validator makes of a statement it accepts.
LEMMA OnlyGuardedRows ==
    ASSUME NEW tree, Statement(tree)
    PROVE  GuardedRowsOnly(tree)
<1> SUFFICES ASSUME Validated(Policy, tree)
             PROVE  /\ JoinSides(tree) \subseteq {"inner", "left"} => FlaggedOut(tree)
                    /\ JoinSides(tree) \subseteq {"inner"} =>
                        \A r \in Contributing(Rewritten(tree)) : (\E p \in TimeColumns : p[1] = r.table) => ~r.old
  BY DEF GuardedRowsOnly
<1> DEFINE more == Rewritten(tree)
<1>1. Len(tree.selects) \in Nat
  BY DEF Statement
<1>2. GrownTree(tree, more) /\ (~NamesFlag(tree) => \A k \in Places(tree) : GuardsIn(more.selects[k]))
  BY RewrittenGrows
<1>3. Places(more) = Places(tree) /\ Len(more.selects) \in Nat
  BY <1>1, <1>2 DEF GrownTree, Places
<1> HIDE DEF more
<1>4. \A k \in Places(more) : Readable(more, k, more.selects[k]) /\ Bounded(more.selects[k])
  BY <1>1, <1>2, <1>3, AcceptedIsReadable, GrownIsReadable
<1>5. ASSUME JoinSides(tree) \subseteq {"inner", "left"}, ~NamesFlag(tree), NEW r \in Contributing(more), r.table = Guarded
      PROVE  ~r.flagged
  <2>1. \A k \in Places(more) : SidesIn(more.selects[k], {"inner", "left"})
    BY <1>2, <1>3, <1>5, SidesKept
  <2>2. Keeps(more, Unflaggeds)
    BY <1>2, <1>3, <1>4, <1>5, <2>1, FlaggedKeptOut
  <2>3. r \in Unflaggeds
    BY <1>3, <1>4, <1>5, <2>2, NoRowIsKept, KeptThroughout
  <2> QED
    BY <1>5, <2>3 DEF Unflaggeds
<1>6. ASSUME JoinSides(tree) \subseteq {"inner"}, NEW r \in Contributing(more), \E p \in TimeColumns : p[1] = r.table
      PROVE  ~r.old
  <2>1. \A k \in Places(more) : SidesIn(more.selects[k], {"inner"})
    BY <1>2, <1>3, <1>6, SidesKept
  <2>2. Keeps(more, Recents)
    BY <1>4, <2>1, OldKeptOut
  <2>3. r \in Recents
    BY <1>3, <1>4, <1>6, <2>2, NoRowIsKept, KeptThroughout
  <2> QED
    BY <1>6, <2>3 DEF Recents
<1> QED
  BY <1>5, <1>6 DEF FlaggedOut, more

-----------------------------------------------------------------------------
(* The tool *)

LEMMA LessOf ==
    ASSUME NEW a \in Int, NEW b \in Int
    PROVE  Min({a, b}) \in {a, b} /\ Min({a, b}) <= a /\ Min({a, b}) <= b
<1>1. \E x \in {a, b} : \A y \in {a, b} : x <= y
  OBVIOUS
<1>2. Min({a, b}) = CHOOSE x \in {a, b} : \A y \in {a, b} : x <= y
  BY DEF Min
<1> QED
  BY <1>1, <1>2

\* The guard leaves the limit of a statement as it is.
LEMMA BodyLimit ==
    ASSUME NEW tree, Statement(tree)
    PROVE  HasParts(Body(WithGuard(tree))) /\ Body(WithGuard(tree)).limit = Body(tree).limit
<1> DEFINE n == Len(tree.selects)
           m == WithGuard(tree)
           s == tree.selects[n]
<1>1. n \in Places(tree)
  BY DEF Statement, Places
<1>2. tree = [selects |-> tree.selects, ctes |-> tree.ctes] /\ SelectAt(n, s)
  BY <1>1 DEF Statement
<1>3. HasParts(s)
  BY <1>2, SelectHas
<1>4. Len(m.selects) = n /\ HasParts(m.selects[n])
  BY <1>1, WithGuardGrows DEF GrownTree
<1>5. m.selects[n].limit = s.limit
  <2>1. CASE NamesFlag(tree)
    BY <2>1 DEF WithGuard
  <2>2. CASE ~NamesFlag(tree)
    <3> DEFINE selects == [k \in Places(tree) |-> GuardSelect(tree.selects[k])]
    <3>1. m.selects = selects
      BY <1>2, <2>2 DEF WithGuard
    <3>2. m.selects[n] = GuardSelect(s)
      BY <1>1, <3>1
    <3> HIDE DEF m, s
    <3>3. GuardSelect(s).limit = s.limit
      BY <1>3 DEF HasParts, GuardSelect
    <3> QED
      BY <3>2, <3>3
  <2> QED
    BY <2>1, <2>2
<1> QED
  BY <1>4, <1>5 DEF Body

\* Each way RunQuery ends.
LEMMA BoundedTool ==
    ASSUME NEW tree, Statement(tree), NEW db, db.size \in Nat
    PROVE  ToolIsBounded(tree, db)
<1> DEFINE answer == RunQuery(tree, db)
           given == Body(tree).limit
           limit == Body(Rewritten(tree)).limit
           n == IF limit = NoLimit THEN db.size ELSE Min({limit, db.size})
           rows == Fetched(n)
<1>1. MaxLimit \in Nat /\ DefaultLimit \in 1..MaxLimit
  BY ValidatorAssumption
<1>2. given \in Nat \cup {NoLimit, NotPlain}
  <2>1. Len(tree.selects) \in Places(tree)
    BY DEF Statement, Places
  <2>2. SelectAt(Len(tree.selects), Body(tree))
    BY <2>1 DEF Statement, Body
  <2> QED
    BY <2>2 DEF SelectAt
<1>3. limit = IF given > MaxLimit THEN MaxLimit
              ELSE IF given = NoLimit /\ ~Body(WithGuard(tree)).aggregate THEN DefaultLimit ELSE given
  <2> DEFINE s == Body(WithGuard(tree))
  <2>1. HasParts(s) /\ s.limit = given
    BY BodyLimit
  <2>2. limit = Limited(s).limit
    BY RewrittenGrows
  <2> HIDE DEF s, given, limit
  <2> QED
    BY <2>1, <2>2 DEF HasParts, Limited, s
<1> HIDE DEF answer, given, limit
<1>4. ASSUME Validated(Policy, tree)
      PROVE  rows \in 0..MaxLimit /\ (rows = 0 => db.size = 0 \/ given = 0)
  <2>1. given \in Nat \cup {NoLimit}
    BY <1>2, <1>4 DEF Validated, given
  <2>2. limit \in Nat \cup {NoLimit} /\ (limit = 0 => given = 0)
    BY <1>1, <1>3, <2>1 DEF NoLimit
  <2>3. n \in Nat /\ (n = 0 => db.size = 0 \/ given = 0)
    <3>1. CASE limit = NoLimit
      BY <3>1
    <3>2. CASE limit # NoLimit
      <4>1. limit \in Nat
        BY <2>2, <3>2
      <4>2. limit \in Int /\ db.size \in Int
        BY <4>1
      <4>3. Min({limit, db.size}) \in {limit, db.size}
        BY ONLY <4>2, LessOf
      <4> QED
        BY <2>2, <3>2, <4>1, <4>3
    <3> QED
      BY <3>1, <3>2
  <2> HIDE DEF n
  <2>4. Min({n, MaxLimit}) \in {n, MaxLimit} /\ Min({n, MaxLimit}) <= MaxLimit
    <3>1. n \in Int /\ MaxLimit \in Int
      BY <1>1, <2>3
    <3> QED
      BY ONLY <3>1, LessOf
  <2> QED
    BY <1>1, <2>3, <2>4 DEF Fetched
<1> HIDE DEF rows
<1>5. answer = IF ~Validated(Policy, tree) THEN Answer("rejected", 0, FALSE)
               ELSE IF ~Gate(db) THEN Answer("rejected", 0, FALSE)
               ELSE IF db.runs # "ok" THEN Answer("failed", 0, TRUE)
               ELSE Answer(IF rows = 0 THEN "empty" ELSE "ok", rows, TRUE)
  BY DEF answer, RunQuery, rows, limit
<1>6. CASE ~Validated(Policy, tree) \/ ~Gate(db)
  <2>1. answer.rows = 0 /\ answer.ran = FALSE /\ answer.status = "rejected"
    BY <1>5, <1>6 DEF Answer
  <2> QED
    BY <1>1, <2>1 DEF ToolIsBounded, answer
<1>7. CASE Validated(Policy, tree) /\ Gate(db) /\ db.runs # "ok"
  <2>1. answer.rows = 0 /\ answer.status = "failed"
    BY <1>5, <1>7 DEF Answer
  <2>2. db.cost <= CostBudget
    BY <1>7 DEF Gate
  <2> QED
    BY <1>1, <1>7, <2>1, <2>2 DEF ToolIsBounded, answer
<1>8. CASE Validated(Policy, tree) /\ Gate(db) /\ db.runs = "ok"
  <2>1. answer.rows = rows /\ answer.status = IF rows = 0 THEN "empty" ELSE "ok"
    BY <1>5, <1>8 DEF Answer
  <2>2. db.cost <= CostBudget
    BY <1>8 DEF Gate
  <2>3. answer.rows <= MaxLimit /\ (answer.status = "empty" => db.size = 0 \/ given = 0)
    BY <1>1, <1>4, <1>8, <2>1
  <2> QED
    BY <1>8, <2>2, <2>3 DEF ToolIsBounded, answer, given
<1> QED
  BY <1>6, <1>7, <1>8

-----------------------------------------------------------------------------
(* The schema *)

\* What a second merge leaves: the tables and columns of the second, and of
\* each the meaning it had in what was merged before.
LEMMA MergedIs ==
    ASSUME NEW generated, NEW curated, NEW schema, schema = Merge(generated, curated)
    PROVE  /\ schema.denied = curated.denied /\ schema.keys = curated.keys
           /\ schema.tables = [t \in DOMAIN generated.tables |-> schema.tables[t]]
           /\ \A t \in DOMAIN generated.tables :
                /\ schema.tables[t] = [c \in DOMAIN generated.tables[t] |->
                        t \in DOMAIN curated.tables /\ c \in DOMAIN curated.tables[t] /\ curated.tables[t][c]]
                /\ DOMAIN schema.tables[t] = DOMAIN generated.tables[t]
           /\ schema = [tables |-> schema.tables, denied |-> schema.denied, keys |-> schema.keys]
BY DEF Merge

\* Reading the structure again changes nothing.
LEMMA MergedAgain ==
    ASSUME NEW generated, NEW curated, NEW schema, schema = Merge(generated, curated)
    PROVE  Merge(generated, schema) = schema
<1> DEFINE again == Merge(generated, schema)
           D == DOMAIN generated.tables
           C(t) == DOMAIN generated.tables[t]
           Meant(t, c) == t \in DOMAIN curated.tables /\ c \in DOMAIN curated.tables[t] /\ curated.tables[t][c]
           Still(t, c) == t \in DOMAIN schema.tables /\ c \in DOMAIN schema.tables[t] /\ schema.tables[t][c]
<1>1. /\ schema.tables = [t \in D |-> schema.tables[t]]
      /\ \A t \in D : schema.tables[t] = [c \in C(t) |-> Meant(t, c)]
      /\ schema = [tables |-> schema.tables, denied |-> schema.denied, keys |-> schema.keys]
  BY MergedIs
<1>2. /\ again.denied = schema.denied /\ again.keys = schema.keys
      /\ again.tables = [t \in D |-> again.tables[t]]
      /\ \A t \in D : again.tables[t] = [c \in C(t) |-> Still(t, c)]
      /\ again = [tables |-> again.tables, denied |-> again.denied, keys |-> again.keys]
  BY MergedIs
<1> HIDE DEF again, Meant
<1>3. ASSUME NEW t \in D
      PROVE  again.tables[t] = schema.tables[t]
  <2>1. t \in DOMAIN schema.tables /\ DOMAIN schema.tables[t] = C(t)
    BY <1>1
  <2>2. ASSUME NEW c \in C(t)
        PROVE  schema.tables[t][c] = Meant(t, c)
    BY <1>1
  <2>3. ASSUME NEW c \in C(t)
        PROVE  Still(t, c) <=> Meant(t, c)
    <3>1. schema.tables[t][c] <=> Meant(t, c)
      BY <2>2
    <3> QED
      BY <2>1, <3>1
  <2>4. ASSUME NEW c \in C(t)
        PROVE  Still(t, c) = Meant(t, c)
    <3>1. Still(t, c) \in BOOLEAN /\ Meant(t, c) \in BOOLEAN
      BY DEF Meant
    <3> HIDE DEF Still
    <3> QED
      BY <2>3, <3>1
  <2> HIDE DEF Still, C, D
  <2>5. [c \in C(t) |-> Still(t, c)] = [c \in C(t) |-> Meant(t, c)]
    BY <2>4
  <2>6. again.tables[t] = [c \in C(t) |-> Still(t, c)]
    BY <1>2 DEF C, D, Still
  <2>7. schema.tables[t] = [c \in C(t) |-> Meant(t, c)]
    BY <1>1 DEF C, D
  <2> QED
    BY <2>5, <2>6, <2>7
<1> HIDE DEF D
<1>4. again.tables = schema.tables
  BY <1>1, <1>2, <1>3
<1> QED
  BY <1>1, <1>2, <1>4 DEF again

\* One select without joins or nesting is checked column by column.
LEMMA PlainIsValidated ==
    ASSUME NEW policy, NEW s, s.joins = <<>>, IsTable(s.from), s.from.table \in DOMAIN policy.columns,
           \A ref \in Refs(s) : ref[1] = s.from.alias /\ <<s.from.table, ref[2]>> \notin policy.denied
                                /\ ref[2] \in policy.columns[s.from.table],
           (\E p \in policy.times : p[1] = s.from.table) => \E t \in s.where : IsLowerBound(policy.times, t, s.from),
           s.limit # NotPlain
    PROVE  Validated(policy, [ctes |-> {}, selects |-> <<s>>])
<1> DEFINE tree == [ctes |-> {}, selects |-> <<s>>]
<1>1. tree.ctes = {} /\ tree.selects = <<s>>
  OBVIOUS
<1> HIDE DEF tree
<1>2. Len(tree.selects) = 1 /\ tree.selects[1] = s
  BY <1>1
<1>3. Places(tree) = {1} /\ Selects(tree) = {s} /\ Body(tree) = s
  BY <1>2 DEF Places, Selects, Body
<1>4. ToSet(s.joins) = {} /\ Len(s.joins) = 0
  BY DEF ToSet
<1>5. Sources(s) = {s.from} /\ Ons(s) = {}
  BY <1>4 DEF Sources, Ons
<1>6. \A ref \in Refs(s) : ColumnAllowed(policy, tree, s, ref)
  <2> TAKE ref \in Refs(s)
  <2>1. SourceOf(s, ref[1]) = s.from
    BY <1>5 DEF SourceOf
  <2> QED
    BY <2>1 DEF ColumnAllowed
<1>7. JoinsAllowed(tree)
  <2>1. \A k \in Places(tree) : {k} \X (1..Len(tree.selects[k].joins)) = {}
    BY <1>2, <1>3, <1>4
  <2>2. UNION {{k} \X (1..Len(tree.selects[k].joins)) : k \in Places(tree)} = {}
    BY <2>1
  <2>3. Cardinality({}) = 0 /\ MaxJoins \in Nat
    BY FS_EmptySet, ValidatorAssumption
  <2>4. Cardinality(UNION {{k} \X (1..Len(tree.selects[k].joins)) : k \in Places(tree)}) <= MaxJoins
    <3> DEFINE joins == UNION {{k} \X (1..Len(tree.selects[k].joins)) : k \in Places(tree)}
    <3>1. joins = {}
      BY <2>2
    <3>2. Cardinality({}) <= MaxJoins
      BY ONLY <2>3
    <3> HIDE DEF joins
    <3>3. Cardinality(joins) <= MaxJoins
      BY ONLY <3>1, <3>2
    <3> QED
      BY <3>3 DEF joins
  <2>5. \A r \in Selects(tree) : \A j \in ToSet(r.joins) : OnDeclaredKey(Exported(tree), r, j.on)
    BY <1>3, <1>4
  <2> QED
    BY <2>4, <2>5 DEF JoinsAllowed
<1>8. Depth(tree) <= MaxDepth
  <2> DEFINE g == HeightsUpTo(tree)
  <2>1. Max({0}) = 0
    BY DEF Max
  <2>2. Height(tree, <<>>, s) = 0
    <3>1. {x \in Sources(s) : IsDerived(tree, x)} = {}
      BY <1>1, <1>5 DEF IsDerived, IsTable
    <3>2. Height(tree, <<>>, s) = Max({0} \cup {2 + <<>>[x.select] : x \in {y \in Sources(s) : IsDerived(tree, y)}})
      BY DEF Height
    <3>3. {0} \cup {2 + <<>>[x.select] : x \in {y \in Sources(s) : IsDerived(tree, y)}} = {0}
      BY <3>1
    <3> QED
      BY <2>1, <3>2, <3>3
  <2>3. g[0] = <<>> /\ \A k \in 1..1 : g[k] = Append(g[k - 1], Height(tree, g[k - 1], tree.selects[k]))
    <3>1. Len(tree.selects) \in Nat
      BY <1>2
    <3>2. /\ g[0] = <<>>
          /\ \A k \in 1..Len(tree.selects) : g[k] = Append(g[k - 1], Height(tree, g[k - 1], tree.selects[k]))
      BY <3>1, HeightsInTurn
    <3> HIDE DEF g
    <3> QED
      BY <1>2, <3>2
  <2> HIDE DEF g
  <2>4. g[1] = Append(<<>>, 0)
    <3>1. 1 \in 1..1 /\ 1 - 1 = 0
      OBVIOUS
    <3>2. g[1] = Append(g[0], Height(tree, g[0], tree.selects[1]))
      BY <2>3, <3>1
    <3> QED
      BY <1>2, <2>2, <2>3, <3>2
  <2>5. g[1][1] = 0
    BY <2>4
  <2>6. Depth(tree) = Max({g[1][1]} \cup {1 + g[1][k] : k \in {}})
    BY <1>1, <1>2 DEF Depth, g
  <2>7. Depth(tree) = 0
    BY <2>1, <2>5, <2>6
  <2> QED
    BY <2>7, ValidatorAssumption
<1>9. TimesBounded(policy.times, tree)
  BY <1>3, <1>5 DEF TimesBounded
<1> QED
  BY <1>3, <1>5, <1>6, <1>7, <1>8, <1>9 DEF Validated, tree

\* A column that is offered can be read, with the bound its table needs.
LEMMA OfferedPlans ==
    ASSUME NEW schema, schema.denied \cap TimeColumns = {}, NEW p \in Offered(schema)
    PROVE  Validated(PolicyOf(schema), ReadOf(p[1], p[2], TimesIn(schema)))
<1> DEFINE t == p[1]
           c == p[2]
           times == TimesIn(schema)
           policy == PolicyOf(schema)
           where == {[op |-> "since", left |-> <<t, q[2]>>, right |-> NoRef] : q \in {r \in times : r[1] = t}}
           s == [items |-> {[as |-> c, refs |-> {<<t, c>>}, plain |-> TRUE]},
                 from |-> [alias |-> t, table |-> t, select |-> 0], joins |-> <<>>,
                 where |-> where, limit |-> NoLimit, aggregate |-> FALSE]
<1>1. t \in DOMAIN schema.tables /\ c \in DOMAIN schema.tables[t] /\ <<t, c>> \notin schema.denied
  BY DEF Offered
<1>2. /\ policy.columns = [u \in DOMAIN schema.tables |-> DOMAIN schema.tables[u]]
      /\ policy.denied = schema.denied /\ policy.times = times
  BY DEF PolicyOf, ColumnsIn
<1>3. \A q \in times : q \in TimeColumns /\ q = <<q[1], q[2]>> /\ q[1] \in DOMAIN schema.tables /\ q[2] \in DOMAIN schema.tables[q[1]]
  BY ValidatorAssumption DEF TimesIn
<1>4. ReadOf(p[1], p[2], times) = [ctes |-> {}, selects |-> <<s>>]
  BY DEF ReadOf
<1> HIDE DEF times, policy
<1>5. /\ s.joins = <<>> /\ s.from.select = 0 /\ s.from.alias = t /\ s.from.table = t /\ s.where = where
      /\ s.limit = NoLimit /\ \A i \in s.items : i.refs = {<<t, c>>}
  OBVIOUS
<1> HIDE DEF s, t, c
<1>6. Ons(s) = {}
  BY <1>5 DEF Ons, ToSet
<1>7. \A u \in where : \E q \in times : q[1] = t /\ u.left = <<t, q[2]>> /\ u.right = NoRef
  OBVIOUS
<1>8. \A ref \in Refs(s) : ref = <<t, c>> \/ \E q \in times : q[1] = t /\ ref = <<t, q[2]>>
  <2> TAKE ref \in Refs(s)
  <2>1. ref \in UNION {i.refs : i \in s.items} \/ ref \in TermsRefs(where)
    BY <1>5, <1>6 DEF Refs
  <2>2. CASE ref \in UNION {i.refs : i \in s.items}
    BY <1>5, <2>2
  <2>3. CASE ref \in TermsRefs(where)
    <3>1. PICK u \in where : ref \in {u.left, u.right} /\ ref # NoRef
      BY <2>3 DEF TermsRefs
    <3> HIDE DEF where
    <3> QED
      BY <1>7, <3>1
  <2> QED
    BY <2>1, <2>2, <2>3
<1>9. \A ref \in Refs(s) : ref[1] = t /\ <<t, ref[2]>> \notin policy.denied /\ ref[2] \in policy.columns[t]
  <2> TAKE ref \in Refs(s)
  <2>1. CASE ref = <<t, c>>
    BY <1>1, <1>2, <2>1
  <2>2. CASE \E q \in times : q[1] = t /\ ref = <<t, q[2]>>
    <3>1. PICK q \in times : q[1] = t /\ ref = <<t, q[2]>>
      BY <2>2
    <3>2. q = <<t, q[2]>> /\ q \in TimeColumns /\ q[2] \in DOMAIN schema.tables[t]
      BY <1>3, <3>1
    <3>3. <<t, q[2]>> \notin schema.denied
      BY <3>2
    <3> QED
      BY <1>1, <1>2, <3>1, <3>2, <3>3
  <2> QED
    BY <1>8, <2>1, <2>2
<1>10. ASSUME NEW q \in times, q[1] = t
       PROVE  \E u \in s.where : IsLowerBound(times, u, s.from)
  <2> DEFINE u == [op |-> "since", left |-> <<t, q[2]>>, right |-> NoRef]
  <2>1. u \in where
    BY <1>10
  <2>2. u.op = "since" /\ u.left = <<t, q[2]>>
    OBVIOUS
  <2>3. q = <<t, q[2]>>
    BY <1>3, <1>10
  <2> HIDE DEF u, where
  <2>4. IsLowerBound(times, u, s.from)
    BY <1>5, <2>2, <2>3 DEF IsLowerBound
  <2> QED
    BY <1>5, <2>1, <2>4
<1>11. IsTable(s.from) /\ s.from.table \in DOMAIN policy.columns /\ s.limit # NotPlain
  BY <1>1, <1>2, <1>5 DEF IsTable, NoLimit, NotPlain
<1> HIDE DEF where
<1>12. Validated(policy, [ctes |-> {}, selects |-> <<s>>])
  <2>1. \A ref \in Refs(s) : ref[1] = s.from.alias /\ <<s.from.table, ref[2]>> \notin policy.denied
                             /\ ref[2] \in policy.columns[s.from.table]
    BY <1>5, <1>9
  <2>2. (\E q \in policy.times : q[1] = s.from.table) => \E u \in s.where : IsLowerBound(policy.times, u, s.from)
    BY <1>2, <1>5, <1>10
  <2> QED
    BY <1>5, <1>11, <2>1, <2>2, PlainIsValidated
<1> QED
  BY <1>4, <1>12 DEF policy, times

\* Two structures, one after the other, and what a person said of the first.
LEMMA SchemaIsOffered ==
    ASSUME NEW first, NEW second, NEW curated, curated.denied \cap TimeColumns = {}
    PROVE  OfferedIsAccepted(first, second, curated)
<1> DEFINE once == Merge(first, curated)
           schema == Merge(second, once)
<1>1. /\ once.denied = curated.denied
      /\ once.tables = [t \in DOMAIN first.tables |-> once.tables[t]]
      /\ \A t \in DOMAIN first.tables : DOMAIN once.tables[t] = DOMAIN first.tables[t]
  <2>1. once = Merge(first, curated)
    OBVIOUS
  <2> HIDE DEF once, schema
  <2>2. /\ once.denied = curated.denied /\ once.keys = curated.keys
        /\ once.tables = [t \in DOMAIN first.tables |-> once.tables[t]]
        /\ \A t \in DOMAIN first.tables :
            /\ once.tables[t] = [c \in DOMAIN first.tables[t] |->
                    t \in DOMAIN curated.tables /\ c \in DOMAIN curated.tables[t] /\ curated.tables[t][c]]
            /\ DOMAIN once.tables[t] = DOMAIN first.tables[t]
        /\ once = [tables |-> once.tables, denied |-> once.denied, keys |-> once.keys]
    BY <2>1, MergedIs
  <2> QED
    BY <2>2
<1> HIDE DEF once
<1>2. /\ schema.denied = once.denied
      /\ schema.tables = [t \in DOMAIN second.tables |-> schema.tables[t]]
      /\ \A t \in DOMAIN second.tables :
            /\ schema.tables[t] = [c \in DOMAIN second.tables[t] |->
                    t \in DOMAIN once.tables /\ c \in DOMAIN once.tables[t] /\ once.tables[t][c]]
            /\ DOMAIN schema.tables[t] = DOMAIN second.tables[t]
  <2>1. schema = Merge(second, once)
    OBVIOUS
  <2> HIDE DEF schema
  <2> QED
    BY <2>1, MergedIs
<1>3. Merge(second, schema) = schema
  BY MergedAgain
<1> HIDE DEF schema
<1>4. DOMAIN once.tables = DOMAIN first.tables /\ DOMAIN schema.tables = DOMAIN second.tables
  BY <1>1, <1>2
<1>5. Offered(schema) \cap curated.denied = {}
  BY <1>1, <1>2 DEF Offered
<1>6. \A p \in Offered(schema) : Validated(PolicyOf(schema), ReadOf(p[1], p[2], TimesIn(schema)))
  <2>1. schema.denied \cap TimeColumns = {}
    BY <1>1, <1>2
  <2> QED
    BY <2>1, OfferedPlans
<1>7. ASSUME NEW t \in DOMAIN second.tables \ Hidden, NEW c \in DOMAIN second.tables[t]
      PROVE  <<t, c>> \in Offered(schema) \cup curated.denied
  <2>1. t \in DOMAIN schema.tables \ Hidden /\ c \in DOMAIN schema.tables[t]
    BY <1>2, <1>4
  <2>2. <<t, c>> \in UNION {{u} \X DOMAIN schema.tables[u] : u \in DOMAIN schema.tables \ Hidden}
    BY <2>1
  <2> QED
    BY <1>1, <1>2, <2>2 DEF Offered
<1>8. ASSUME NEW t \in DOMAIN second.tables, NEW c \in DOMAIN second.tables[t],
             t \notin DOMAIN first.tables \/ c \notin DOMAIN first.tables[t]
      PROVE  <<t, c>> \in Undocumented(schema)
  <2>1. t \in DOMAIN schema.tables /\ c \in DOMAIN schema.tables[t]
    BY <1>2, <1>4
  <2>2. ~schema.tables[t][c]
    <3>1. t \notin DOMAIN once.tables \/ c \notin DOMAIN once.tables[t]
      BY <1>1, <1>4, <1>8
    <3>2. schema.tables[t][c] = (t \in DOMAIN once.tables /\ c \in DOMAIN once.tables[t] /\ once.tables[t][c])
      BY <1>2
    <3> QED
      BY <3>1, <3>2
  <2>3. <<t, c>> \in UNION {{u} \X DOMAIN schema.tables[u] : u \in DOMAIN schema.tables}
    BY <2>1
  <2> QED
    BY <2>2, <2>3 DEF Undocumented
<1> QED
  BY <1>3, <1>5, <1>6, <1>7, <1>8 DEF OfferedIsAccepted, schema, once

\* StatementsAreSafe, of every statement, schema and lookup there is: nothing
\* the validator accepts reads a denied column, a faulty reading nobody asked
\* for, or a large table without its bound; what a plan is offered, the
\* validator lets it read; and the tool returns no more than its limit.
THEOREM StatementsAreChecked == StatementsWellFormed => StatementsAreSafe
<1> SUFFICES ASSUME StatementsWellFormed
             PROVE  StatementsAreSafe
  OBVIOUS
<1>1. ASSUME IsInput("sql")
      PROVE  DeniedNeverRead(input.tree) /\ GuardedRowsOnly(input.tree)
  <2>1. Statement(input.tree)
    BY <1>1 DEF StatementsWellFormed
  <2> QED
    BY <2>1, DeniedIsNotRead, OnlyGuardedRows
<1>2. ASSUME IsInput("schema")
      PROVE  OfferedIsAccepted(input.first, input.second, input.curated)
  <2>1. input.curated.denied \cap TimeColumns = {}
    BY <1>2 DEF StatementsWellFormed
  <2> QED
    BY <2>1, SchemaIsOffered
<1>3. ASSUME IsInput("lookup")
      PROVE  ToolIsBounded(input.tree, input.db)
  <2>1. Statement(input.tree) /\ input.db.size \in Nat
    BY <1>3 DEF StatementsWellFormed
  <2> QED
    BY <2>1, BoundedTool
<1> QED
  BY <1>1, <1>2, <1>3 DEF StatementsAreSafe
=============================================================================
