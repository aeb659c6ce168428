-------------------------- MODULE ConversationProofs --------------------------
(***************************************************************************)
(* Theorems about Conversation, for sessions of any length.                *)
(***************************************************************************)
EXTENDS Conversation, FiniteSetTheorems, TLAPS

-----------------------------------------------------------------------------
(* The inductive invariants *)

\* A row is of a turn whose worker is past its record.
RowsAreOfTurns == \A i \in 1..Len(rows) : work[rows[i]] \notin {"none", "started"}

\* A draft is not begun when all rewrites are used up.
DraftsLeft ==
    \A t \in Turns :
        /\ work[t] \in {"none", "started", "recorded"} => draft[t] = 0
        /\ work[t] = "writing" => draft[t] < Drafts
        /\ work[t] = "written" => draft[t] <= Drafts

TypeInv == TypeOK /\ RowsAreOfTurns /\ DraftsLeft

\* What a client shows is of the draft being written, or of the one before
\* where the answer is listed from evidence.
Shown(t) ==
    /\ draft[t] = 0 => stream[t].shown = {}
    /\ \E d \in 1..Evidence : stream[t].shown \subseteq {d}

ShownInv == \A t \in Turns : Shown(t)

\* A question is asked only when the ones before show progress.
AskedInOrder ==
    \A t, u \in Turns : u < t /\ work[t] # "none" => work[u] \notin {"none", "started", "recorded"}

-----------------------------------------------------------------------------
(* Types *)

\* What one client has been sent.
Sent == [shown : SUBSET (1..Evidence), last : {"none", "done", "error"}, closed : BOOLEAN]

LEMMA SentTypes ==
    ASSUME NEW s \in Sent, NEW d \in 1..Evidence
    PROVE  /\ Reset(s) \in Sent /\ Reset(s).shown = {}
           /\ Token(s, d) \in Sent /\ Token(s, d).shown = s.shown \cup {d}
           /\ Token(Reset(s), d) \in Sent /\ Token(Reset(s), d).shown = {d}
<1>1. \A r \in Sent : Token(r, d) \in Sent /\ Token(r, d).shown = r.shown \cup {d}
  BY DEF Sent, Token
<1>2. Reset(s) \in Sent /\ Reset(s).shown = {}
  BY DEF Sent, Reset
<1> QED
  BY <1>1, <1>2

LEMMA TypeInit == Init => TypeInv
  BY ConversationAssumption
  DEF Init, TypeInv, TypeOK, RowsAreOfTurns, DraftsLeft, Turns, Pcs, Evidence, IsInjective

\* Of the session's rows, the latest one that is not the turn's own.
LEMMA PreviousIsRecorded ==
    ASSUME TypeOK, NEW t \in Turns, NEW p \in Previous(t)
    PROVE  p \in Turns /\ p # t /\ \E i \in 1..Len(rows) : rows[i] = p
  BY DEF TypeOK, Previous

\* One turn's worker moves on without touching the rows.
LEMMA WorkerMoves ==
    ASSUME TypeInv, NEW t \in Turns, NEW pc \in Pcs,
           pc \notin {"none", "started", "recorded"},
           work' = [work EXCEPT ![t] = pc], rows' = rows,
           draft' \in [Turns -> 0..Evidence],
           \A u \in Turns \ {t} : draft'[u] = draft[u],
           pc = "writing" => draft'[t] < Drafts,
           pc = "written" => draft'[t] <= Drafts
    PROVE  /\ work' \in [Turns -> Pcs]
           /\ RowsAreOfTurns' /\ DraftsLeft'
<1>1. work' \in [Turns -> Pcs] /\ \A u \in Turns : work'[u] = IF u = t THEN pc ELSE work[u]
  BY DEF TypeInv, TypeOK
<1>2. RowsAreOfTurns'
  BY <1>1 DEF RowsAreOfTurns, TypeInv, TypeOK
<1>3. DraftsLeft'
  BY <1>1 DEF DraftsLeft, TypeInv
<1> QED
  BY <1>1, <1>2, <1>3

LEMMA TypeStep == TypeInv /\ [Next]_vars => TypeInv'
<1> SUFFICES ASSUME TypeInv, [Next]_vars PROVE TypeInv'
  OBVIOUS
<1> USE ConversationAssumption
<1>1. CASE UNCHANGED vars
  BY <1>1 DEF vars, TypeInv, TypeOK, RowsAreOfTurns, DraftsLeft
<1> SUFFICES ASSUME NEW t \in Turns, Ask(t) \/ TurnStep(t) \/ Judged(t)
             PROVE  TypeInv'
  BY <1>1 DEF Next
<1>2. /\ work \in [Turns -> Pcs] /\ draft \in [Turns -> 0..Evidence] /\ Drafts \in Nat
      /\ partial \in [Turns -> BOOLEAN]
      /\ stream \in [Turns -> Sent]
      /\ Evidence = Drafts + 1
  BY DEF TypeInv, TypeOK, Evidence, Sent
<1>3. CASE Ask(t)
  <2>1. /\ work' = [work EXCEPT ![t] = "started"] /\ work[t] = "none"
        /\ UNCHANGED <<rows, draft, partial, stream, ended, judge, flags>>
    BY <1>3 DEF Ask, Goto
  <2>2. work' \in [Turns -> Pcs]
    BY <1>2, <2>1 DEF Pcs
  <2>3. RowsAreOfTurns'
    BY <1>2, <2>1 DEF TypeInv, TypeOK, RowsAreOfTurns
  <2>4. DraftsLeft'
    BY <1>2, <2>1 DEF TypeInv, DraftsLeft
  <2> QED
    BY <2>1, <2>2, <2>3, <2>4 DEF TypeInv, TypeOK
<1>4. CASE RecordStart(t)
  <2>1. CASE Goto(t, "started", "writing") /\ UNCHANGED rows
    <3>0. draft[t] < Drafts /\ draft' = draft
      BY <1>4, <2>1 DEF RecordStart, Goto, TypeInv, DraftsLeft
    <3>1. work' \in [Turns -> Pcs] /\ RowsAreOfTurns' /\ DraftsLeft'
      BY <1>2, <2>1, <3>0, WorkerMoves DEF Goto, Pcs
    <3> QED
      BY <1>4, <2>1, <3>1 DEF RecordStart, TypeInv, TypeOK
  <2>2. CASE Goto(t, "started", "recorded") /\ rows' = Append(rows, t)
    <3>1. \A i \in 1..Len(rows) : rows[i] # t
      BY <2>2 DEF Goto, TypeInv, RowsAreOfTurns
    <3>2. /\ rows' \in Seq(Turns) /\ Len(rows') = Len(rows) + 1
          /\ \A i \in 1..Len(rows') : rows'[i] = IF i = Len(rows) + 1 THEN t ELSE rows[i]
          /\ DOMAIN rows = 1..Len(rows) /\ DOMAIN rows' = 1..Len(rows')
      BY <2>2 DEF TypeInv, TypeOK
    <3>3. IsInjective(rows')
      BY <3>1, <3>2, SMTT(30) DEF TypeInv, TypeOK, IsInjective
    <3>4. work' \in [Turns -> Pcs] /\ \A u \in Turns : work'[u] = IF u = t THEN "recorded" ELSE work[u]
      BY <1>2, <2>2 DEF Goto, Pcs
    <3>5. RowsAreOfTurns'
      BY <3>2, <3>4 DEF TypeInv, TypeOK, RowsAreOfTurns
    <3>6. DraftsLeft'
      BY <1>4, <2>2, <3>4 DEF RecordStart, Goto, TypeInv, DraftsLeft
    <3> QED
      BY <1>4, <2>2, <3>2, <3>3, <3>4, <3>5, <3>6 DEF RecordStart, TypeInv, TypeOK
  <2> QED
    BY <1>4, <2>1, <2>2 DEF RecordStart
<1>5. CASE Detect(t)
  <2>0. draft[t] < Drafts /\ draft' = draft
    BY <1>5 DEF Detect, Goto, TypeInv, DraftsLeft
  <2>1. work' \in [Turns -> Pcs] /\ RowsAreOfTurns' /\ DraftsLeft'
    BY <1>2, <1>5, <2>0, WorkerMoves DEF Detect, Goto, Pcs
  <2>2. flags' \subseteq [turn : Turns, rating : {"implicit_down", "judge_low"}, by : Turns]
    <3>1. \A p \in Previous(t) : p \in Turns
      BY PreviousIsRecorded DEF TypeInv
    <3> QED
      BY <1>5, <3>1 DEF Detect, TypeInv, TypeOK
  <2> QED
    BY <1>5, <2>1, <2>2 DEF Detect, TypeInv, TypeOK
<1>6. CASE Write(t) \/ WriteFails(t) \/ Checked(t) \/ TimeLimit(t) \/ Raises(t) \/ RecordEnd(t) \/ Close(t)
  <2>1. /\ rows' = rows /\ UNCHANGED flags
        /\ ended' \subseteq Turns
        /\ judge' \in [Turns -> {"none", "judging", "stored", "failed"}]
        /\ partial' \in [Turns -> BOOLEAN]
    BY <1>2, <1>6 DEF Write, WriteFails, Checked, TimeLimit, Raises, RecordEnd, Close, Reflected, TypeInv, TypeOK
  <2>2. stream' \in [Turns -> Sent]
    <3>1. CASE Write(t)
      <4>1. draft[t] + 1 \in 1..Evidence
        BY <1>2, <3>1 DEF Write, Goto, TypeInv, DraftsLeft
      <4> QED
        BY <1>2, <3>1, <4>1, SentTypes, SMTT(30) DEF Write
    <3>2. CASE WriteFails(t)
      <4>1. draft[t] + 1 \in 1..Evidence
        BY <1>2, <3>2 DEF WriteFails, Goto, TypeInv, DraftsLeft
      <4> QED
        BY <1>2, <3>2, <4>1, SentTypes DEF WriteFails
    <3>3. CASE TimeLimit(t)
      <4>1. Evidence \in 1..Evidence
        BY <1>2
      <4> QED
        BY <1>2, <3>3, <4>1, SentTypes DEF TimeLimit
    <3>4. CASE Close(t)
      <4>1. \A l \in {"done", "error"} :
              [[stream[t] EXCEPT !.last = l] EXCEPT !.closed = TRUE] \in Sent
        BY <1>2 DEF Sent
      <4>2. stream' = [stream EXCEPT ![t].last = "done", ![t].closed = TRUE]
            \/ stream' = [stream EXCEPT ![t].last = "error", ![t].closed = TRUE]
        BY <3>4 DEF Close
      <4> QED
        BY <1>2, <4>1, <4>2
    <3> QED
      BY <1>2, <1>6, <3>1, <3>2, <3>3, <3>4 DEF Checked, Raises, RecordEnd
  <2>3. draft' \in [Turns -> 0..Evidence] /\ work' \in [Turns -> Pcs]
        /\ RowsAreOfTurns' /\ DraftsLeft'
    <3>1. CASE Write(t)
      <4>1. /\ work' = [work EXCEPT ![t] = "written"]
            /\ draft' = [draft EXCEPT ![t] = @ + 1] /\ draft[t] < Drafts
        BY <3>1 DEF Write, Goto, TypeInv, DraftsLeft
      <4>2. draft' \in [Turns -> 0..Evidence]
        BY <1>2, <4>1
      <4>3. draft'[t] <= Drafts /\ \A u \in Turns \ {t} : draft'[u] = draft[u]
        BY <1>2, <4>1
      <4> QED
        BY <2>1, <4>1, <4>2, <4>3, WorkerMoves DEF Pcs
    <3>2. CASE WriteFails(t) \/ TimeLimit(t)
      <4>1. /\ work' = [work EXCEPT ![t] = "answered"]
            /\ draft' = [draft EXCEPT ![t] = Evidence]
        BY <3>2 DEF WriteFails, TimeLimit, Goto
      <4>2. draft' \in [Turns -> 0..Evidence] /\ \A u \in Turns \ {t} : draft'[u] = draft[u]
        BY <1>2, <4>1
      <4> QED
        BY <2>1, <4>1, <4>2, WorkerMoves DEF Pcs
    <3>3. CASE Checked(t)
      BY <1>2, <2>1, <3>3, WorkerMoves DEF Checked, Goto, Pcs
    <3>4. CASE Raises(t)
      BY <1>2, <2>1, <3>4, WorkerMoves DEF Raises, Pcs
    <3>5. CASE RecordEnd(t)
      BY <1>2, <2>1, <3>5, WorkerMoves DEF RecordEnd, Goto, Pcs
    <3>6. CASE Close(t)
      BY <1>2, <2>1, <3>6, WorkerMoves DEF Close, Goto, Pcs
    <3> QED
      BY <1>6, <3>1, <3>2, <3>3, <3>4, <3>5, <3>6
  <2> QED
    BY <2>1, <2>2, <2>3 DEF TypeInv, TypeOK, Sent
<1>7. CASE Judged(t)
  <2>1. judge' \in [Turns -> {"none", "judging", "stored", "failed"}]
    BY <1>7 DEF Judged, TypeInv, TypeOK
  <2>2. flags' \subseteq [turn : Turns, rating : {"implicit_down", "judge_low"}, by : Turns]
    BY <1>7 DEF Judged, TypeInv, TypeOK
  <2> QED
    BY <1>7, <2>1, <2>2 DEF Judged, TypeInv, TypeOK, RowsAreOfTurns, DraftsLeft
<1> QED
  BY <1>3, <1>4, <1>5, <1>6, <1>7 DEF TurnStep

\* Every variable keeps its type; no two rows are of one turn.
THEOREM Typing == Spec => []TypeOK
<1>1. TypeInv => TypeOK
  BY DEF TypeInv
<1> QED
  BY TypeInit, TypeStep, <1>1, PTL DEF Spec

-----------------------------------------------------------------------------
(* The client *)

LEMMA ShownInit == Init => ShownInv
  BY ConversationAssumption DEF Init, ShownInv, Shown, Evidence

LEMMA ShownStep == TypeInv /\ ShownInv /\ [Next]_vars => ShownInv'
<1> SUFFICES ASSUME TypeInv, ShownInv, [Next]_vars PROVE ShownInv'
  OBVIOUS
<1> USE ConversationAssumption
<1>1. CASE UNCHANGED vars
  BY <1>1 DEF vars, ShownInv, Shown
<1> SUFFICES ASSUME NEW t \in Turns, Ask(t) \/ TurnStep(t) \/ Judged(t)
             PROVE  ShownInv'
  BY <1>1 DEF Next
<1>2. /\ draft \in [Turns -> 0..Evidence] /\ Drafts \in Nat /\ Evidence = Drafts + 1
      /\ stream \in [Turns -> Sent]
  BY DEF TypeInv, TypeOK, Evidence, Sent
<1>3. ASSUME \A u \in Turns \ {t} : stream'[u] = stream[u] /\ draft'[u] = draft[u],
             Shown(t)'
      PROVE  ShownInv'
  BY <1>3 DEF ShownInv, Shown
<1>4. CASE UNCHANGED <<draft, stream>>
  BY <1>4 DEF ShownInv, Shown
<1>5. CASE Write(t) \/ WriteFails(t)
  <2>1. draft[t] + 1 \in 1..Evidence
    BY <1>2, <1>5 DEF Write, WriteFails, Goto, TypeInv, DraftsLeft
  <2>2. /\ draft'[t] # 0
        /\ \A u \in Turns \ {t} : stream'[u] = stream[u] /\ draft'[u] = draft[u]
    BY <1>2, <1>5, <2>1 DEF Write, WriteFails
  <2>3. stream'[t].shown \subseteq {draft[t] + 1} \/ stream'[t] = stream[t]
    <3>1. CASE draft[t] = 0
      <4>1. stream[t].shown = {} /\ 1 \in 1..Evidence
        BY <1>2, <3>1 DEF ShownInv, Shown
      <4> QED
        BY <1>2, <1>5, <3>1, <4>1, SentTypes DEF Write, WriteFails
    <3>2. CASE draft[t] # 0
      BY <1>2, <1>5, <2>1, <3>2, SentTypes DEF Write, WriteFails
    <3> QED
      BY <3>1, <3>2
  <2>4. Shown(t)'
    BY <2>1, <2>2, <2>3 DEF Shown, ShownInv
  <2> QED
    BY <1>3, <2>2, <2>4
<1>6. CASE TimeLimit(t)
  <2>1. /\ draft'[t] # 0 /\ stream'[t].shown \subseteq {Evidence}
        /\ \A u \in Turns \ {t} : stream'[u] = stream[u] /\ draft'[u] = draft[u]
    <3>1. Evidence \in 1..Evidence
      BY <1>2
    <3> QED
      BY <1>2, <1>6, <3>1, SentTypes DEF TimeLimit
  <2>2. Shown(t)'
    BY <1>2, <2>1 DEF Shown
  <2> QED
    BY <1>3, <2>1, <2>2
<1>7. CASE Close(t)
  <2>1. /\ stream'[t].shown = stream[t].shown /\ draft' = draft
        /\ \A u \in Turns \ {t} : stream'[u] = stream[u]
    <3>1. \A l \in {"done", "error"} :
            [[stream[t] EXCEPT !.last = l] EXCEPT !.closed = TRUE].shown = stream[t].shown
      BY <1>2 DEF Sent
    <3>2. stream' = [stream EXCEPT ![t].last = "done", ![t].closed = TRUE]
          \/ stream' = [stream EXCEPT ![t].last = "error", ![t].closed = TRUE]
      BY <1>7 DEF Close
    <3>3. draft' = draft
      BY <1>7 DEF Close
    <3> QED
      BY <1>2, <3>1, <3>2, <3>3
  <2>2. Shown(t)'
    BY <2>1 DEF Shown, ShownInv
  <2> QED
    BY <1>3, <2>1, <2>2
<1> QED
  BY <1>4, <1>5, <1>6, <1>7
  DEF TurnStep, Ask, RecordStart, Detect, Checked, Raises, RecordEnd, Judged

\* A client never shows the end of one answer behind the start of another.
THEOREM OneAnswerShown == Spec => []OneDraftShown
<1>1. ShownInv => OneDraftShown
  <2> SUFFICES ASSUME ShownInv, NEW t \in Turns PROVE Cardinality(stream[t].shown) <= 1
    BY DEF OneDraftShown
  <2>1. PICK d \in 1..Evidence : stream[t].shown \subseteq {d}
    BY DEF ShownInv, Shown
  <2>2. IsFiniteSet({d}) /\ Cardinality({d}) = 1
    BY FS_Singleton
  <2> QED
    BY <2>1, <2>2, FS_Subset
<1> QED
  BY TypeInit, TypeStep, ShownInit, ShownStep, <1>1, PTL DEF Spec

-----------------------------------------------------------------------------
(* Implicit thumbs-down *)

\* If a question follows only when the one before shows progress, an implicit
\* thumbs-down is for an earlier turn than the one that gave it.
THEOREM ThumbsDownPointBack ==
    ASSUME Hasty = FALSE PROVE Spec => []FlagsPointBack
<1> DEFINE Inv == TypeInv /\ AskedInOrder /\ FlagsPointBack
<1> USE ConversationAssumption
<1>1. Init => Inv
  <2> SUFFICES ASSUME Init PROVE AskedInOrder /\ FlagsPointBack
    BY TypeInit
  <2> QED
    BY DEF Init, AskedInOrder, FlagsPointBack
<1>2. Inv /\ [Next]_vars => Inv'
  <2> SUFFICES ASSUME Inv, [Next]_vars PROVE AskedInOrder' /\ FlagsPointBack'
    BY TypeStep
  <2>1. CASE UNCHANGED vars
    BY <2>1 DEF vars, AskedInOrder, FlagsPointBack
  <2> SUFFICES ASSUME NEW t \in Turns, Ask(t) \/ TurnStep(t) \/ Judged(t)
               PROVE  AskedInOrder' /\ FlagsPointBack'
    BY <2>1 DEF Next
  <2>2. work \in [Turns -> Pcs] /\ Turns \subseteq Nat
    BY DEF TypeInv, TypeOK, Turns
  <2>3. AskedInOrder'
    <3>1. CASE Ask(t)
      <4>1. /\ work[t] = "none" /\ work' = [work EXCEPT ![t] = "started"]
            /\ \A u \in Turns : u < t => work[u] \notin {"none", "started", "recorded"}
        BY <3>1 DEF Ask, Goto, Turns
      <4> QED
        BY <2>2, <4>1 DEF AskedInOrder
    <3>2. CASE TurnStep(t)
      <4>1. \E pc \in Pcs : work' = [work EXCEPT ![t] = pc] /\ pc \notin {"none", "started"}
                            /\ (pc = "recorded" => work[t] = "started")
        BY <3>2 DEF TurnStep, RecordStart, Detect, Write, WriteFails, Checked, TimeLimit, Raises,
                    RecordEnd, Close, Goto, Pcs
      <4>2. work[t] # "none"
        BY <3>2 DEF TurnStep, RecordStart, Detect, Write, WriteFails, Checked, TimeLimit, Raises,
                    RecordEnd, Close, Goto, Pcs
      <4> QED
        BY <2>2, <4>1, <4>2 DEF AskedInOrder
    <3>3. CASE Judged(t)
      BY <3>3 DEF Judged, AskedInOrder
    <3> QED
      BY <3>1, <3>2, <3>3
  <2>4. FlagsPointBack'
    <3>1. CASE Detect(t)
      <4>1. \A p \in Previous(t) : p < t
        <5> SUFFICES ASSUME NEW p \in Previous(t), ~(p < t) PROVE FALSE
          OBVIOUS
        <5>1. p \in Turns /\ p # t /\ work[p] \notin {"none", "started"}
          BY PreviousIsRecorded DEF TypeInv, RowsAreOfTurns
        <5>2. t < p
          BY <2>2, <5>1
        <5> QED
          BY <3>1, <5>1, <5>2 DEF AskedInOrder, Detect, Goto
      <4> QED
        BY <3>1, <4>1 DEF Detect, FlagsPointBack
    <3>2. CASE Judged(t)
      BY <3>2 DEF Judged, FlagsPointBack
    <3> QED
      BY <3>1, <3>2 DEF FlagsPointBack, Ask, TurnStep, RecordStart, Write, WriteFails, Checked,
                        TimeLimit, Raises, RecordEnd, Close
  <2> QED
    BY <2>3, <2>4
<1> QED
  BY <1>1, <1>2, PTL DEF Spec
=============================================================================
