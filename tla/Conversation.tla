---------------------------- MODULE Conversation ----------------------------
(***************************************************************************)
(* The turns of one session as /chat runs them (api/routes_chat.py around  *)
(* agent/turn.py): the row written first, the implicit thumbs-down for the *)
(* turn asked again (feedback/capture.py), the events of the stream, the   *)
(* end of the row and the sampled judgement (evaluation/live_judge.py).    *)
(* A turn's worker does not depend on the connection: its events wait in   *)
(* an unbounded queue, so a client that leaves changes no step.            *)
(***************************************************************************)
EXTENDS Naturals, Sequences, FiniteSets, SequencesExt

CONSTANTS
    MaxTurns,   \* bound: questions of the session
    Hasty,      \* whether a question may follow before the last shows progress
    Drafts      \* 1 + the rewrites after a failed grounding check

ASSUME ConversationAssumption == MaxTurns \in Nat /\ Hasty \in BOOLEAN /\ Drafts \in Nat \ {0}

Turns == 1..MaxTurns

\* evidence_answer, told apart from the drafts.
Evidence == Drafts + 1

VARIABLES
    rows,       \* conversation_turns, in the order of created_at
    work,       \* where the worker of each turn is
    draft,      \* the answer it writes: none yet (0), a draft, or Evidence
    partial,    \* AgentState.partial
    stream,     \* what each client has been sent: the drafts since the last
                \* reset, the last record, and whether the stream is closed
    ended,      \* the turns whose row has its outcome
    judge,      \* where the live judge of each turn is
    flags       \* flagged_interactions of this session the code wrote

vars == <<rows, work, draft, partial, stream, ended, judge, flags>>

Pcs == {"none", "started", "recorded", "writing", "written", "answered",
        "stored", "failed", "over"}

TypeOK ==
    /\ rows \in Seq(Turns)
    /\ IsInjective(rows)
    /\ work \in [Turns -> Pcs]
    /\ draft \in [Turns -> 0..Evidence]
    /\ partial \in [Turns -> BOOLEAN]
    /\ stream \in [Turns -> [shown : SUBSET (1..Evidence),
                             last : {"none", "done", "error"}, closed : BOOLEAN]]
    /\ ended \subseteq Turns
    /\ judge \in [Turns -> {"none", "judging", "stored", "failed"}]
    /\ flags \subseteq [turn : Turns, rating : {"implicit_down", "judge_low"}, by : Turns]

Init ==
    /\ rows = <<>>
    /\ work = [t \in Turns |-> "none"]
    /\ draft = [t \in Turns |-> 0]
    /\ partial = [t \in Turns |-> FALSE]
    /\ stream = [t \in Turns |-> [shown |-> {}, last |-> "none", closed |-> FALSE]]
    /\ ended = {}
    /\ judge = [t \in Turns |-> "none"]
    /\ flags = {}

Goto(t, from, to) == work[t] = from /\ work' = [work EXCEPT ![t] = to]

Recorded(t) == \E i \in 1..Len(rows) : rows[i] = t

-----------------------------------------------------------------------------
(* The request, and the record of its start *)

\* events() starts the worker of the next question.
Ask(t) ==
    /\ \A u \in 1..t - 1 : work[u] # "none"
    /\ Hasty \/ \A u \in 1..t - 1 : work[u] \notin {"started", "recorded"}
    /\ Goto(t, "none", "started")
    /\ UNCHANGED <<rows, draft, partial, stream, ended, judge, flags>>

\* The row is inserted, or the database refuses it and the turn goes on.
RecordStart(t) ==
    /\ \/ Goto(t, "started", "recorded") /\ rows' = Append(rows, t)
       \/ Goto(t, "started", "writing") /\ UNCHANGED rows
    /\ UNCHANGED <<draft, partial, stream, ended, judge, flags>>

\* Mutant: the new turn is not left out of the search for the previous one.
MutPreviousSelf(t) == {rows[Len(rows)]}

\* The turn of the session with the latest created_at, other than t.
Previous(t) ==
    {rows[i] : i \in {j \in 1..Len(rows) :
        rows[j] # t /\ \A k \in j + 1..Len(rows) : rows[k] = t}}

\* detect_implicit_negative: the question is or is not a rephrase of the one
\* before; a turn is flagged for this once.
Detect(t) ==
    /\ Goto(t, "recorded", "writing")
    /\ \/ UNCHANGED flags
       \/ \E p \in Previous(t) :
            /\ \A f \in flags : f.turn = p => f.rating # "implicit_down"
            /\ flags' = flags \cup {[turn |-> p, rating |-> "implicit_down", by |-> t]}
    /\ UNCHANGED <<rows, draft, partial, stream, ended, judge>>

-----------------------------------------------------------------------------
(* The turn, as far as the stream shows it *)

Reset(s) == [s EXCEPT !.shown = {}]
Token(s, d) == [s EXCEPT !.shown = @ \cup {d}]

\* What reflect left in partial, by the first draft.
Reflected(t) ==
    IF draft[t] = 0 THEN \E p \in BOOLEAN : partial' = [partial EXCEPT ![t] = p]
    ELSE UNCHANGED partial

\* Mutant: no answer_reset before a rewrite.
MutWriteNoReset(t) ==
    /\ Goto(t, "writing", "written")
    /\ draft' = [draft EXCEPT ![t] = @ + 1]
    /\ stream' = [stream EXCEPT ![t] = Token(@, draft[t] + 1)]
    /\ Reflected(t)
    /\ UNCHANGED <<rows, ended, judge, flags>>

\* synthesize_node streams a draft; one after a failed check starts with
\* answer_reset.
Write(t) ==
    /\ Goto(t, "writing", "written")
    /\ draft' = [draft EXCEPT ![t] = @ + 1]
    /\ stream' = [stream EXCEPT ![t] =
                    IF draft[t] = 0 THEN Token(@, 1) ELSE Token(Reset(@), draft[t] + 1)]
    /\ Reflected(t)
    /\ UNCHANGED <<rows, ended, judge, flags>>

\* The writing step fails, before or after its first token: evidence_answer,
\* which is never retried.  No reset, and no token of the new text.
WriteFails(t) ==
    /\ Goto(t, "writing", "answered")
    /\ draft' = [draft EXCEPT ![t] = Evidence]
    /\ \E some \in BOOLEAN :
        stream' = IF ~some THEN stream
                  ELSE [stream EXCEPT ![t] =
                    IF draft[t] = 0 THEN Token(@, 1) ELSE Token(Reset(@), draft[t] + 1)]
    /\ Reflected(t)
    /\ UNCHANGED <<rows, ended, judge, flags>>

\* groundedness_node: passed, sent back to be rewritten, or shipped hedged.
Checked(t) ==
    /\ \/ Goto(t, "written", "answered")
       \/ draft[t] < Drafts /\ Goto(t, "written", "writing")
    /\ UNCHANGED <<rows, draft, partial, stream, ended, judge, flags>>

\* The ceiling: the client is told to drop what it shows, then sent the
\* evidence.
TimeLimit(t) ==
    /\ work[t] \in {"writing", "written"}
    /\ work' = [work EXCEPT ![t] = "answered"]
    /\ draft' = [draft EXCEPT ![t] = Evidence]
    /\ partial' = [partial EXCEPT ![t] = TRUE]
    /\ stream' = [stream EXCEPT ![t] = Token(Reset(@), Evidence)]
    /\ UNCHANGED <<rows, ended, judge, flags>>

\* The graph raises: run_turn re-raises it and no end is recorded.
Raises(t) ==
    /\ work[t] \in {"writing", "written"}
    /\ work' = [work EXCEPT ![t] = "failed"]
    /\ UNCHANGED <<rows, draft, partial, stream, ended, judge, flags>>

-----------------------------------------------------------------------------
(* The end of the turn *)

\* eligible: not partial (with evidence and long enough: a choice).
Eligible(t) == ~partial[t]

\* _record_end updates the row, if there is one and the database answers;
\* then a sample is scheduled for the judge.
RecordEnd(t) ==
    /\ Goto(t, "answered", "stored")
    /\ \/ Recorded(t) /\ ended' = ended \cup {t}
       \/ UNCHANGED ended
    /\ \/ Eligible(t) /\ judge' = [judge EXCEPT ![t] = "judging"]
       \/ UNCHANGED judge
    /\ UNCHANGED <<rows, draft, partial, stream, flags>>

\* Mutant: the marker is queued only after an answer.
MutCloseNoFinally(t) ==
    /\ \/ Goto(t, "stored", "over") /\ stream' = [stream EXCEPT ![t].last = "done", ![t].closed = TRUE]
       \/ Goto(t, "failed", "over") /\ stream' = [stream EXCEPT ![t].last = "error"]
    /\ UNCHANGED <<rows, draft, partial, ended, judge, flags>>

\* worker: the last record, and the marker that closes the stream.
Close(t) ==
    /\ \/ Goto(t, "stored", "over") /\ stream' = [stream EXCEPT ![t].last = "done", ![t].closed = TRUE]
       \/ Goto(t, "failed", "over") /\ stream' = [stream EXCEPT ![t].last = "error", ![t].closed = TRUE]
    /\ UNCHANGED <<rows, draft, partial, ended, judge, flags>>

\* review: the score and its flag in one transaction, which needs the row.
Judged(t) ==
    /\ judge[t] = "judging"
    /\ \/ /\ Recorded(t)
          /\ judge' = [judge EXCEPT ![t] = "stored"]
          /\ \E low \in BOOLEAN :
                flags' = IF low THEN flags \cup {[turn |-> t, rating |-> "judge_low", by |-> t]} ELSE flags
       \/ judge' = [judge EXCEPT ![t] = "failed"] /\ UNCHANGED flags
    /\ UNCHANGED <<rows, work, draft, partial, stream, ended>>

TurnStep(t) ==
    \/ RecordStart(t) \/ Detect(t) \/ Write(t) \/ WriteFails(t) \/ Checked(t)
    \/ TimeLimit(t) \/ Raises(t) \/ RecordEnd(t) \/ Close(t)

Next == \E t \in Turns : Ask(t) \/ TurnStep(t) \/ Judged(t)

Spec == Init /\ [][Next]_vars

\* Database calls answer or fail, the ceiling ends the graph: a worker goes on.
FairSpec == Spec /\ \A t \in Turns : WF_vars(TurnStep(t)) /\ WF_vars(Judged(t))

-----------------------------------------------------------------------------
(* Properties *)

\* What a client shows, the tokens since the last reset, is of one draft: a
\* rewritten or cut-off answer never runs on from the one before it.
OneDraftShown == \A t \in Turns : Cardinality(stream[t].shown) <= 1

\* An implicit thumbs-down is on a turn asked before the question that gave it.
FlagsPointBack ==
    \A f \in flags : f.rating = "implicit_down" => f.turn < f.by

\* Every question asked gets its last record and the end of its stream,
\* connected or not, whatever fails on the way.
EveryStreamCloses ==
    \A t \in Turns : work[t] = "started" ~> stream[t].closed /\ stream[t].last # "none"
=============================================================================
