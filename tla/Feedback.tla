------------------------------ MODULE Feedback ------------------------------
(***************************************************************************)
(* Ratings (feedback/capture.py), their review (feedback/promote.py as     *)
(* scripts/review_feedback.py drives it) and the way of a promoted case:   *)
(* the case file, golden.jsonl (scripts/build_golden.py), an evaluation    *)
(* run (EvalRun) and back to the state of its cluster.  A case is known by *)
(* its turn, which is in the case's id; golden.jsonl has the promoted      *)
(* cases and the hand-written ones.                                        *)
(***************************************************************************)
EXTENDS EvalRun

CONSTANTS
    Turns,      \* recorded turns, the promoted cases' ids in CaseIds
    Raters,     \* ratings under way at once
    Reviewers,  \* review sessions at once
    MaxFlags,   \* bound: rows of flagged_interactions
    None

ASSUME FeedbackAssumption == Turns \subseteq CaseIds /\ MaxFlags \in Nat /\ None \notin Turns

VARIABLES
    flags,      \* flagged_interactions, by id
    rater,      \* where each call of record is
    file,       \* golden/promoted.yaml: its cases
    review      \* where each review session is

feedbackVars == <<flags, rater, file, review>>
vars == <<evalVars, feedbackVars>>

Explicit == {"up", "down"}
Flag == [turn : Turns, rating : Explicit \cup {"auto"},    \* auto: implicit_down, judge_low
         status : {"new", "promoted", "dismissed"}, case : Turns \cup {None}]

FeedbackTypeOK ==
    /\ EvalTypeOK
    /\ flags \in Seq(Flag) /\ Len(flags) <= MaxFlags
    /\ rater \in [Raters -> [turn : Turns \cup {None}, row : 0..MaxFlags]]
    /\ file \subseteq Turns
    /\ review \in [Reviewers -> [pc : {"idle", "listed", "read", "saved"}, todo : SUBSET Turns,
                                 turn : Turns \cup {None}, file : SUBSET Turns]]

Away == [pc |-> "idle", todo |-> {}, turn |-> None, file |-> {}]

Negative(f) == f.rating \in {"down", "auto"}

FeedbackInit ==
    /\ flags = <<>>
    /\ rater = [r \in Raters |-> [turn |-> None, row |-> 0]]
    /\ file = {}
    /\ review = [v \in Reviewers |-> Away]

Raised(t, rating) == [turn |-> t, rating |-> rating, status |-> "new", case |-> None]

-----------------------------------------------------------------------------
(* Ratings *)

\* The rows of an explicit rating of the turn.
Current(t) == {i \in 1..Len(flags) : flags[i].turn = t /\ flags[i].rating \in Explicit}

\* record looks for the turn's rating ...
RecordLooks(r, t) ==
    /\ rater[r].turn = None
    /\ \E i \in Current(t) \cup {0} :
        /\ \A j \in Current(t) : j <= i
        /\ rater' = [rater EXCEPT ![r] = [turn |-> t, row |-> i]]
    /\ UNCHANGED <<evalVars, flags, file, review>>

\* ... and updates it, leaving its review as it is, or inserts one.
RecordWrites(r, rating) ==
    /\ rater[r].turn # None
    /\ IF rater[r].row # 0
       THEN flags' = [flags EXCEPT ![rater[r].row].rating = rating]
       ELSE Len(flags) < MaxFlags /\ flags' = Append(flags, Raised(rater[r].turn, rating))
    /\ rater' = [rater EXCEPT ![r] = [turn |-> None, row |-> 0]]
    /\ UNCHANGED <<evalVars, file, review>>

\* A rephrased question or the live judge: a row of its own.
AutoFlag(t) ==
    /\ Len(flags) < MaxFlags
    /\ flags' = Append(flags, Raised(t, "auto"))
    /\ UNCHANGED <<evalVars, rater, file, review>>

-----------------------------------------------------------------------------
(* Review *)

\* flagged_turns and queue: the turns with a negative flag not yet reviewed.
Open == {f.turn : f \in {g \in ToSet(flags) : Negative(g) /\ g.status = "new"}}

List(v) ==
    /\ review[v].pc = "idle"
    /\ Open # {}
    /\ review' = [review EXCEPT ![v] = [Away EXCEPT !.pc = "listed", !.todo = Open]]
    /\ UNCHANGED <<evalVars, flags, rater, file>>

\* mark: every negative flag the turn has by now.
Marked(t, status, case) ==
    [i \in 1..Len(flags) |-> IF flags[i].turn = t /\ Negative(flags[i])
                             THEN [flags[i] EXCEPT !.status = status, !.case = case] ELSE flags[i]]

Dismiss(v, t) ==
    /\ review[v].pc = "listed" /\ t \in review[v].todo
    /\ flags' = Marked(t, "dismissed", None)
    /\ review' = [review EXCEPT ![v].todo = @ \ {t}]
    /\ UNCHANGED <<evalVars, rater, file>>

\* append_promoted reads the cases; one it has already ends the program.
ReadCases(v, t) ==
    /\ review[v].pc = "listed" /\ t \in review[v].todo
    /\ review' = [review EXCEPT ![v] =
                    IF t \in file THEN Away ELSE [@ EXCEPT !.pc = "read", !.turn = t, !.file = file]]
    /\ UNCHANGED <<evalVars, flags, rater, file>>

\* Mutant: the flags are marked first, the case saved after.
MutSaveCaseLast(v) ==
    /\ review[v].pc = "read"
    /\ flags' = Marked(review[v].turn, "promoted", review[v].turn)
    /\ review' = [review EXCEPT ![v].pc = "saved"]
    /\ UNCHANGED <<evalVars, rater, file>>

\* The whole file is written, with what was read and the new case.
SaveCase(v) ==
    /\ review[v].pc = "read"
    /\ file' = review[v].file \cup {review[v].turn}
    /\ review' = [review EXCEPT ![v].pc = "saved"]
    /\ UNCHANGED <<evalVars, flags, rater>>

MarkPromoted(v) ==
    /\ review[v].pc = "saved"
    /\ flags' = Marked(review[v].turn, "promoted", review[v].turn)
    /\ review' = [review EXCEPT ![v] =
                    [Away EXCEPT !.pc = "listed", !.todo = review[v].todo \ {review[v].turn}]]
    /\ UNCHANGED <<evalVars, rater, file>>

\* The session is over, or ends at any step.
Leave(v) ==
    /\ review[v].pc # "idle"
    /\ review' = [review EXCEPT ![v] = Away]
    /\ UNCHANGED <<evalVars, flags, rater, file>>

-----------------------------------------------------------------------------
(* The cases in the evaluation *)

\* build_golden.py --no-generate.
BuildGolden == Rebuild((golden \ Turns) \cup file) /\ UNCHANGED feedbackVars

\* Mutant: a case the provider cut short counts by its pass, too.
MutPassesUnscored(run) == {l.id : l \in {m \in LinesOf(run) : m.pass}}

Passes(run) == {l.id : l \in {m \in LinesOf(run) : m.status = "ok" /\ m.pass}}

HasResults(run) == run.lines # <<>> \/ run.torn

\* latest_eval_results: the last folder that has results; a line in it that
\* cannot be parsed ends the program.
LatestPass ==
    UNION {Passes(runs[i]) : i \in {j \in 1..Len(runs) :
        ~runs[j].torn /\ HasResults(runs[j]) /\ \A k \in j + 1..Len(runs) : ~HasResults(runs[k])}}

\* cluster_status, for one cluster and within a day: its cases all pass.
Resolved == file # {} /\ file \subseteq LatestPass

FeedbackStep ==
    \/ \E r \in Raters : (\E t \in Turns : RecordLooks(r, t)) \/ (\E x \in Explicit : RecordWrites(r, x))
    \/ \E t \in Turns : AutoFlag(t)
    \/ \E v \in Reviewers :
        \/ List(v) \/ SaveCase(v) \/ MarkPromoted(v) \/ Leave(v)
        \/ \E t \in Turns : Dismiss(v, t) \/ ReadCases(v, t)

Init == EvalInit /\ FeedbackInit

Next ==
    \/ FeedbackStep
    \/ BuildGolden
    \/ (Evaluate \/ SwitchModels) /\ UNCHANGED feedbackVars

Spec == Init /\ [][Next]_vars

-----------------------------------------------------------------------------
(* Properties *)

\* A flag that counts as promoted has its case in the file, whenever the
\* review ended (append_promoted before mark).
PromotedHasCase ==
    \A i \in 1..Len(flags) : flags[i].status = "promoted" => flags[i].case \in file

\* When a cluster is called resolved, every flag promoted from it has its case
\* scored in some run: no case a review lost or the provider cut short is
\* behind it (cluster_status over what append_promoted, build_golden and
\* run_eval made).
ResolvedWasScored ==
    Resolved => \A i \in 1..Len(flags) : flags[i].status = "promoted" =>
        \E r \in 1..Len(runs) : flags[i].case \in Scored(runs[r])
=============================================================================
