------------------------------ MODULE EvalRun ------------------------------
(***************************************************************************)
(* Evaluation runs (evaluation/runner.py as scripts/run_eval.py drives     *)
(* it): one line per case in results.jsonl as it ends, a run that stops    *)
(* and is resumed, the report over the last line of each case.             *)
(***************************************************************************)
EXTENDS Naturals, Sequences, FiniteSets, SequencesExt

CONSTANTS
    CaseIds,    \* ids of golden.jsonl
    Start,      \* those it has at first
    Prune,      \* whether a case may leave the set between two invocations
    Systems,    \* configurations of models (_models)
    MaxRuns,    \* bound: run folders
    MaxLines,   \* bound: lines of results
    NoReport

ASSUME EvalAssumption ==
    /\ Start \subseteq CaseIds
    /\ Prune \in BOOLEAN
    /\ MaxRuns \in Nat /\ MaxLines \in Nat

VARIABLES
    golden,     \* the cases of golden.jsonl
    models,     \* the models configured now
    runs,       \* evaluation_runs: meta.json, results.jsonl and report.json
    proc        \* the one evaluation under way, if any

evalVars == <<golden, models, runs, proc>>

\* A line of results.jsonl.
Line == [id : CaseIds, status : {"ok", "infra", "budget"}, pass : BOOLEAN]

\* torn: a crash left the last line half written.
Run == [caseIds : SUBSET CaseIds, models : Systems, lines : Seq(Line), torn : BOOLEAN,
        report : [cases : SUBSET CaseIds, complete : BOOLEAN] \cup {NoReport}]

Proc == [pc : {"idle", "running", "reporting"}, run : 0..MaxRuns,
         cases : SUBSET CaseIds, todo : SUBSET CaseIds, stopped : BOOLEAN]

NoProc == [pc |-> "idle", run |-> 0, cases |-> {}, todo |-> {}, stopped |-> FALSE]

EvalTypeOK ==
    /\ golden \subseteq CaseIds
    /\ models \in Systems
    /\ runs \in Seq(Run)
    /\ proc \in Proc
    /\ proc.todo \subseteq proc.cases

EvalInit ==
    /\ golden = Start
    /\ models \in Systems
    /\ runs = <<>>
    /\ proc = NoProc

LinesOf(run) == ToSet(run.lines)

\* Mutant: a resumed run forgets what it has.
MutDoneNone(run) == {}

\* done: the cases scored "ok".
Done(run) == {l.id : l \in {m \in LinesOf(run) : m.status = "ok"}}

\* latest: the last line of each case.
Latest(run) ==
    {run.lines[i] : i \in {j \in 1..Len(run.lines) :
        \A k \in j + 1..Len(run.lines) : run.lines[k].id # run.lines[j].id}}

AllLines == FoldSeq(LAMBDA r, n : Len(r.lines) + n, 0, runs)

-----------------------------------------------------------------------------
\* A new run of some of the cases (--only, --promoted, --smoke, --limit).
Begin(cases) ==
    /\ proc.pc = "idle" /\ Len(runs) < MaxRuns
    /\ runs' = Append(runs, [caseIds |-> cases, models |-> models, lines |-> <<>>,
                             torn |-> FALSE, report |-> NoReport])
    /\ proc' = [pc |-> "running", run |-> Len(runs) + 1, cases |-> cases,
                todo |-> cases, stopped |-> FALSE]
    /\ UNCHANGED <<golden, models>>

\* A line that cannot be parsed, or other models, end the program at once.
Resumable(run) == ~run.torn /\ run.models = models

\* --resume: the ids of meta.json, as far as the sets still have them.
Resume(i) ==
    /\ proc.pc = "idle"
    /\ Resumable(runs[i])
    /\ LET cases == runs[i].caseIds \cap golden
       IN  proc' = [pc |-> "running", run |-> i, cases |-> cases,
                    todo |-> cases \ Done(runs[i]), stopped |-> FALSE]
    /\ UNCHANGED <<golden, models, runs>>

\* run_case, and its line: scored, kept from a score by the provider or by
\* the stack, or at the end of the day's allowance.
RunCase(id, status, pass) ==
    /\ proc.pc = "running" /\ id \in proc.todo
    /\ AllLines < MaxLines
    /\ runs' = [runs EXCEPT ![proc.run].lines =
                    Append(@, [id |-> id, status |-> status, pass |-> pass])]
    /\ proc' = IF status = "budget"
               THEN [proc EXCEPT !.pc = "reporting", !.stopped = TRUE]
               ELSE [proc EXCEPT !.todo = @ \ {id}]
    /\ UNCHANGED <<golden, models>>

\* The process is killed, perhaps in the middle of a line.
Killed ==
    /\ proc.pc # "idle"
    /\ proc' = NoProc
    /\ \/ UNCHANGED runs
       \/ proc.pc = "running" /\ proc.todo # {} /\ runs' = [runs EXCEPT ![proc.run].torn = TRUE]
    /\ UNCHANGED <<golden, models>>

\* Mutant: a case with any line counts as scored.
MutCompleteAnyLine(results, cases, stopped) == Cardinality(results) = Cardinality(cases) /\ ~stopped

\* build_report: as many scored as there are cases.
Complete(results, cases, stopped) ==
    Cardinality({l \in results : l.status = "ok"}) = Cardinality(cases) /\ ~stopped

Report ==
    /\ \/ proc.pc = "running" /\ proc.todo = {}
       \/ proc.pc = "reporting"
    /\ runs' = [runs EXCEPT ![proc.run].report =
                    [cases |-> proc.cases,
                     complete |-> Complete(Latest(runs[proc.run]), proc.cases, proc.stopped)]]
    /\ proc' = NoProc
    /\ UNCHANGED <<golden, models>>

\* Between two invocations: other models, another golden set.
SwitchModels ==
    /\ proc.pc = "idle"
    /\ models' \in Systems \ {models}
    /\ UNCHANGED <<golden, runs, proc>>

Rebuild(cases) ==
    /\ proc.pc = "idle"
    /\ Prune \/ golden \subseteq cases
    /\ golden' = cases
    /\ UNCHANGED <<models, runs, proc>>

Evaluate ==
    \/ \E cases \in SUBSET golden : Begin(cases)
    \/ \E i \in 1..Len(runs) : Resume(i)
    \/ \E id \in CaseIds, status \in {"ok", "infra", "budget"}, pass \in BOOLEAN :
        RunCase(id, status, pass)
    \/ Killed \/ Report

EvalNext ==
    \/ Evaluate \/ SwitchModels
    \/ \E cases \in SUBSET CaseIds : Rebuild(cases)

EvalSpec == EvalInit /\ [][EvalNext]_evalVars

-----------------------------------------------------------------------------
(* Properties *)

Scored(run) == {l.id : l \in {m \in LinesOf(run) : m.status = "ok"}}

\* A case is scored once a run, however often the run stops and is resumed.
ScoredOnce ==
    \A r \in 1..Len(runs) : \A i, j \in 1..Len(runs[r].lines) :
        /\ runs[r].lines[i].status = "ok" /\ runs[r].lines[j].status = "ok"
        /\ runs[r].lines[i].id = runs[r].lines[j].id
        => i = j

\* A report that calls its run complete has a score for every case of the
\* run: nothing the provider cut short is taken for done (build_report).
CompleteMeansScored ==
    \A r \in 1..Len(runs) :
        runs[r].report # NoReport /\ runs[r].report.complete =>
            runs[r].report.cases \subseteq Scored(runs[r])
=============================================================================
