--------------------------- MODULE FeedbackProofs ---------------------------
(***************************************************************************)
(* Theorems about EvalRun and about Feedback, which extends it, for every  *)
(* set of cases, turns, raters, flags and runs, and any number of          *)
(* interruptions and resumptions.  What the evaluation guarantees is so    *)
(* here.                                                                   *)
(***************************************************************************)
EXTENDS Feedback, FiniteSetTheorems, TLAPS

-----------------------------------------------------------------------------
(* The inductive invariants *)

\* An evaluation under way has its folder, with the models of the process, and
\* has still to run only what the folder has no score for.
ProcHasRun ==
    proc.pc # "idle" =>
        /\ proc.run \in 1..Len(runs)
        /\ proc.todo \cap Scored(runs[proc.run]) = {}

RunsInv == EvalTypeOK /\ Len(runs) <= MaxRuns /\ ProcHasRun /\ ScoredOnce

\* Without pruning, the ids of a run stay in the set.
KeptCases == \A r \in 1..Len(runs) : runs[r].caseIds \subseteq golden

\* The lines of a run are of its cases, and so is an evaluation of it.
LinesAreOfCases ==
    /\ \A r \in 1..Len(runs) : \A l \in LinesOf(runs[r]) : l.id \in runs[r].caseIds
    /\ proc.pc # "idle" => proc.cases = runs[proc.run].caseIds

ReportsInv == RunsInv /\ KeptCases /\ LinesAreOfCases /\ CompleteMeansScored

-----------------------------------------------------------------------------
(* Runs and their lines *)

\* A line appended is one line more, and nothing else of the run changes.
LEMMA LineAppended ==
    ASSUME NEW run \in Run, NEW line \in Line
    PROVE  LET new == [run EXCEPT !.lines = Append(@, line)]
           IN  /\ new \in Run
               /\ Len(new.lines) = Len(run.lines) + 1
               /\ \A i \in 1..Len(run.lines) : new.lines[i] = run.lines[i]
               /\ new.lines[Len(run.lines) + 1] = line
               /\ LinesOf(new) = LinesOf(run) \cup {line}
               /\ Scored(new) = Scored(run) \cup IF line.status = "ok" THEN {line.id} ELSE {}
               /\ new.caseIds = run.caseIds /\ new.report = run.report
<1> DEFINE new == [run EXCEPT !.lines = Append(@, line)]
<1>1. run.lines \in Seq(Line) /\ new.lines = Append(run.lines, line)
  BY DEF Run
<1>2. new \in Run /\ new.caseIds = run.caseIds /\ new.report = run.report
  <2>1. Append(run.lines, line) \in Seq(Line)
    BY <1>1
  <2> QED
    BY <2>1 DEF Run
<1>3. /\ Len(new.lines) = Len(run.lines) + 1
      /\ \A i \in 1..Len(run.lines) : new.lines[i] = run.lines[i]
      /\ new.lines[Len(run.lines) + 1] = line
  BY <1>1
<1>4. LinesOf(new) = LinesOf(run) \cup {line}
  <2>1. DOMAIN new.lines = 1..Len(run.lines) + 1 /\ DOMAIN run.lines = 1..Len(run.lines)
        /\ Len(run.lines) \in Nat
    BY <1>1
  <2>2. \A i \in 1..Len(run.lines) + 1 : i \in 1..Len(run.lines) \/ i = Len(run.lines) + 1
    BY <2>1
  <2>3. LinesOf(new) \subseteq LinesOf(run) \cup {line}
    BY <1>3, <2>1, <2>2 DEF LinesOf, ToSet
  <2>4. LinesOf(run) \cup {line} \subseteq LinesOf(new)
    BY <1>3, <2>1, <2>2 DEF LinesOf, ToSet
  <2> QED
    BY <2>3, <2>4
<1>5. Scored(new) = Scored(run) \cup IF line.status = "ok" THEN {line.id} ELSE {}
  <2> HIDE DEF new
  <2> QED
    BY <1>4 DEF Scored
<1> HIDE DEF new
<1>6. QED
  BY <1>2, <1>3, <1>4, <1>5 DEF new

\* What a step may do to a run's folder without touching its lines.
LEMMA FolderChanged ==
    ASSUME NEW run \in Run, NEW rep \in [cases : SUBSET CaseIds, complete : BOOLEAN]
    PROVE  /\ [run EXCEPT !.torn = TRUE] \in Run
           /\ [run EXCEPT !.torn = TRUE].lines = run.lines
           /\ [run EXCEPT !.torn = TRUE].caseIds = run.caseIds
           /\ [run EXCEPT !.torn = TRUE].report = run.report
           /\ [run EXCEPT !.report = rep] \in Run
           /\ [run EXCEPT !.report = rep].lines = run.lines
           /\ [run EXCEPT !.report = rep].caseIds = run.caseIds
           /\ [run EXCEPT !.report = rep].report = rep
  BY DEF Run

\* One run's folder changes, the others do not.
LEMMA RunReplaced ==
    ASSUME EvalTypeOK, NEW i \in 1..Len(runs), NEW new \in Run, runs' = [runs EXCEPT ![i] = new]
    PROVE  /\ runs' \in Seq(Run) /\ Len(runs') = Len(runs)
           /\ \A r \in 1..Len(runs) : runs'[r] = IF r = i THEN new ELSE runs[r]
  BY DEF EvalTypeOK

LEMMA ScoredLines ==
    ASSUME NEW run, NEW i \in DOMAIN run.lines, run.lines[i].status = "ok"
    PROVE  run.lines[i].id \in Scored(run)
  BY DEF Scored, LinesOf, ToSet

-----------------------------------------------------------------------------
(* Types, and one score a case *)

LEMMA RunsInit == EvalInit => RunsInv
  BY EvalAssumption
  DEF EvalInit, RunsInv, EvalTypeOK, ProcHasRun, ScoredOnce, NoProc, Proc

LEMMA RunsStep == RunsInv /\ [EvalNext]_evalVars => RunsInv'
<1> SUFFICES ASSUME RunsInv, [EvalNext]_evalVars PROVE RunsInv'
  OBVIOUS
<1> USE EvalAssumption
<1>1. /\ golden \subseteq CaseIds /\ models \in Systems /\ runs \in Seq(Run) /\ Len(runs) \in Nat
      /\ proc \in Proc /\ proc.todo \subseteq proc.cases /\ proc.cases \subseteq CaseIds
      /\ NoProc \in Proc /\ NoProc.todo \subseteq NoProc.cases /\ NoProc.pc = "idle"
  BY DEF RunsInv, EvalTypeOK, Proc, NoProc
<1>2. ASSUME Len(runs') = Len(runs), \A r \in 1..Len(runs) : runs'[r].lines = runs[r].lines
      PROVE  ScoredOnce' /\ \A r \in 1..Len(runs) : Scored(runs'[r]) = Scored(runs[r])
  BY <1>2 DEF RunsInv, ScoredOnce, Scored, LinesOf
<1>3. ASSUME NEW cases \in SUBSET golden, Begin(cases) PROVE RunsInv'
  <2> DEFINE new == [caseIds |-> cases, models |-> models, lines |-> <<>>,
                     torn |-> FALSE, report |-> NoReport]
  <2>1. new \in Run /\ new.lines = <<>> /\ Scored(new) = {}
    BY <1>1 DEF Run, Scored, LinesOf, ToSet
  <2>2. runs' = Append(runs, new)
    BY <1>3 DEF Begin
  <2> HIDE DEF new
  <2>3. /\ runs' \in Seq(Run) /\ Len(runs') = Len(runs) + 1
        /\ \A r \in 1..Len(runs) : runs'[r] = runs[r]
        /\ runs'[Len(runs) + 1] = new
    BY <1>1, <2>1, <2>2
  <2>4. /\ proc' \in Proc /\ proc'.todo = cases /\ proc'.cases = cases
        /\ proc'.run = Len(runs) + 1
    BY <1>1, <1>3 DEF Begin, Proc
  <2>5. ScoredOnce'
    <3> SUFFICES ASSUME NEW r \in 1..Len(runs) + 1, NEW i \in 1..Len(runs'[r].lines),
                        NEW j \in 1..Len(runs'[r].lines),
                        runs'[r].lines[i].status = "ok", runs'[r].lines[j].status = "ok",
                        runs'[r].lines[i].id = runs'[r].lines[j].id
                 PROVE  i = j
      BY <2>3 DEF ScoredOnce
    <3>1. r \in 1..Len(runs)
      BY <1>1, <2>1, <2>3
    <3> QED
      BY <2>3, <3>1 DEF RunsInv, ScoredOnce
  <2>6. ProcHasRun'
    BY <1>1, <2>1, <2>3, <2>4 DEF ProcHasRun
  <2>7. Len(runs') <= MaxRuns
    BY <1>1, <1>3, <2>3 DEF Begin
  <2> QED
    BY <1>1, <1>3, <2>3, <2>4, <2>5, <2>6, <2>7 DEF Begin, RunsInv, EvalTypeOK
<1>4. ASSUME NEW i \in 1..Len(runs), Resume(i) PROVE RunsInv'
  <2>1. /\ proc' \in Proc /\ proc'.run = i /\ proc'.todo \subseteq proc'.cases
        /\ proc'.todo \cap Done(runs[i]) = {}
    <3>1. i \in 0..MaxRuns
      BY <1>1, <1>4 DEF Resume, RunsInv
    <3> QED
      BY <1>1, <1>4, <3>1 DEF Resume, Proc
  <2>2. Done(runs[i]) = Scored(runs[i])
    BY DEF Done, Scored
  <2> QED
    BY <1>1, <1>2, <1>4, <2>1, <2>2 DEF Resume, RunsInv, EvalTypeOK, ProcHasRun
<1>5. ASSUME NEW id \in CaseIds, NEW status \in {"ok", "infra", "budget"}, NEW pass \in BOOLEAN,
             RunCase(id, status, pass)
      PROVE  RunsInv'
  <2> DEFINE line == [id |-> id, status |-> status, pass |-> pass]
  <2> DEFINE run == runs[proc.run]
  <2> DEFINE new == [run EXCEPT !.lines = Append(@, line)]
  <2>1. /\ line \in Line /\ line.id = id /\ line.status = status
        /\ proc.run \in 1..Len(runs) /\ run \in Run
        /\ id \in proc.todo /\ id \notin Scored(run)
    BY <1>1, <1>5 DEF Line, RunCase, RunsInv, ProcHasRun
  <2>2. runs' = [runs EXCEPT ![proc.run] = new]
    BY <1>5 DEF RunCase
  <2> HIDE DEF line, run
  <2>3. /\ new \in Run /\ Len(new.lines) = Len(run.lines) + 1
        /\ \A i \in 1..Len(run.lines) : new.lines[i] = run.lines[i]
        /\ new.lines[Len(run.lines) + 1] = line
        /\ Scored(new) = Scored(run) \cup IF status = "ok" THEN {id} ELSE {}
    BY <2>1, LineAppended, ZenonT(30)
  <2> HIDE DEF new
  <2>4. /\ runs' \in Seq(Run) /\ Len(runs') = Len(runs)
        /\ \A r \in 1..Len(runs) : runs'[r] = IF r = proc.run THEN new ELSE runs[r]
    BY <2>1, <2>2, <2>3, RunReplaced, ZenonT(30) DEF RunsInv
  <2>5. /\ proc' \in Proc /\ proc'.run = proc.run /\ proc'.cases = proc.cases
        /\ proc'.todo \subseteq proc.todo
        /\ status # "budget" => proc'.todo = proc.todo \ {id}
    BY <1>1, <1>5 DEF RunCase, Proc
  <2>6. ScoredOnce'
    <3> SUFFICES ASSUME NEW r \in 1..Len(runs), NEW i \in 1..Len(runs'[r].lines),
                        NEW j \in 1..Len(runs'[r].lines),
                        runs'[r].lines[i].status = "ok", runs'[r].lines[j].status = "ok",
                        runs'[r].lines[i].id = runs'[r].lines[j].id
                 PROVE  i = j
      BY <2>4 DEF ScoredOnce
    <3>1. CASE r # proc.run
      BY <2>4, <3>1 DEF RunsInv, ScoredOnce
    <3>2. CASE r = proc.run
      <4>1. run.lines \in Seq(Line) /\ Len(run.lines) \in Nat /\ DOMAIN run.lines = 1..Len(run.lines)
        BY <2>1 DEF Run
      <4>2. i \in 1..Len(run.lines) + 1 /\ j \in 1..Len(run.lines) + 1
        BY <2>3, <2>4, <3>2
      <4>3. runs'[r] = new
        BY <2>4, <3>2
      <4>4. \A k \in 1..Len(run.lines) : new.lines[k].status = "ok" => new.lines[k].id # id
        BY <2>1, <2>3, <4>1, ScoredLines, SMTT(30)
      <4>5. CASE i \in 1..Len(run.lines) /\ j \in 1..Len(run.lines)
        <5>1. /\ run.lines[i].status = "ok" /\ run.lines[j].status = "ok"
              /\ run.lines[i].id = run.lines[j].id
          BY <2>3, <4>3, <4>5
        <5> QED
          BY <2>1, <4>5, <5>1 DEF RunsInv, ScoredOnce, run
      <4>6. CASE i = Len(run.lines) + 1 \/ j = Len(run.lines) + 1
        <5>1. /\ new.lines[i].status = "ok" /\ new.lines[j].status = "ok"
              /\ new.lines[i].id = new.lines[j].id
          BY <4>3
        <5>2. new.lines[Len(run.lines) + 1].id = id
          BY <2>1, <2>3
        <5>3. i \notin 1..Len(run.lines) /\ j \notin 1..Len(run.lines)
          BY <4>4, <4>6, <5>1, <5>2
        <5> QED
          BY <4>1, <4>2, <5>3
      <4> QED
        BY <4>1, <4>2, <4>5, <4>6
    <3> QED
      BY <3>1, <3>2
  <2>7. proc'.todo \cap Scored(new) = {}
    <3>1. proc.todo \cap Scored(run) = {}
      BY <1>5 DEF RunCase, RunsInv, ProcHasRun, run
    <3> QED
      BY <2>3, <2>5, <3>1
  <2>8. proc'.todo \subseteq proc'.cases
    BY <1>1, <2>5
  <2>9. ProcHasRun'
    BY <2>1, <2>4, <2>5, <2>7 DEF ProcHasRun
  <2> QED
    BY <1>1, <1>5, <2>4, <2>5, <2>6, <2>8, <2>9 DEF RunCase, RunsInv, EvalTypeOK
<1>6. CASE Killed
  <2>1. CASE UNCHANGED runs
    BY <1>1, <1>2, <1>6, <2>1 DEF Killed, RunsInv, EvalTypeOK, ProcHasRun
  <2>2. CASE proc.pc = "running" /\ proc.todo # {} /\ runs' = [runs EXCEPT ![proc.run].torn = TRUE]
    <3> DEFINE new == [runs[proc.run] EXCEPT !.torn = TRUE]
    <3>1. proc.run \in 1..Len(runs) /\ runs[proc.run] \in Run
      BY <1>1, <2>2 DEF RunsInv, ProcHasRun
    <3>2. new \in Run /\ new.lines = runs[proc.run].lines
      BY <3>1 DEF Run
    <3>3. runs' = [runs EXCEPT ![proc.run] = new]
      BY <2>2
    <3> HIDE DEF new
    <3>4. /\ runs' \in Seq(Run) /\ Len(runs') = Len(runs)
          /\ \A r \in 1..Len(runs) : runs'[r] = IF r = proc.run THEN new ELSE runs[r]
      BY <3>1, <3>2, <3>3, RunReplaced DEF RunsInv
    <3>5. \A r \in 1..Len(runs) : runs'[r].lines = runs[r].lines
      BY <3>2, <3>4
    <3> QED
      BY <1>1, <1>2, <1>6, <3>4, <3>5 DEF Killed, RunsInv, EvalTypeOK, ProcHasRun
  <2> QED
    BY <1>6, <2>1, <2>2 DEF Killed
<1>7. CASE Report
  <2> DEFINE rep == [cases |-> proc.cases,
                     complete |-> Complete(Latest(runs[proc.run]), proc.cases, proc.stopped)]
  <2> DEFINE new == [runs[proc.run] EXCEPT !.report = rep]
  <2>1. proc.run \in 1..Len(runs) /\ runs[proc.run] \in Run
    BY <1>1, <1>7 DEF Report, RunsInv, ProcHasRun
  <2>2. rep \in [cases : SUBSET CaseIds, complete : BOOLEAN]
    <3>1. Complete(Latest(runs[proc.run]), proc.cases, proc.stopped) \in BOOLEAN
      BY DEF Complete
    <3> QED
      BY <1>1, <3>1
  <2>3. runs' = [runs EXCEPT ![proc.run] = new]
    BY <1>7 DEF Report
  <2> HIDE DEF rep
  <2>4. new \in Run /\ new.lines = runs[proc.run].lines
    BY <2>1, <2>2, FolderChanged
  <2> HIDE DEF new
  <2>5. /\ runs' \in Seq(Run) /\ Len(runs') = Len(runs)
        /\ \A r \in 1..Len(runs) : runs'[r] = IF r = proc.run THEN new ELSE runs[r]
    BY <2>1, <2>3, <2>4, RunReplaced DEF RunsInv
  <2>6. \A r \in 1..Len(runs) : runs'[r].lines = runs[r].lines
    BY <2>4, <2>5
  <2> QED
    BY <1>1, <1>2, <1>7, <2>5, <2>6 DEF Report, RunsInv, EvalTypeOK, ProcHasRun
<1>8. CASE SwitchModels
  BY <1>1, <1>2, <1>8 DEF SwitchModels, RunsInv, EvalTypeOK, ProcHasRun
<1>9. ASSUME NEW cases \in SUBSET CaseIds, Rebuild(cases) PROVE RunsInv'
  BY <1>1, <1>2, <1>9 DEF Rebuild, RunsInv, EvalTypeOK, ProcHasRun
<1>10. CASE UNCHANGED evalVars
  BY <1>1, <1>2, <1>10 DEF evalVars, RunsInv, EvalTypeOK, ProcHasRun
<1> QED
  BY <1>3, <1>4, <1>5, <1>6, <1>7, <1>8, <1>9, <1>10 DEF EvalNext, Evaluate

\* Every variable keeps its type.
THEOREM Typing == EvalSpec => []EvalTypeOK
<1>1. RunsInv => EvalTypeOK
  BY DEF RunsInv
<1> QED
  BY RunsInit, RunsStep, <1>1, PTL DEF EvalSpec

\* A case is scored once a run, for any number of interruptions.
THEOREM NoCaseScoredTwice == EvalSpec => []ScoredOnce
<1>1. RunsInv => ScoredOnce
  BY DEF RunsInv
<1> QED
  BY RunsInit, RunsStep, <1>1, PTL DEF EvalSpec

-----------------------------------------------------------------------------
(* What complete means *)

\* As many scored lines as cases: the last lines of a run are one a case, so a
\* score is there for each.
LEMMA CompleteIsScored ==
    ASSUME IsFiniteSet(CaseIds), NEW run \in Run, NEW cases \in SUBSET CaseIds, NEW stopped \in BOOLEAN,
           \A l \in LinesOf(run) : l.id \in cases,
           Complete(Latest(run), cases, stopped)
    PROVE  cases \subseteq Scored(run)
<1> DEFINE L == {l \in Latest(run) : l.status = "ok"}
<1> DEFINE f == [l \in L |-> l.id]
<1>1. run.lines \in Seq(Line) /\ Len(run.lines) \in Nat /\ DOMAIN run.lines = 1..Len(run.lines)
  BY DEF Run
<1>2. Latest(run) \subseteq LinesOf(run)
  BY <1>1 DEF Latest, LinesOf, ToSet
<1>3. \A l, m \in Latest(run) : l.id = m.id => l = m
  <2> SUFFICES ASSUME NEW l \in Latest(run), NEW m \in Latest(run), l.id = m.id PROVE l = m
    OBVIOUS
  <2>1. PICK i \in 1..Len(run.lines) :
            l = run.lines[i] /\ \A k \in i + 1..Len(run.lines) : run.lines[k].id # run.lines[i].id
    BY DEF Latest
  <2>2. PICK j \in 1..Len(run.lines) :
            m = run.lines[j] /\ \A k \in j + 1..Len(run.lines) : run.lines[k].id # run.lines[j].id
    BY DEF Latest
  <2>3. ~(i < j) /\ ~(j < i)
    <3>1. i < j => j \in i + 1..Len(run.lines)
      BY <1>1
    <3>2. j < i => i \in j + 1..Len(run.lines)
      BY <1>1
    <3> QED
      BY <2>1, <2>2, <3>1, <3>2
  <2> QED
    BY <1>1, <2>1, <2>2, <2>3
<1>4. f \in Injection(L, cases)
  <2>1. f \in [L -> cases]
    BY <1>2
  <2>2. IsInjective(f)
    BY <1>3 DEF IsInjective
  <2> QED
    BY <2>1, <2>2 DEF Injection
<1>5. IsFiniteSet(cases)
  BY FS_Subset
<1>6. Cardinality(L) = Cardinality(cases)
  BY DEF Complete
<1> HIDE DEF f, L
<1>7. f \in Surjection(L, cases)
  BY <1>4, <1>5, <1>6, FS_Injection
<1> SUFFICES ASSUME NEW c \in cases PROVE c \in Scored(run)
  OBVIOUS
<1>8. PICK l \in L : f[l] = c
  BY <1>7 DEF Surjection
<1> QED
  BY <1>2, <1>8 DEF f, L, Scored

\* Scores stay, and so do a run's cases and those of the set.
LEMMA ReportsStep ==
    ASSUME IsFiniteSet(CaseIds), Prune = FALSE, ReportsInv, [EvalNext]_evalVars
    PROVE  ReportsInv'
<1> USE EvalAssumption
<1>1. RunsInv /\ RunsInv'
  BY RunsStep DEF ReportsInv
<1>2. /\ golden \subseteq CaseIds /\ runs \in Seq(Run) /\ Len(runs) \in Nat
      /\ proc \in Proc /\ proc.todo \subseteq proc.cases /\ proc.cases \subseteq CaseIds
      /\ proc.stopped \in BOOLEAN /\ NoProc.pc = "idle"
      /\ \A r \in 1..Len(runs) : runs[r] \in Run
  BY <1>1 DEF RunsInv, EvalTypeOK, Proc, NoProc
<1>3. ASSUME UNCHANGED runs, proc'.pc = "idle", golden \subseteq golden' PROVE ReportsInv'
  BY <1>1, <1>2, <1>3
  DEF ReportsInv, KeptCases, LinesAreOfCases, CompleteMeansScored, Scored, LinesOf
<1>4. ASSUME NEW cases \in SUBSET golden, Begin(cases) PROVE ReportsInv'
  <2> DEFINE new == [caseIds |-> cases, models |-> models, lines |-> <<>>,
                     torn |-> FALSE, report |-> NoReport]
  <2>1. /\ new.caseIds = cases /\ LinesOf(new) = {} /\ new.report = NoReport /\ new \in Run
    BY <1>1, <1>2 DEF LinesOf, ToSet, Run, RunsInv, EvalTypeOK
  <2>2. runs' = Append(runs, new)
    BY <1>4 DEF Begin
  <2> HIDE DEF new
  <2>3. /\ Len(runs') = Len(runs) + 1 /\ runs'[Len(runs) + 1] = new
        /\ \A r \in 1..Len(runs) : runs'[r] = runs[r]
        /\ \A r \in 1..Len(runs') : r \in 1..Len(runs) \/ r = Len(runs) + 1
    BY <1>2, <2>1, <2>2
  <2>4. golden' = golden /\ proc'.cases = cases /\ proc'.run = Len(runs) + 1
    BY <1>4 DEF Begin
  <2>5. KeptCases'
    BY <2>1, <2>3, <2>4 DEF ReportsInv, KeptCases
  <2>6. LinesAreOfCases'
    BY <2>1, <2>3, <2>4 DEF ReportsInv, LinesAreOfCases
  <2>7. CompleteMeansScored'
    BY <2>1, <2>3 DEF ReportsInv, CompleteMeansScored
  <2> QED
    BY <1>1, <2>5, <2>6, <2>7 DEF ReportsInv
<1>5. ASSUME NEW i \in 1..Len(runs), Resume(i) PROVE ReportsInv'
  <2>1. runs' = runs /\ golden' = golden /\ proc'.run = i /\ proc'.cases = runs[i].caseIds
    BY <1>5 DEF Resume, ReportsInv, KeptCases
  <2> QED
    BY <1>1, <2>1 DEF ReportsInv, KeptCases, LinesAreOfCases, CompleteMeansScored, Scored, LinesOf
<1>6. ASSUME NEW id \in CaseIds, NEW status \in {"ok", "infra", "budget"}, NEW pass \in BOOLEAN,
             RunCase(id, status, pass)
      PROVE  ReportsInv'
  <2> DEFINE line == [id |-> id, status |-> status, pass |-> pass]
  <2> DEFINE run == runs[proc.run]
  <2> DEFINE new == [run EXCEPT !.lines = Append(@, line)]
  <2>1. /\ line \in Line /\ line.id = id
        /\ proc.run \in 1..Len(runs) /\ run \in Run
        /\ id \in run.caseIds
    BY <1>1, <1>2, <1>6 DEF Line, RunCase, RunsInv, ProcHasRun, ReportsInv, LinesAreOfCases
  <2>2. runs' = [runs EXCEPT ![proc.run] = new]
    BY <1>6 DEF RunCase
  <2> HIDE DEF line, run
  <2>3. /\ new \in Run /\ new.caseIds = run.caseIds /\ new.report = run.report
        /\ LinesOf(new) = LinesOf(run) \cup {line}
        /\ Scored(new) = Scored(run) \cup IF line.status = "ok" THEN {line.id} ELSE {}
    BY <2>1, LineAppended
  <2> HIDE DEF new
  <2>4. /\ Len(runs') = Len(runs)
        /\ \A r \in 1..Len(runs) : runs'[r] = IF r = proc.run THEN new ELSE runs[r]
    BY <1>1, <2>1, <2>2, <2>3, RunReplaced DEF RunsInv
  <2>5. golden' = golden /\ proc'.cases = proc.cases /\ proc'.run = proc.run /\ proc.pc = "running"
    BY <1>2, <1>6 DEF RunCase, Proc
  <2>6. KeptCases'
    BY <2>3, <2>4, <2>5 DEF ReportsInv, KeptCases, run
  <2>7. LinesAreOfCases'
    BY <2>1, <2>3, <2>4, <2>5 DEF ReportsInv, LinesAreOfCases, run
  <2>8. CompleteMeansScored'
    <3>1. Scored(run) \subseteq Scored(new)
      BY <2>3
    <3> QED
      BY <2>3, <2>4, <3>1 DEF ReportsInv, CompleteMeansScored, run
  <2> QED
    BY <1>1, <2>6, <2>7, <2>8 DEF ReportsInv
<1>7. ASSUME NEW new \in Run, proc.run \in 1..Len(runs), runs' = [runs EXCEPT ![proc.run] = new],
             new.lines = runs[proc.run].lines, new.caseIds = runs[proc.run].caseIds,
             golden' = golden, proc'.pc = "idle",
             new.report # NoReport /\ new.report.complete => new.report.cases \subseteq Scored(new)
      PROVE  ReportsInv'
  <2>1. /\ Len(runs') = Len(runs)
        /\ \A r \in 1..Len(runs) : runs'[r] = IF r = proc.run THEN new ELSE runs[r]
    BY <1>1, <1>7, RunReplaced DEF RunsInv
  <2>2. LinesOf(new) = LinesOf(runs[proc.run])
    BY <1>7 DEF LinesOf
  <2>3. KeptCases' /\ LinesAreOfCases' /\ CompleteMeansScored'
    BY <1>7, <2>1, <2>2 DEF ReportsInv, KeptCases, LinesAreOfCases, CompleteMeansScored
  <2> QED
    BY <1>1, <2>3 DEF ReportsInv
<1>8. CASE Killed
  <2>1. CASE UNCHANGED runs
    BY <1>2, <1>3, <1>8, <2>1 DEF Killed
  <2>2. CASE proc.pc = "running" /\ proc.todo # {} /\ runs' = [runs EXCEPT ![proc.run].torn = TRUE]
    <3> DEFINE new == [runs[proc.run] EXCEPT !.torn = TRUE]
    <3>1. proc.run \in 1..Len(runs) /\ runs[proc.run] \in Run
      BY <1>1, <1>2, <2>2 DEF RunsInv, ProcHasRun
    <3>2. /\ new \in Run /\ new.lines = runs[proc.run].lines /\ new.caseIds = runs[proc.run].caseIds
          /\ new.report = runs[proc.run].report
      BY <3>1 DEF Run
    <3>3. runs' = [runs EXCEPT ![proc.run] = new] /\ golden' = golden /\ proc'.pc = "idle"
      BY <1>2, <1>8, <2>2 DEF Killed
    <3> HIDE DEF new
    <3>4. Scored(new) = Scored(runs[proc.run])
      BY <3>2 DEF Scored, LinesOf
    <3>5. new.report # NoReport /\ new.report.complete => new.report.cases \subseteq Scored(new)
      BY <3>1, <3>2, <3>4 DEF ReportsInv, CompleteMeansScored
    <3> QED
      BY <1>7, <3>1, <3>2, <3>3, <3>5
  <2> QED
    BY <1>8, <2>1, <2>2 DEF Killed
<1>9. CASE Report
  <2> DEFINE run == runs[proc.run]
  <2> DEFINE rep == [cases |-> proc.cases,
                     complete |-> Complete(Latest(run), proc.cases, proc.stopped)]
  <2> DEFINE new == [run EXCEPT !.report = rep]
  <2>1. proc.run \in 1..Len(runs) /\ run \in Run /\ proc.cases = run.caseIds
        /\ \A l \in LinesOf(run) : l.id \in proc.cases
    BY <1>1, <1>2, <1>9 DEF Report, RunsInv, ProcHasRun, ReportsInv, LinesAreOfCases
  <2>2. runs' = [runs EXCEPT ![proc.run] = new] /\ golden' = golden /\ proc'.pc = "idle"
    BY <1>2, <1>9 DEF Report
  <2> HIDE DEF run
  <2>3. rep \in [cases : SUBSET CaseIds, complete : BOOLEAN]
    <3>1. Complete(Latest(run), proc.cases, proc.stopped) \in BOOLEAN
      BY DEF Complete
    <3> QED
      BY <1>2, <3>1
  <2>4. rep.complete => rep.cases \subseteq Scored(run)
    BY <1>2, <2>1, CompleteIsScored
  <2> HIDE DEF rep
  <2>5. /\ new \in Run /\ new.lines = run.lines /\ new.caseIds = run.caseIds /\ new.report = rep
    BY <2>1, <2>3, FolderChanged
  <2> HIDE DEF new
  <2>6. Scored(new) = Scored(run)
    BY <2>5 DEF Scored, LinesOf
  <2> QED
    BY <1>7, <2>1, <2>2, <2>4, <2>5, <2>6 DEF run
<1>10. CASE SwitchModels \/ UNCHANGED evalVars
  BY <1>1, <1>10
  DEF SwitchModels, evalVars, ReportsInv, KeptCases, LinesAreOfCases, CompleteMeansScored, Scored, LinesOf
<1>11. ASSUME NEW cases \in SUBSET CaseIds, Rebuild(cases) PROVE ReportsInv'
  BY <1>2, <1>3, <1>11 DEF Rebuild
<1> QED
  BY <1>4, <1>5, <1>6, <1>8, <1>9, <1>10, <1>11 DEF EvalNext, Evaluate

\* If no case leaves the set between a run and its resumption, a report that
\* calls the run complete has a score for each of its cases.
THEOREM CompleteRunsAreScored ==
    ASSUME IsFiniteSet(CaseIds), Prune = FALSE PROVE EvalSpec => []CompleteMeansScored
<1>1. EvalInit => ReportsInv
  BY RunsInit
  DEF EvalInit, ReportsInv, KeptCases, LinesAreOfCases, CompleteMeansScored, NoProc
<1>2. ReportsInv /\ [EvalNext]_evalVars => ReportsInv'
  BY ReportsStep
<1>3. ReportsInv => CompleteMeansScored
  BY DEF ReportsInv
<1> QED
  BY <1>1, <1>2, <1>3, PTL DEF EvalSpec


-----------------------------------------------------------------------------
(* The inductive invariants *)

\* What a review session has in hand.
SessionsInOrder ==
    \A v \in Reviewers :
        /\ review[v].pc = "read" => review[v].file = file
        /\ review[v].pc = "saved" => review[v].turn \in file

\* A session that promotes has a turn.
SessionsHaveTurns == \A v \in Reviewers : review[v].pc \in {"read", "saved"} => review[v].turn \in Turns

FeedbackInv == RunsInv /\ FeedbackTypeOK /\ SessionsHaveTurns

Reviewed == PromotedHasCase /\ SessionsInOrder

-----------------------------------------------------------------------------
(* Types *)

\* What a session is, whatever it does next.
Session == [pc : {"idle", "listed", "read", "saved"}, todo : SUBSET Turns,
            turn : Turns \cup {None}, file : SUBSET Turns]

LEMMA FlagRated ==
    ASSUME NEW f \in Flag, NEW rating \in Explicit
    PROVE  /\ [f EXCEPT !.rating = rating] \in Flag
           /\ [f EXCEPT !.rating = rating].status = f.status
           /\ [f EXCEPT !.rating = rating].case = f.case
  BY DEF Flag, Explicit

LEMMA MarkedType ==
    ASSUME flags \in Seq(Flag), NEW t \in Turns, NEW status \in {"new", "promoted", "dismissed"},
           NEW c \in Turns \cup {None}
    PROVE  /\ Marked(t, status, c) \in Seq(Flag)
           /\ Len(Marked(t, status, c)) = Len(flags)
           /\ \A i \in 1..Len(flags) :
                \/ Marked(t, status, c)[i] = flags[i]
                \/ Marked(t, status, c)[i].status = status /\ Marked(t, status, c)[i].case = c
<1> DEFINE mark(f) == [f EXCEPT !.status = status, !.case = c]
<1>1. \A f \in Flag : mark(f) \in Flag /\ mark(f).status = status /\ mark(f).case = c
  <2> SUFFICES ASSUME NEW f \in Flag
               PROVE  mark(f) \in Flag /\ mark(f).status = status /\ mark(f).case = c
    OBVIOUS
  <2>1. mark(f) \in Flag
    BY DEF Flag
  <2>2. mark(f).status = status /\ mark(f).case = c
    BY DEF Flag
  <2> QED
    BY <2>1, <2>2
<1>2. Len(flags) \in Nat /\ \A i \in 1..Len(flags) : flags[i] \in Flag
  OBVIOUS
<1>3. Marked(t, status, c) =
        [i \in 1..Len(flags) |->
            IF flags[i].turn = t /\ Negative(flags[i]) THEN mark(flags[i]) ELSE flags[i]]
  BY DEF Marked
<1> HIDE DEF mark
<1>4. Marked(t, status, c) \in [1..Len(flags) -> Flag]
  BY <1>1, <1>2, <1>3
<1>5. Marked(t, status, c) \in Seq(Flag) /\ Len(Marked(t, status, c)) = Len(flags)
  BY <1>2, <1>4
<1> QED
  BY <1>1, <1>2, <1>3, <1>5

LEMMA FeedbackTypeInit == Init => FeedbackInv
<1> SUFFICES ASSUME Init PROVE FeedbackTypeOK /\ SessionsHaveTurns
  BY RunsInit DEF Init, FeedbackInv
<1>1. EvalTypeOK
  BY RunsInit DEF Init, RunsInv
<1>2. flags \in Seq(Flag) /\ Len(flags) <= MaxFlags
  BY FeedbackAssumption DEF Init, FeedbackInit
<1>3. rater \in [Raters -> [turn : Turns \cup {None}, row : 0..MaxFlags]]
  BY FeedbackAssumption DEF Init, FeedbackInit
<1>4. Away \in Session
  BY DEF Away, Session
<1>5. review \in [Reviewers -> Session] /\ file = {}
  BY <1>4 DEF Init, FeedbackInit
<1>6. SessionsHaveTurns
  BY DEF Init, FeedbackInit, Away, SessionsHaveTurns
<1> QED
  BY <1>1, <1>2, <1>3, <1>5, <1>6 DEF FeedbackTypeOK, Session

LEMMA FeedbackLeavesRuns == FeedbackStep => UNCHANGED evalVars
  BY DEF FeedbackStep, RecordLooks, RecordWrites, AutoFlag, List, SaveCase, MarkPromoted, Leave,
         Dismiss, ReadCases

\* Every step is one of the evaluation, or none of its business.
LEMMA EvalStep == FeedbackInv /\ [Next]_vars => [EvalNext]_evalVars
<1> SUFFICES ASSUME FeedbackInv, [Next]_vars PROVE [EvalNext]_evalVars
  OBVIOUS
<1>1. CASE FeedbackStep
  BY <1>1, FeedbackLeavesRuns
<1>2. CASE BuildGolden
  <2>1. (golden \ Turns) \cup file \in SUBSET CaseIds
    BY FeedbackAssumption DEF FeedbackInv, FeedbackTypeOK, EvalTypeOK
  <2> QED
    BY <1>2, <2>1 DEF BuildGolden, EvalNext
<1>3. CASE Evaluate \/ SwitchModels
  BY <1>3 DEF EvalNext
<1>4. CASE UNCHANGED vars
  BY <1>4 DEF vars
<1> QED
  BY <1>1, <1>2, <1>3, <1>4 DEF Next

LEMMA FeedbackTypeStep == FeedbackInv /\ [Next]_vars => FeedbackInv'
<1> SUFFICES ASSUME FeedbackInv, [Next]_vars PROVE FeedbackTypeOK' /\ SessionsHaveTurns'
  BY EvalStep, RunsStep DEF FeedbackInv
<1> USE FeedbackAssumption
<1>1. EvalTypeOK'
  BY EvalStep, RunsStep DEF FeedbackInv, RunsInv
<1>2. /\ flags \in Seq(Flag) /\ Len(flags) <= MaxFlags /\ Len(flags) \in Nat
      /\ rater \in [Raters -> [turn : Turns \cup {None}, row : 0..MaxFlags]]
      /\ file \subseteq Turns
      /\ review \in [Reviewers -> Session]
      /\ \A v \in Reviewers : review[v].pc \in {"read", "saved"} => review[v].turn \in Turns
  BY DEF FeedbackInv, FeedbackTypeOK, Session, SessionsHaveTurns
<1> DEFINE FlagsOK == flags' \in Seq(Flag) /\ Len(flags') <= MaxFlags
<1> DEFINE RaterOK == rater' \in [Raters -> [turn : Turns \cup {None}, row : 0..MaxFlags]]
<1> DEFINE ReviewOK == review' \in [Reviewers -> Session] /\ SessionsHaveTurns'
<1> DEFINE AllOK == FlagsOK /\ RaterOK /\ file' \subseteq Turns /\ ReviewOK
<1> SUFFICES AllOK
  BY <1>1 DEF FeedbackTypeOK, Session
<1>3. Away \in Session /\ Away.pc = "idle"
  BY DEF Away, Session
<1>4. ASSUME NEW t \in Turns, NEW rating \in Explicit \cup {"auto"}, Len(flags) < MaxFlags,
             flags' = Append(flags, Raised(t, rating))
      PROVE  FlagsOK
  <2>1. Raised(t, rating) \in Flag
    BY DEF Raised, Flag
  <2> QED
    BY <1>2, <1>4, <2>1
<1>5. ASSUME UNCHANGED review PROVE ReviewOK
  BY <1>2, <1>5 DEF SessionsHaveTurns
<1>6. ASSUME NEW v \in Reviewers, NEW session \in Session, review' = [review EXCEPT ![v] = session],
             session.pc \in {"read", "saved"} => session.turn \in Turns
      PROVE  ReviewOK
  BY <1>2, <1>6 DEF SessionsHaveTurns
<1>7. ASSUME NEW r \in Raters, NEW t \in Turns, RecordLooks(r, t) PROVE AllOK
  <2>1. \A i \in Current(t) \cup {0} : i \in 0..MaxFlags
    BY <1>2 DEF Current
  <2> QED
    BY <1>2, <1>5, <1>7, <2>1 DEF RecordLooks
<1>8. ASSUME NEW r \in Raters, NEW x \in Explicit, RecordWrites(r, x) PROVE AllOK
  <2>1. rater[r].turn \in Turns /\ rater[r].row \in 0..MaxFlags
    BY <1>2, <1>8 DEF RecordWrites
  <2>2. RaterOK /\ file' \subseteq Turns /\ ReviewOK
    BY <1>2, <1>5, <1>8 DEF RecordWrites
  <2>3. CASE rater[r].row # 0
    <3> DEFINE i == rater[r].row
    <3>1. flags' = [flags EXCEPT ![i].rating = x]
      BY <1>8, <2>3 DEF RecordWrites
    <3>2. CASE i \in 1..Len(flags)
      <4> DEFINE new == [flags[i] EXCEPT !.rating = x]
      <4>1. flags[i] \in Flag
        BY <1>2, <3>2
      <4>2. new \in Flag
        BY <4>1, FlagRated
      <4>3. flags' = [flags EXCEPT ![i] = new]
        BY <3>1
      <4> HIDE DEF new
      <4> QED
        BY <1>2, <2>2, <3>2, <4>2, <4>3
    <3>3. CASE i \notin 1..Len(flags)
      <4>1. flags' = flags
        BY <1>2, <3>1, <3>3
      <4> QED
        BY <1>2, <2>2, <4>1
    <3> QED
      BY <3>2, <3>3
  <2>4. CASE rater[r].row = 0
    BY <1>4, <1>8, <2>1, <2>2, <2>4 DEF RecordWrites
  <2> QED
    BY <2>1, <2>3, <2>4
<1>9. ASSUME NEW t \in Turns, AutoFlag(t) PROVE AllOK
  BY <1>2, <1>4, <1>5, <1>9 DEF AutoFlag
<1>10. ASSUME NEW v \in Reviewers, List(v) PROVE AllOK
  <2>1. Open \subseteq Turns
    <3>1. \A f \in ToSet(flags) : f \in Flag
      BY <1>2 DEF ToSet
    <3> QED
      BY <3>1 DEF Open, Flag
  <2> DEFINE session == [Away EXCEPT !.pc = "listed", !.todo = Open]
  <2>2. session \in Session /\ session.pc = "listed"
    BY <1>3, <2>1 DEF Session, Away
  <2>3. review' = [review EXCEPT ![v] = session]
    BY <1>10 DEF List
  <2> HIDE DEF session
  <2>4. ReviewOK
    BY <1>6, <2>2, <2>3
  <2> QED
    BY <1>2, <1>10, <2>4 DEF List
<1>11. ASSUME NEW v \in Reviewers, NEW t \in Turns, Dismiss(v, t) PROVE AllOK
  <2> DEFINE session == [review[v] EXCEPT !.todo = @ \ {t}]
  <2>1. session \in Session /\ session.pc = review[v].pc /\ session.turn = review[v].turn
    BY <1>2 DEF Session
  <2>2. review' = [review EXCEPT ![v] = session]
    BY <1>11 DEF Dismiss
  <2> HIDE DEF session
  <2>3. ReviewOK
    BY <1>2, <1>6, <2>1, <2>2
  <2> QED
    BY <1>2, <1>11, <2>3, MarkedType DEF Dismiss
<1>12. ASSUME NEW v \in Reviewers, NEW t \in Turns, ReadCases(v, t) PROVE AllOK
  <2> DEFINE session == IF t \in file THEN Away
                        ELSE [review[v] EXCEPT !.pc = "read", !.turn = t, !.file = file]
  <2>1. session \in Session /\ (session.pc # "idle" => session.turn \in Turns)
    <3>1. [review[v] EXCEPT !.pc = "read", !.turn = t, !.file = file] \in Session
          /\ [review[v] EXCEPT !.pc = "read", !.turn = t, !.file = file].turn = t
      BY <1>2 DEF Session
    <3> QED
      BY <1>3, <3>1
  <2>2. review' = [review EXCEPT ![v] = session]
    BY <1>12 DEF ReadCases
  <2> HIDE DEF session
  <2>3. ReviewOK
    BY <1>6, <2>1, <2>2
  <2> QED
    BY <1>2, <1>12, <2>3 DEF ReadCases
<1>13. ASSUME NEW v \in Reviewers, SaveCase(v) PROVE AllOK
  <2>1. review[v] \in Session /\ review[v].turn \in Turns
    BY <1>2, <1>13 DEF SaveCase
  <2> DEFINE session == [review[v] EXCEPT !.pc = "saved"]
  <2>2. session \in Session /\ session.turn \in Turns
    BY <2>1 DEF Session
  <2>3. review' = [review EXCEPT ![v] = session]
    BY <1>13 DEF SaveCase
  <2> HIDE DEF session
  <2>4. ReviewOK
    BY <1>6, <2>2, <2>3
  <2>5. file' \subseteq Turns
    BY <1>13, <2>1 DEF SaveCase, Session
  <2> QED
    BY <1>2, <1>13, <2>4, <2>5 DEF SaveCase
<1>14. ASSUME NEW v \in Reviewers, MarkPromoted(v) PROVE AllOK
  <2>1. review[v] \in Session /\ review[v].turn \in Turns
    BY <1>2, <1>14 DEF MarkPromoted
  <2> DEFINE session == [Away EXCEPT !.pc = "listed", !.todo = review[v].todo \ {review[v].turn}]
  <2>2. session \in Session /\ session.pc = "listed"
    BY <1>3, <2>1 DEF Session, Away
  <2>3. review' = [review EXCEPT ![v] = session]
    BY <1>14 DEF MarkPromoted
  <2> HIDE DEF session
  <2>4. ReviewOK
    BY <1>6, <2>2, <2>3
  <2> QED
    BY <1>2, <1>14, <2>1, <2>4, MarkedType DEF MarkPromoted
<1>15. ASSUME NEW v \in Reviewers, Leave(v) PROVE AllOK
  BY <1>2, <1>3, <1>6, <1>15 DEF Leave
<1>16. CASE UNCHANGED feedbackVars
  BY <1>2, <1>5, <1>16 DEF feedbackVars
<1> QED
  BY <1>7, <1>8, <1>9, <1>10, <1>11, <1>12, <1>13, <1>14, <1>15, <1>16
  DEF Next, FeedbackStep, BuildGolden, vars

\* Every variable keeps its type.
THEOREM FeedbackTyping == Spec => []FeedbackTypeOK
<1>1. FeedbackInv => FeedbackTypeOK
  BY DEF FeedbackInv
<1> QED
  BY FeedbackTypeInit, FeedbackTypeStep, <1>1, PTL DEF Spec

\* What a reviewer does between two evaluations is one of the changes of the
\* set that EvalRun allows for: all proved of it holds here.
THEOREM FeedsEvaluation == Spec => EvalSpec
<1>1. Init => EvalInit
  BY DEF Init
<1> QED
  BY FeedbackTypeInit, FeedbackTypeStep, EvalStep, <1>1, PTL DEF Spec, EvalSpec

-----------------------------------------------------------------------------
(* Promotion *)

LEMMA ReviewedStep ==
    ASSUME \A v, w \in Reviewers : v = w, FeedbackInv, Reviewed, [Next]_vars
    PROVE  Reviewed'
<1> USE FeedbackAssumption
<1>1. FeedbackInv'
  BY FeedbackTypeStep
<1>2. /\ flags \in Seq(Flag) /\ Len(flags) \in Nat
      /\ flags' \in Seq(Flag) /\ Len(flags') \in Nat
      /\ rater \in [Raters -> [turn : Turns \cup {None}, row : 0..MaxFlags]]
      /\ review \in [Reviewers -> Session]
      /\ \A v \in Reviewers : review[v].pc \in {"read", "saved"} => review[v].turn \in Turns
  BY <1>1 DEF FeedbackInv, FeedbackTypeOK, Session, SessionsHaveTurns
<1>3. ASSUME UNCHANGED flags, file \subseteq file' PROVE PromotedHasCase'
  BY <1>3 DEF Reviewed, PromotedHasCase
<1>4. ASSUME NEW t \in Turns, NEW rating, flags' = Append(flags, Raised(t, rating)), UNCHANGED file
      PROVE  PromotedHasCase'
  BY <1>2, <1>4 DEF Reviewed, PromotedHasCase, Raised
<1>5. ASSUME NEW t \in Turns, NEW status \in {"new", "promoted", "dismissed"},
             NEW c \in Turns \cup {None}, flags' = Marked(t, status, c), UNCHANGED file,
             status = "promoted" => c \in file
      PROVE  PromotedHasCase'
  <2>1. /\ Len(flags') = Len(flags)
        /\ \A i \in 1..Len(flags) :
            \/ flags'[i] = flags[i]
            \/ flags'[i].status = status /\ flags'[i].case = c
    BY <1>2, <1>5, MarkedType
  <2> QED
    BY <1>5, <2>1 DEF Reviewed, PromotedHasCase
<1>6. ASSUME UNCHANGED <<review, file>> PROVE SessionsInOrder'
  BY <1>6 DEF Reviewed, SessionsInOrder
<1>7. ASSUME NEW v \in Reviewers, NEW session, review' = [review EXCEPT ![v] = session],
             session.pc = "read" => session.file = file',
             session.pc = "saved" => session.turn \in file'
      PROVE  SessionsInOrder'
  BY <1>2, <1>7 DEF SessionsInOrder
<1>8. Away.pc = "idle"
  BY DEF Away
<1>9. ASSUME NEW r \in Raters, NEW t \in Turns, RecordLooks(r, t) PROVE Reviewed'
  BY <1>3, <1>6, <1>9 DEF RecordLooks, Reviewed
<1>10. ASSUME NEW r \in Raters, NEW x \in Explicit, RecordWrites(r, x) PROVE Reviewed'
  <2>1. SessionsInOrder' /\ file' = file
    BY <1>6, <1>10 DEF RecordWrites
  <2>2. CASE rater[r].row # 0
    <3> DEFINE i == rater[r].row
    <3>1. flags' = [flags EXCEPT ![i] = [flags[i] EXCEPT !.rating = x]]
      BY <1>10, <2>2 DEF RecordWrites
    <3>2. CASE i \in 1..Len(flags)
      <4>1. flags[i] \in Flag
        BY <1>2, <3>2
      <4>2. /\ [flags[i] EXCEPT !.rating = x].status = flags[i].status
            /\ [flags[i] EXCEPT !.rating = x].case = flags[i].case
        BY <4>1, FlagRated
      <4>3. /\ Len(flags') = Len(flags)
            /\ \A k \in 1..Len(flags) : flags'[k].status = flags[k].status /\ flags'[k].case = flags[k].case
        BY <1>2, <3>1, <3>2, <4>2
      <4> QED
        BY <2>1, <4>3 DEF Reviewed, PromotedHasCase
    <3>3. CASE i \notin 1..Len(flags)
      <4>1. flags' = flags
        BY <1>2, <3>1, <3>3
      <4> QED
        BY <1>3, <2>1, <4>1 DEF Reviewed
    <3> QED
      BY <3>2, <3>3
  <2>3. CASE rater[r].row = 0
    <3>1. rater[r].turn \in Turns /\ flags' = Append(flags, Raised(rater[r].turn, x))
      BY <1>2, <1>10, <2>3 DEF RecordWrites
    <3> QED
      BY <1>4, <2>1, <3>1 DEF Reviewed
  <2> QED
    BY <2>2, <2>3
<1>11. ASSUME NEW t \in Turns, AutoFlag(t) PROVE Reviewed'
  BY <1>4, <1>6, <1>11 DEF AutoFlag, Reviewed
<1>12. ASSUME NEW v \in Reviewers, List(v) PROVE Reviewed'
  <2> DEFINE session == [Away EXCEPT !.pc = "listed", !.todo = Open]
  <2>1. session.pc = "listed"
    BY DEF Away
  <2>2. review' = [review EXCEPT ![v] = session] /\ UNCHANGED <<flags, file>>
    BY <1>12 DEF List
  <2> HIDE DEF session
  <2> QED
    BY <1>3, <1>7, <2>1, <2>2 DEF Reviewed
<1>13. ASSUME NEW v \in Reviewers, NEW t \in Turns, Dismiss(v, t) PROVE Reviewed'
  <2> DEFINE session == [review[v] EXCEPT !.todo = @ \ {t}]
  <2>1. session.pc = "listed"
    BY <1>2, <1>13 DEF Session, Dismiss
  <2>2. review' = [review EXCEPT ![v] = session] /\ UNCHANGED file
    BY <1>13 DEF Dismiss
  <2> HIDE DEF session
  <2>3. PromotedHasCase'
    BY <1>5, <1>13 DEF Dismiss
  <2> QED
    BY <1>7, <2>1, <2>2, <2>3 DEF Reviewed
<1>14. ASSUME NEW v \in Reviewers, NEW t \in Turns, ReadCases(v, t) PROVE Reviewed'
  <2> DEFINE session == IF t \in file THEN Away
                        ELSE [review[v] EXCEPT !.pc = "read", !.turn = t, !.file = file]
  <2>1. session.pc # "saved" /\ (session.pc = "read" => session.file = file)
    BY <1>2, <1>8 DEF Session
  <2>2. review' = [review EXCEPT ![v] = session] /\ UNCHANGED <<flags, file>>
    BY <1>14 DEF ReadCases
  <2> HIDE DEF session
  <2> QED
    BY <1>3, <1>7, <2>1, <2>2 DEF Reviewed
<1>15. ASSUME NEW v \in Reviewers, SaveCase(v) PROVE Reviewed'
  <2> DEFINE session == [review[v] EXCEPT !.pc = "saved"]
  <2>1. session.pc = "saved" /\ session.turn = review[v].turn
    BY <1>2 DEF Session
  <2>2. review' = [review EXCEPT ![v] = session] /\ UNCHANGED flags /\ file' = file \cup {review[v].turn}
    BY <1>15 DEF SaveCase, Reviewed, SessionsInOrder
  <2> HIDE DEF session
  <2> QED
    BY <1>3, <1>7, <2>1, <2>2 DEF Reviewed
<1>16. ASSUME NEW v \in Reviewers, MarkPromoted(v) PROVE Reviewed'
  <2> DEFINE session == [Away EXCEPT !.pc = "listed", !.todo = review[v].todo \ {review[v].turn}]
  <2>1. session.pc = "listed"
    BY DEF Away
  <2>2. review' = [review EXCEPT ![v] = session] /\ UNCHANGED file
    BY <1>16 DEF MarkPromoted
  <2> HIDE DEF session
  <2>3. review[v].turn \in Turns /\ review[v].turn \in file
    BY <1>2, <1>16 DEF MarkPromoted, Reviewed, SessionsInOrder
  <2>4. PromotedHasCase'
    BY <1>5, <1>16, <2>3 DEF MarkPromoted
  <2> QED
    BY <1>7, <2>1, <2>2, <2>4 DEF Reviewed
<1>17. ASSUME NEW v \in Reviewers, Leave(v) PROVE Reviewed'
  BY <1>3, <1>7, <1>8, <1>17 DEF Leave, Reviewed
<1>18. CASE UNCHANGED feedbackVars
  BY <1>3, <1>6, <1>18 DEF feedbackVars, Reviewed
<1> QED
  BY <1>9, <1>10, <1>11, <1>12, <1>13, <1>14, <1>15, <1>16, <1>17, <1>18
  DEF Next, FeedbackStep, BuildGolden, vars

LEMMA ReviewedInit == Init => Reviewed
  BY FeedbackAssumption
  DEF Init, FeedbackInit, Reviewed, PromotedHasCase, SessionsInOrder, Away

\* With one reviewer at a time, as the script is used, a flag that counts as
\* promoted has its case in the file, wherever the sessions ended.
THEOREM PromotedAreFiled ==
    ASSUME \A v, w \in Reviewers : v = w PROVE Spec => []PromotedHasCase
<1>1. FeedbackInv /\ Reviewed /\ [Next]_vars => FeedbackInv' /\ Reviewed'
  BY FeedbackTypeStep, ReviewedStep
<1>2. Reviewed => PromotedHasCase
  BY DEF Reviewed
<1> QED
  BY FeedbackTypeInit, ReviewedInit, <1>1, <1>2, PTL DEF Spec

\* So a cluster is resolved only when its promoted flags have been scored.
THEOREM ResolvedIsEarned ==
    ASSUME \A v, w \in Reviewers : v = w PROVE Spec => []ResolvedWasScored
<1>1. PromotedHasCase => ResolvedWasScored
  <2> SUFFICES ASSUME PromotedHasCase, Resolved, NEW i \in 1..Len(flags), flags[i].status = "promoted"
               PROVE  \E r \in 1..Len(runs) : flags[i].case \in Scored(runs[r])
    BY DEF ResolvedWasScored
  <2>1. flags[i].case \in LatestPass
    BY DEF PromotedHasCase, Resolved
  <2>2. PICK r \in 1..Len(runs) : flags[i].case \in Passes(runs[r])
    BY <2>1 DEF LatestPass
  <2> QED
    BY <2>2 DEF Passes, Scored
<1>2. Spec => []PromotedHasCase
  BY PromotedAreFiled
<1> QED
  BY <1>1, <1>2, PTL
=============================================================================
