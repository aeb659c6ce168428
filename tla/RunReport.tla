------------------------------ MODULE RunReport ------------------------------
(***************************************************************************)
(* What is made of the results of a run (build_report and diff_runs of     *)
(* evaluation/runner.py) and what the program that made them exits with    *)
(* (scripts/run_eval.py).  A result is one case's last line: its source,   *)
(* its status and whether it passes; percentages are in tenths.            *)
(***************************************************************************)
EXTENDS Integers, FiniteSets, FiniteSetsExt

Handwritten == {"adversarial", "promoted"}
NoRate == -1

Ok(results) == {r \in results : r.status = "ok"}

\* What counts: traps have rates of their own.
Counted(results) == {r \in Ok(results) : r.source # "trap"}

\* _rate, rounded to a tenth of a percent.
Rate(rows) ==
    LET n == Cardinality(rows)
        passed == Cardinality({r \in rows : r.pass})
    IN  IF n = 0 THEN NoRate ELSE (2000 * passed + n) \div (2 * n)

Rates(results) ==
    {Rate({r \in Counted(results) : r.source = "synthetic"}),
     Rate({r \in Counted(results) : r.source \in Handwritten})} \ {NoRate}

\* Mutant: the better rate makes the headline.
MutHeadline(results) == IF Rates(results) = {} THEN NoRate ELSE Max(Rates(results))

\* The headline is the lower of the two rates.
Headline(results) == IF Rates(results) = {} THEN NoRate ELSE Min(Rates(results))

Complete(results, cases, stopped) == Cardinality(Ok(results)) = Cardinality(cases) /\ ~stopped

Failures(results) == {r.id : r \in {s \in Counted(results) : ~s.pass}}

\* diff_runs: only what both runs scored is compared.
Turned(current, previous, from) ==
    {r.id : r \in {s \in Ok(current) :
        \E p \in Ok(previous) : p.id = s.id /\ p.pass = from /\ s.pass # from}}

Regressions(current, previous) == Turned(current, previous, TRUE)
Fixed(current, previous) == Turned(current, previous, FALSE)

\* main, with and without --gate.
ExitCode(results, previous, cases, stopped, gate) ==
    IF gate /\ ~Complete(results, cases, stopped) THEN 3
    ELSE IF gate THEN (IF Failures(results) # {} THEN 1 ELSE 0)
    ELSE IF Regressions(results, previous) # {} THEN 1 ELSE 0

-----------------------------------------------------------------------------
(* Property of two runs *)

\* The gate opens only when every case was scored and every case that counts
\* passes ("cannot pass what did not run"); without it no case passes in the
\* previous run and fails now unseen; regressions one way are fixes the other;
\* and the headline is not above the rate of its sources together.
ReportIsFair(results, previous, cases, stopped) ==
    LET both == {r \in Counted(results) : r.source \in Handwritten \cup {"synthetic"}}
    IN  /\ ExitCode(results, previous, cases, stopped, TRUE) = 0 =>
            \A c \in cases : \E r \in results :
                r.id = c /\ r.status = "ok" /\ (r.source # "trap" => r.pass)
        /\ ExitCode(results, previous, cases, stopped, FALSE) = 0 =>
            \A r \in Ok(results), p \in Ok(previous) : r.id = p.id /\ p.pass => r.pass
        /\ Fixed(results, previous) = Regressions(previous, results)
        /\ Headline(results) <= Rate(both)
=============================================================================
