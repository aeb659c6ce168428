------------------------------ MODULE Periods -------------------------------
(***************************************************************************)
(* Time in code: the relative periods of agent/calendar.py, and the        *)
(* sliding window of api/security.py.  A day is its number; the constants  *)
(* say how long the months are.                                            *)
(***************************************************************************)
EXTENDS Integers, Sequences, FiniteSets, FiniteSetsExt, SequencesExt

CONSTANTS
    MonthLengths,   \* a sequence of months; the first is January
    FirstWeekday,   \* weekday of day 1, Monday being 0
    Limit, Window   \* the limiter's

ASSUME PeriodsAssumption ==
    /\ MonthLengths \in Seq(28..31)
    /\ FirstWeekday \in 0..6
    /\ Limit \in Nat \ {0} /\ Window \in Nat \ {0}

-----------------------------------------------------------------------------
(* Calendar.  cfg: rolling and week_start for "this week", year_start for    *)
(* the month the year begins with.                                           *)

\* The first day of the n-th month of all.
StartOf[n \in 1..Len(MonthLengths) + 1] == IF n = 1 THEN 1 ELSE StartOf[n - 1] + MonthLengths[n - 1]

Days == 1..StartOf[Len(MonthLengths) + 1] - 1

MonthAt ==
    [d \in Days |-> CHOOSE n \in 1..Len(MonthLengths) : StartOf[n] <= d /\ d < StartOf[n + 1]]

Weekday(d) == (FirstWeekday + d - 1) % 7

\* _month_start.
MonthStart(d, back) == StartOf[MonthAt[d] - back]

\* Months into the configured year.
Offset(d, cfg) == (MonthAt[d] - cfg.yearStart) % 12

WeekStart(d, cfg) ==
    IF cfg.rolling THEN d - 6 ELSE d - ((Weekday(d) - cfg.weekStart) % 7)

\* Mutant: quarters of the calendar year, whatever year is configured.
MutQuarterStart(d, cfg) == MonthStart(d, (MonthAt[d] - 1) % 3)

QuarterStart(d, cfg) == MonthStart(d, Offset(d, cfg) % 3)

\* ranges: the period that d is in, and the one before.
ThisPeriod(d, cfg, unit) ==
    <<CASE unit = "week" -> WeekStart(d, cfg)
        [] unit = "month" -> MonthStart(d, 0)
        [] unit = "quarter" -> QuarterStart(d, cfg)
        [] unit = "year" -> MonthStart(d, Offset(d, cfg)), d>>

LastPeriod(d, cfg, unit) ==
    CASE unit = "week" -> <<WeekStart(d, cfg) - 7, WeekStart(d, cfg) - 1>>
      [] unit = "month" -> <<MonthStart(d, 1), MonthStart(d, 0) - 1>>
      [] unit = "quarter" -> <<MonthStart(QuarterStart(d, cfg), 3), QuarterStart(d, cfg) - 1>>

\* quarter_label: the quarter, and the year by the one it starts in.
Label(d, cfg) ==
    LET month == ((MonthAt[d] - 1) % 12) + 1
        year == (MonthAt[d] - 1) \div 12
    IN  <<(Offset(d, cfg) \div 3) + 1, IF month >= cfg.yearStart THEN year ELSE year - 1>>

\* The periods of a day are those it is in: the last one ends where this one
\* begins, nothing counted twice or left out; a week is seven days; the
\* quarter's days are those of one label, the one Plan is shown, and those of
\* the last quarter are all the days of another.
PeriodsFitTogether(d, cfg) ==
    LET days(p) == p[1]..p[2]
        near == (d - 190..d + 95) \cap Days
        labelled(label) == {e \in near : Label(e, cfg) = label}
        last == LastPeriod(d, cfg, "quarter")
    IN  /\ \A unit \in {"week", "month", "quarter"} :
            /\ d \in days(ThisPeriod(d, cfg, unit))
            /\ LastPeriod(d, cfg, unit)[2] + 1 = ThisPeriod(d, cfg, unit)[1]
        /\ Cardinality(days(LastPeriod(d, cfg, "week"))) = 7
        /\ Cardinality(days(ThisPeriod(d, cfg, "week"))) <= 7
        /\ days(ThisPeriod(d, cfg, "quarter")) = {e \in labelled(Label(d, cfg)) : e <= d}
        /\ days(last) = labelled(Label(last[1], cfg))

-----------------------------------------------------------------------------
(* SlidingWindowLimiter.  A sequence of calls of one client, by their times. *)

\* Mutant: a call leaves the window a moment late.
MutExpired(time, now) == time < now - Window

Expired(time, now) == time <= now - Window

\* check, after the calls admitted so far, of which those at the front leave
\* that are too old; wait is 0 for an admitted one.
Check(admitted, now) ==
    LET n == Len(admitted)
        kept == {i \in 1..n : ~Expired(admitted[i], now)}
        calls == SubSeq(admitted, Min(kept \cup {n + 1}), n)
    IN  IF Len(calls) >= Limit THEN [calls |-> calls, wait |-> calls[1] + Window - now]
        ELSE [calls |-> Append(calls, now), wait |-> 0]

\* The deque after each number of calls.
Deques(times) ==
    LET deque[n \in 0..Len(times)] == IF n = 0 THEN <<>> ELSE Check(deque[n - 1], times[n]).calls
    IN  deque

\* What check says of each call.
Answers(times) ==
    [i \in 1..Len(times) |-> [time |-> times[i], wait |-> Check(Deques(times)[i - 1], times[i]).wait]]

\* No window ever holds more than the limit, a call is refused only when the
\* window before it is full, and one that waits as told is admitted, and not
\* a moment too late (the Retry-After of chat_rate_limit).
WindowHolds(times) ==
    LET said == Answers(times)
        inWindow(i, at) == {j \in 1..i - 1 : said[j].wait = 0 /\ said[j].time > at - Window}
    IN  \A i \in 1..Len(said) :
            /\ said[i].wait = 0 => Cardinality(inWindow(i, said[i].time)) < Limit
            /\ said[i].wait # 0 =>
                /\ Cardinality(inWindow(i, said[i].time + said[i].wait)) < Limit
                /\ Cardinality(inWindow(i, said[i].time + said[i].wait - 1)) >= Limit
=============================================================================
