------------------------------ MODULE Calendar ------------------------------
(***************************************************************************)
(* When the occurrences of a standing order fall: advanceSchedule adds the *)
(* interval to the instant that has just run, in the database.  Schedules  *)
(* models the order itself with instants of equal distance; here are the   *)
(* dates.  The time of day never changes and is left out.                  *)
(***************************************************************************)
EXTENDS Integers

CONSTANTS
  FirstYear, LastYear,  \* bound: schedules start in the first, none is followed past the last
  StartDays             \* the days of a month schedules start on

ASSUME CalendarAssumption ==
  /\ FirstYear \in Nat \ {0} /\ LastYear \in Nat /\ FirstYear <= LastYear
  /\ StartDays \subseteq 1 .. 31

VARIABLES
  kind,   \* interval_kind
  start,  \* the date it was created for
  due,    \* next_run_at
  runs    \* how often it has advanced

calendarVars == <<kind, start, due, runs>>

-----------------------------------------------------------------------------
(* Dates, as the database has them *)

Leap(y) == y % 4 = 0 /\ (y % 100 # 0 \/ y % 400 = 0)

DaysIn(y, m) == CASE m = 2 -> IF Leap(y) THEN 29 ELSE 28
                  [] m \in {4, 6, 9, 11} -> 30
                  [] OTHER -> 31

Dates(year, days) == {d \in [y: {year}, m: 1 .. 12, d: days] : d.d <= DaysIn(year, d.m)}

NextMonth(d) == IF d.m = 12 THEN [y |-> d.y + 1, m |-> 1] ELSE [y |-> d.y, m |-> d.m + 1]

\* + interval 'n days', for less than a month
PlusDays(d, n) ==
  LET n1 == NextMonth(d) IN
    IF d.d + n <= DaysIn(d.y, d.m) THEN [d EXCEPT !.d = @ + n]
    ELSE [y |-> n1.y, m |-> n1.m, d |-> d.d + n - DaysIn(d.y, d.m)]

\* + interval '1 month': the last day of a month that is too short
PlusMonth(d) ==
  LET n1 == NextMonth(d) IN
    [y |-> n1.y, m |-> n1.m,
     d |-> IF d.d <= DaysIn(n1.y, n1.m) THEN d.d ELSE DaysIn(n1.y, n1.m)]

-----------------------------------------------------------------------------

\* Mutant: a month is thirty days.
Every30Days(k, d) ==
  CASE k = "DAILY" -> PlusDays(d, 1) [] k = "WEEKLY" -> PlusDays(d, 7)
    [] k = "MONTHLY" -> PlusDays(PlusDays(d, 15), 15)

\* STEP
Step(k, d) ==
  CASE k = "DAILY" -> PlusDays(d, 1)
    [] k = "WEEKLY" -> PlusDays(d, 7)
    [] k = "MONTHLY" -> PlusMonth(d)

NoDate == [y |-> 0, m |-> 0, d |-> 0]

CalendarInit == kind = "NONE" /\ start = NoDate /\ due = NoDate /\ runs = 0

\* next_run_at is the date the owner gave.
Created(k, d) ==
  /\ kind = "NONE"
  /\ kind' = k /\ start' = d /\ due' = d
  /\ UNCHANGED runs

\* From the occurrence that ran, not from now().
Advance ==
  /\ kind # "NONE" /\ Step(kind, due).y <= LastYear
  /\ due' = Step(kind, due)
  /\ runs' = runs + 1
  /\ UNCHANGED <<kind, start>>

CalendarNext ==
  \/ \E k \in {"DAILY", "WEEKLY", "MONTHLY"}, d \in Dates(FirstYear, StartDays) : Created(k, d)
  \/ Advance

CalendarSpec == CalendarInit /\ [][CalendarNext]_calendarVars

-----------------------------------------------------------------------------
(* Properties *)

MonthNumber(d) == 12 * d.y + d.m

\* Days since the beginning of the era
DayNumber(d) ==
  LET y == IF d.m <= 2 THEN d.y - 1 ELSE d.y
      m == IF d.m <= 2 THEN d.m + 9 ELSE d.m - 3
  IN  365 * y + y \div 4 - y \div 100 + y \div 400 + (153 * m + 2) \div 5 + d.d

\* The months from the first to the n-th occurrence, as dates
MonthsPassed ==
  {d \in [y: FirstYear .. LastYear, m: 1 .. 12] :
     MonthNumber(d) \in MonthNumber(start) .. MonthNumber(due)}

\* However often it ran, and over the ends of months, leap days and years: the n-th
\* occurrence of a daily or weekly order is exactly n or 7n days after the first; that
\* of a monthly one is in the n-th month, on the day it was created for, or on the last
\* day of the shortest month since if that is earlier.
CalendarKept ==
  CASE kind = "NONE" -> runs = 0
    [] kind = "DAILY" -> DayNumber(due) = DayNumber(start) + runs
    [] kind = "WEEKLY" -> DayNumber(due) = DayNumber(start) + 7 * runs
    [] kind = "MONTHLY" ->
         /\ MonthNumber(due) = MonthNumber(start) + runs
         /\ due.d <= start.d
         /\ \A m \in MonthsPassed : due.d <= DaysIn(m.y, m.m)
         /\ due.d = start.d \/ \E m \in MonthsPassed : due.d = DaysIn(m.y, m.m)

\* "A monthly rent transfer must stay on its day of the month" (schedule.repo.ts:223-224),
\* or on the last day of a month that does not have it.
StaysOnItsDay ==
  kind = "MONTHLY" =>
    due.d = IF start.d <= DaysIn(due.y, due.m) THEN start.d ELSE DaysIn(due.y, due.m)
=============================================================================
