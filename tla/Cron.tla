-------------------------------- MODULE Cron --------------------------------
(***************************************************************************)
(* Cron expressions of internal/scheduler/scheduler.go: parseField,        *)
(* parseCron and cronSchedule.Next, with the calendar of Go's time         *)
(* package.  The parts of a field are records, not text.                   *)
(*                                                                         *)
(* A minute is numbered from 0001-01-01 00:00, Go's zero time, which is    *)
(* also what Next returns when it finds nothing; a time is two per minute, *)
(* on the minute or within it.  The lengths of an hour and of a day are    *)
(* parameters: the search treats all of their values alike.                *)
(***************************************************************************)
EXTENDS Integers, Sequences, FiniteSets

CONSTANTS
    MinutesPerHour, HoursPerDay

ASSUME ClockAssumption == MinutesPerHour \in Nat \ {0} /\ HoursPerDay \in Nat \ {0}

MinutesPerDay == MinutesPerHour * HoursPerDay

ZeroTime == 0

-----------------------------------------------------------------------------
(***************************************************************************)
(* The calendar.                                                           *)
(***************************************************************************)

AtMost(a, b) == IF a < b THEN a ELSE b

IsLeap(y) == y % 4 = 0 /\ (y % 100 # 0 \/ y % 400 = 0)

DaysIn(y, m) ==
    IF m = 2 THEN (IF IsLeap(y) THEN 29 ELSE 28)
    ELSE IF m \in {4, 6, 9, 11} THEN 30 ELSE 31

\* The day of the year, from 0, on which month m begins.
MonthStart(y, m) ==
    <<0, 31, 59, 90, 120, 151, 181, 212, 243, 273, 304, 334>>[m]
      + IF m > 2 /\ IsLeap(y) THEN 1 ELSE 0

\* The month of a day of the year.
MonthOf(y, yday) ==
    CHOOSE m \in 1..12 : MonthStart(y, m) <= yday /\ yday < MonthStart(y, m) + DaysIn(y, m)

\* The year of day n and the day of that year, from 0: cycles of 400, 100, 4 and 1
\* years.
YearDay(n) ==
    LET r400 == n % 146097
        c    == AtMost(r400 \div 36524, 3)
        r100 == r400 - 36524 * c
        r4   == r100 % 1461
        a    == AtMost(r4 \div 365, 3)
    IN [year |-> 400 * (n \div 146097) + 100 * c + 4 * (r100 \div 1461) + a + 1,
        yday |-> r4 - 365 * a]

Date(n) ==
    LET d == YearDay(n)
        m == MonthOf(d.year, d.yday)
    IN [year |-> d.year, month |-> m, day |-> d.yday - MonthStart(d.year, m) + 1]

\* The day number of a date, for the constants of an instance.
DayOf(y, m, d) ==
    365 * (y - 1) + (y - 1) \div 4 - (y - 1) \div 100 + (y - 1) \div 400
      + MonthStart(y, m) + d - 1

\* 0001-01-01 was a Monday.
Weekday(n) == (n + 1) % 7

DayIn(t) == t \div MinutesPerDay
Hour(t) == (t % MinutesPerDay) \div MinutesPerHour
Minute(t) == t % MinutesPerHour

-----------------------------------------------------------------------------
(***************************************************************************)
(* Parsing.                                                                *)
(***************************************************************************)

\* A part of a field: "*", "*/n", "lo-hi" or "n".
Invalid(p, min, max) ==
    \/ p.form = "step" /\ p.n <= 0
    \/ p.form = "range" /\ (p.lo < min \/ p.hi > max \/ p.lo > p.hi)
    \/ p.form = "value" /\ p.n \notin min..max

Values(p, min, max) ==
    CASE p.form = "all"   -> min..max
      [] p.form = "step"  -> {v \in min..max : (v - min) % p.n = 0}
      [] p.form = "range" -> p.lo .. p.hi
      [] p.form = "value" -> {p.n}

\* The bounds of the five fields.
FieldMin == [minutes |-> 0, hours |-> 0, doms |-> 1, months |-> 1, dows |-> 0]
FieldMax == [minutes |-> MinutesPerHour - 1, hours |-> HoursPerDay - 1,
             doms |-> 31, months |-> 12, dows |-> 6]

\* parseCron: an expression is a set of parts for each field.
ValidCron(expr) ==
    \A f \in DOMAIN FieldMin : \A p \in expr[f] : ~Invalid(p, FieldMin[f], FieldMax[f])

parseCron(expr) ==
    [f \in DOMAIN FieldMin |->
       UNION {Values(p, FieldMin[f], FieldMax[f]) : p \in expr[f]}]

-----------------------------------------------------------------------------
(***************************************************************************)
(* The search.                                                             *)
(***************************************************************************)

DayMatches(c, n) ==
    /\ Date(n).month \in c.months /\ Date(n).day \in c.doms
    /\ Weekday(n) \in c.dows

Matches(c, t) ==
    DayMatches(c, DayIn(t)) /\ Hour(t) \in c.hours /\ Minute(t) \in c.minutes

\* Plausible bug: the skip to the next day keeps the time of day.
SkipKeepsTime(c, t) ==
    LET n == DayIn(t)
        d == Date(n)
    IN IF d.month \notin c.months
       THEN MinutesPerDay * (n + DaysIn(d.year, d.month) - d.day + 1)
       ELSE IF d.day \notin c.doms \/ Weekday(n) \notin c.dows THEN t + MinutesPerDay
       ELSE IF Hour(t) \notin c.hours THEN t - Minute(t) + MinutesPerHour
       ELSE t + 1

\* One turn of the loop for a minute that does not match: the start of the
\* next month, day or hour, or the next minute.
Skip(c, t) ==
    LET n == DayIn(t)
        d == Date(n)
    IN IF d.month \notin c.months
       THEN MinutesPerDay * (n + DaysIn(d.year, d.month) - d.day + 1)
       ELSE IF d.day \notin c.doms \/ Weekday(n) \notin c.dows
       THEN MinutesPerDay * (n + 1)
       ELSE IF Hour(t) \notin c.hours THEN t - Minute(t) + MinutesPerHour
       ELSE t + 1

\* The limit of the search, 4 * 365 days after `from', in half minutes.
Limit(from) == from + 2 * 4 * 365 * MinutesPerDay

\* Up to n turns of the loop, until a minute matches or the limit is reached.
Turns(c, limit) ==
    LET turns[n \in Nat] ==
          [t \in Nat |->
             IF n = 0 \/ 2 * t >= limit \/ Matches(c, t) THEN t
             ELSE IF n = 1 THEN Skip(c, t)
             ELSE turns[n - n \div 2][turns[n \div 2][t]]]
    IN turns

\* Next: the search begins with the minute after the one that `from' is in.  A
\* turn moves on by a minute at least, so these many reach the limit.
NextMinute(c, from) ==
    LET t == Turns(c, Limit(from))[4 * 365 * MinutesPerDay][from \div 2 + 1]
    IN IF 2 * t >= Limit(from) THEN ZeroTime ELSE t

=============================================================================
