------------------------------ MODULE Calendar ------------------------------
(***************************************************************************)
(* The month a budget is compared over: BudgetsService.getMonthRange, on   *)
(* Date.UTC as ECMAScript defines it.  An instant is a number of ticks     *)
(* since 1970; a month is numbered from 1, as in ?month=YYYY-MM.           *)
(***************************************************************************)
EXTENDS Integers

CONSTANT DayTicks   \* the milliseconds of a day

ASSUME CalendarAssumption == DayTicks \in Nat \ {0}

IsLeap(y) == y % 4 = 0 /\ (y % 100 # 0 \/ y % 400 = 0)

\* The day, counted from 1970-01-01, on which year y begins.
DayFromYear(y) ==
  365 * (y - 1970) + (y - 1969) \div 4 - (y - 1901) \div 100 + (y - 1601) \div 400

\* How many days of year y come before its month m, months counted from 0.
DaysBefore(m, y) ==
  (CASE m = 0 -> 0   [] m = 1 -> 31  [] m = 2 -> 59   [] m = 3 -> 90
     [] m = 4 -> 120 [] m = 5 -> 151 [] m = 6 -> 181  [] m = 7 -> 212
     [] m = 8 -> 243 [] m = 9 -> 273 [] m = 10 -> 304 [] m = 11 -> 334)
  + (IF m >= 2 /\ IsLeap(y) THEN 1 ELSE 0)

\* Month 12 is the first of the next year; day 0 is the day before day 1.
MakeDay(y, m, d) ==
  LET year == y + m \div 12
  IN  DayFromYear(year) + DaysBefore(m % 12, year) + d - 1

\* Date.UTC takes the years 0 to 99 for those of the twentieth century.
FullYear(y) == IF y \in 0..99 THEN 1900 + y ELSE y

DateUTC(y, m, d, tick) == MakeDay(FullYear(y), m, d) * DayTicks + tick

getMonthRange(y, m) == [from |-> DateUTC(y, m - 1, 1, 0),
                        to   |-> DateUTC(y, m, 0, DayTicks - 1)]

-----------------------------------------------------------------------------
\* getUTCFullYear and getUTCMonth: the month an instant lies in, computed the
\* other way round, from the day, in years that begin in March and cycles of
\* 400 years.
MonthOf(t) ==
  LET day    == t \div DayTicks + 719468
      cycle  == day \div 146097
      inCycle == day % 146097
      yearOfCycle == (inCycle - inCycle \div 1460 + inCycle \div 36524
                        - inCycle \div 146096) \div 365
      inYear == inCycle - (365 * yearOfCycle + yearOfCycle \div 4
                             - yearOfCycle \div 100)
      fromMarch == (5 * inYear + 2) \div 153
      month  == IF fromMarch < 10 THEN fromMarch + 3 ELSE fromMarch - 9
      year   == yearOfCycle + 400 * cycle
  IN  [year |-> IF month <= 2 THEN year + 1 ELSE year, month |-> month]

getCurrentMonthRange(now) == getMonthRange(MonthOf(now).year, MonthOf(now).month)
=============================================================================
