------------------------------ MODULE Calendar -----------------------------
(***************************************************************************)
(* __secs_to_tm and localtime_r (libc/src/localtime.c): the date of a      *)
(* number of seconds since 1970.  Division and remainder are C's, which    *)
(* truncate towards zero.  The fields of struct tm that are always the     *)
(* same (tm_isdst, tm_gmtoff, tm_zone) are left out.                       *)
(***************************************************************************)
EXTENDS Integers, Sequences

CONSTANTS
  MINUTE, HOUR, DAY,   \* 60, 3600 and 86400 seconds
  INT_MAX,             \* 2^31 - 1; an int goes down to -INT_MAX - 1
  Times                \* the times a program asks for, before and after 1970

ASSUME CalendarAssumption ==
  /\ {MINUTE, HOUR, DAY} \subseteq Nat \ {0}
  /\ INT_MAX \in Nat /\ INT_MAX >= 40000
  /\ HOUR % MINUTE = 0 /\ DAY % HOUR = 0
  /\ Times \subseteq Int

VARIABLES
  timer,   \* the argument of localtime_r
  tm,      \* what it fills in
  ret      \* "none" before the call, then "tm", or "EOVERFLOW" for the error

calendarVars == <<timer, tm, ret>>

INT_MIN == -INT_MAX - 1

Quo(x, y) == IF x >= 0 THEN x \div y ELSE -((-x) \div y)
Rem(x, y) == x - y * Quo(x, y)

\* 2000-03-01, right after the leap day that ends a cycle of 400 years.
LEAPOCH == DAY * (10957 + 31 + 29)
DAYS_PER_400Y == 365 * 400 + 97
DAYS_PER_100Y == 365 * 100 + 24
DAYS_PER_4Y == 365 * 4 + 1

\* From March to February.
days_in_month == <<31, 30, 31, 30, 31, 31, 30, 31, 30, 31, 31, 29>>

\* The days of a year, from March on, before month m.
DaysBefore[m \in 0 .. 12] ==
  IF m = 0 THEN 0 ELSE DaysBefore[m - 1] + days_in_month[m]

\* The month of a day of the year, counted from March, and the day in it.
MonthOf(day) ==
  CHOOSE m \in 0 .. 11 : DaysBefore[m] <= day /\ day < DaysBefore[m + 1]

\* The whole days of a time that is seconds after LEAPOCH, rounded down, and
\* the rest.
Days(secs) == Quo(secs, DAY) - (IF Rem(secs, DAY) < 0 THEN 1 ELSE 0)
Rest(secs) == Rem(secs, DAY) + (IF Rem(secs, DAY) < 0 THEN DAY ELSE 0)

Weekday(days) ==
  LET w == Rem(3 + days, 7) IN IF w < 0 THEN w + 7 ELSE w

Cycle(days) ==
  Quo(days, DAYS_PER_400Y) - (IF Rem(days, DAYS_PER_400Y) < 0 THEN 1 ELSE 0)
InCycle(days) ==
  Rem(days, DAYS_PER_400Y)
    + (IF Rem(days, DAYS_PER_400Y) < 0 THEN DAYS_PER_400Y ELSE 0)

\* Faulty: a leap day that ends a cycle begins a period of its own.
PeriodsUncut(days, length, last) == days \div length

\* How many whole periods lie before a day; the last period of a longer one
\* ends with its leap day and is not left for it.
Periods(days, length, last) ==
  LET n == days \div length IN IF n = last + 1 THEN last ELSE n

\* What __secs_to_tm makes of t, and whether it returns -1.
SecsToTm(t) ==
  LET days     == Days(t - LEAPOCH)
      remsecs  == Rest(t - LEAPOCH)
      inCycle  == InCycle(days)
      c_cycles == Periods(inCycle, DAYS_PER_100Y, 3)
      in100    == inCycle - c_cycles * DAYS_PER_100Y
      q_cycles == Periods(in100, DAYS_PER_4Y, 24)
      in4      == in100 - q_cycles * DAYS_PER_4Y
      remyears == Periods(in4, 365, 3)
      remdays  == in4 - remyears * 365
      leap     == IF remyears = 0 /\ (q_cycles # 0 \/ c_cycles = 0) THEN 1 ELSE 0
      fromMar  == remdays + 31 + 28 + leap
      month    == MonthOf(remdays)
      years    == remyears + 4 * q_cycles + 100 * c_cycles + 400 * Cycle(days)
                    + (IF month >= 10 THEN 1 ELSE 0)
  IN [fails |-> \/ t < INT_MIN * 366 * DAY \/ t > INT_MAX * 366 * DAY
                \/ years + 100 > INT_MAX \/ years + 100 < INT_MIN,
      tm |-> [tm_year |-> years + 100,
              tm_mon  |-> (IF month >= 10 THEN month - 12 ELSE month) + 2,
              tm_mday |-> remdays - DaysBefore[month] + 1,
              tm_wday |-> Weekday(days),
              tm_yday |-> IF fromMar >= 365 + leap THEN fromMar - (365 + leap)
                                                   ELSE fromMar,
              tm_hour |-> remsecs \div HOUR,
              tm_min  |-> (remsecs \div MINUTE) % (HOUR \div MINUTE),
              tm_sec  |-> remsecs % MINUTE]]

CalendarInit ==
  /\ timer = 0
  /\ tm = [tm_year |-> 0, tm_mon |-> 0, tm_mday |-> 0, tm_wday |-> 0,
           tm_yday |-> 0, tm_hour |-> 0, tm_min |-> 0, tm_sec |-> 0]
  /\ ret = "none"

\* localtime_r: on an error the fields stay as they are.
Localtime(t) ==
  /\ timer' = t
  /\ LET r == SecsToTm(t) IN
     /\ tm' = IF r.fails THEN tm ELSE r.tm
     /\ ret' = IF r.fails THEN "EOVERFLOW" ELSE "tm"

\* One call.
CalendarNext == ret = "none" /\ \E t \in Times : Localtime(t)

CalendarSpec == CalendarInit /\ [][CalendarNext]_calendarVars

-----------------------------------------------------------------------------
(* The Gregorian calendar, which counts from year 1 and January on.        *)

IsLeap(y) == y % 4 = 0 /\ (y % 100 # 0 \/ y % 400 = 0)
DaysOfMonth(y) == [m \in 1 .. 12 |->
  IF m = 2 THEN IF IsLeap(y) THEN 29 ELSE 28
  ELSE IF m \in {4, 6, 9, 11} THEN 30 ELSE 31]

\* The days of year y before month m.
DayOfYear(y, m) ==
  LET before[k \in 1 .. 12] ==
        IF k = 1 THEN 0 ELSE before[k - 1] + DaysOfMonth(y)[k - 1]
  IN before[m]

\* The number of the day, counted from 1970-01-01: 365 for every year and one
\* for every leap year since.
DayNumber(y, m, d) ==
  LET leaps(n) == (n \div 4) - (n \div 100) + (n \div 400)
  IN 365 * (y - 1970) + leaps(y - 1) - leaps(1969) + DayOfYear(y, m) + d - 1

YearBegins(y) == DayNumber(y, 1, 1) * DAY

\* The date and time is the one the seconds stand for in the Gregorian calendar,
\* before and after 1970, in common years, leap years and centuries and on
\* their last and first days, with the weekday and the day of the year; the
\* error comes exactly when tm_year has no int for the year.
DateIsTrue ==
  /\ ret = "EOVERFLOW" <=>
       /\ ret # "none"
       /\ timer \notin YearBegins(INT_MIN + 1900) .. YearBegins(INT_MAX + 1901) - 1
  /\ ret = "tm" =>
       LET y == tm.tm_year + 1900
           m == tm.tm_mon + 1
           n == DayNumber(y, m, tm.tm_mday)
           time == HOUR * tm.tm_hour + MINUTE * tm.tm_min + tm.tm_sec
       IN /\ m \in 1 .. 12 /\ tm.tm_mday \in 1 .. DaysOfMonth(y)[m]
          /\ tm.tm_hour \in 0 .. DAY \div HOUR - 1
          /\ tm.tm_min \in 0 .. HOUR \div MINUTE - 1
          /\ tm.tm_sec \in 0 .. MINUTE - 1
          /\ timer = n * DAY + time
          /\ tm.tm_wday = (4 + n) % 7
          /\ tm.tm_yday = n - DayNumber(y, 1, 1)
=============================================================================
