--------------------------- MODULE GregorianDates ---------------------------
(***************************************************************************)
(* Dates as lib/date_calendar/src/gregorian_calendar.dart computes them,   *)
(* and the day count they are measured against.                            *)
(*                                                                         *)
(* A date is the object's three fields: _year, and _month and _day counted *)
(* from 0.  Dart's ~/ truncates towards zero; its % never is negative, like*)
(* TLA+'s.                                                                 *)
(***************************************************************************)
EXTENDS Integers

Date(y, m, d) == [year |-> y, month |-> m, day |-> d]

IsLeapYear(y) == y % 4 = 0 /\ (y % 100 # 0 \/ y % 400 = 0)

\* monthLength, of the month counted from 0.
MonthLength(y, m) ==
    IF m = 1 THEN (IF IsLeapYear(y) THEN 29 ELSE 28)
    ELSE IF m \in {3, 5, 8, 10} THEN 30 ELSE 31

Length(date) == MonthLength(date.year, date.month)

\* _daysInYearPreceedingMonth, as it stands.
DaysInYearPreceedingMonth == <<0, 31, 59, 90, 120, 151, 180, 212, 243, 273, 304, 334>>

SakamotoHelper == <<0, 3, 2, 5, 0, 3, 5, 1, 4, 6, 2, 4>>

\* ~/
TruncatedDiv(a, b) == IF a >= 0 THEN a \div b ELSE -((-a) \div b)

\* Mutant: January and February are not counted to the year before.
WeekdayOfThisYear(date) ==
    LET zeroBased == (date.year + date.year \div 4 - date.year \div 100 + date.year \div 400
                      + SakamotoHelper[date.month + 1] + date.day + 1) % 7
    IN  IF zeroBased = 0 THEN 7 ELSE zeroBased

\* weekday, by Sakamoto's method: 1 is Monday, 7 Sunday.
Weekday(date) ==
    LET y == IF date.month <= 1 THEN date.year - 1 ELSE date.year
        zeroBased == (y + TruncatedDiv(y, 4) - TruncatedDiv(y, 100) + TruncatedDiv(y, 400)
                      + SakamotoHelper[date.month + 1] + date.day + 1) % 7
    IN  IF zeroBased = 0 THEN 7 ELSE zeroBased

\* Mutant: Sunday starts the week.
NumberFromSunday(base, weekday) == base.day + 1 - (Weekday(base) % 7) + weekday

\* The day number getWeekdaysFromWeek gives the constructor.
NumberInWeek(base, weekday) == base.day + 1 - Weekday(base) + weekday

\* Mutant: the leap day is counted from April on.
DayOfYearLate(date) ==
    DaysInYearPreceedingMonth[date.month + 1] + date.day + 1
    + (IF date.month + 1 > 3 /\ IsLeapYear(date.year) THEN 1 ELSE 0)

\* dayOfYear
DayOfYear(date) ==
    DaysInYearPreceedingMonth[date.month + 1] + date.day + 1
    + (IF date.month + 1 >= 2 /\ IsLeapYear(date.year) THEN 1 ELSE 0)

\* Mutant: a month weighs as much as a tenth of a year.
NarrowToInt(date) == date.year * 1000 + (date.month + 1) * 100 + date.day + 1

\* toInt, which compareTo goes by (== compares year, month and day).
ToInt(date) == date.year * 10000 + (date.month + 1) * 100 + date.day + 1

\* Mutant: a month 12 is not carried into the year.
ThirteenMonths(date, n) ==
    LET m == date.month + n
    IN  IF m \in 0 .. 12 THEN [date EXCEPT !.month = m]
        ELSE [date EXCEPT !.year = @ + m \div 12, !.month = m % 12]

\* Mutant: December is followed by January of the same year.
ShiftInYear(date, n) == [date EXCEPT !.month = (date.month + n) % 12]

\* _addMonths without clamp: its loops move 12 months at a time into the year.
ShiftMonths(date, n) ==
    [date EXCEPT !.year = @ + (date.month + n) \div 12, !.month = (date.month + n) % 12]

IsLastDay(date) == date.day = Length(date) - 1

\* Mutant: the day is kept as it is.
ShiftOnly(date, n) == ShiftMonths(date, n)

\* _addMonths with clamp: a last day stays a last day, and a day too large for
\* the month becomes one.
ClampMonths(date, n) ==
    LET moved == ShiftMonths(date, n)
    IN  IF IsLastDay(date) \/ date.day + 1 > Length(moved)
        THEN [moved EXCEPT !.day = Length(moved) - 1] ELSE moved

IsDate(date) == date.month \in 0 .. 11 /\ date.day \in 0 .. Length(date) - 1

\* February 29 of a common year, which addYears can leave.
IsLostLeapDay(date) == date.month = 1 /\ date.day = 28 /\ ~IsLeapYear(date.year)

\* copy() goes through toInt and the constructor, which carries a day that is
\* too large into the next month.
Copy(date) == IF IsLostLeapDay(date) THEN Date(date.year, 2, 0) ELSE date

-----------------------------------------------------------------------------
(* The reference: days since January 1 of the year 0, as the Gregorian     *)
(* calendar defines them.                                                  *)

DaysBeforeYear(y) ==
    365 * y + ((y + 3) \div 4) - ((y + 99) \div 100) + ((y + 399) \div 400)

CommonDaysBeforeMonth == <<0, 31, 59, 90, 120, 151, 181, 212, 243, 273, 304, 334>>

DaysBeforeMonth(y, m) ==
    CommonDaysBeforeMonth[m + 1] + (IF m >= 2 /\ IsLeapYear(y) THEN 1 ELSE 0)

DayCount(date) == DaysBeforeYear(date.year) + DaysBeforeMonth(date.year, date.month) + date.day

\* January 1 of the year 0 was a Saturday.
WeekdayOfCount(count) == ((count + 5) % 7) + 1

\* Weeks start on Mondays.
WeekOfCount(count) == (count + 5) \div 7
=============================================================================
