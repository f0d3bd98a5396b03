------------------------- MODULE GregorianCalendar -------------------------
(***************************************************************************)
(* One GregorianCalendar object through its constructor,                   *)
(* getWeekdaysFromWeek, addDays, addWeeks, addMonths and addYears          *)
(* (lib/date_calendar/src/gregorian_calendar.dart), with each turn of      *)
(* _addDays' loops a step.  Each method works on a copy; date is the       *)
(* latest.                                                                 *)
(***************************************************************************)
EXTENDS GregorianDates

CONSTANTS
    Years,          \* bound: operations stay within these years
    DayNumbers,     \* days given to the constructor
    DayShifts,      \* numbers given to addDays, at most a year
    MonthShifts,    \* numbers given to addMonths, at most a year
    YearShifts      \* numbers given to addYears

ASSUME CalendarAssumption ==
    /\ Years \subseteq Nat /\ DayNumbers \subseteq Int
    /\ DayShifts \subseteq Int /\ MonthShifts \subseteq Int /\ YearShifts \subseteq Int

VARIABLES
    date,   \* the object's fields
    pc,     \* "ready", or inside "_addDays"
    due     \* history: the day count the operation has to reach

vars == <<date, pc, due>>

\* The bound: a year's room on both sides.
Room(y) == {y - 1, y, y + 1} \subseteq Years

\* Null or 0 means 1.
OrFirst(number) == IF number = 0 THEN 1 ELSE number

\* The constructor up to _addDays(day - 1).
New(y, m, d) ==
    /\ pc = "ready" /\ Room(y)
    /\ LET first == ShiftMonths(Date(y, 0, 0), OrFirst(m) - 1)
       IN  date' = [first EXCEPT !.day = OrFirst(d) - 1]
    /\ pc' = "_addDays"
    /\ due' = DayCount(date')

\* getWeekdaysFromWeek, for one weekday of its mask; the weekday of the date
\* itself gives the date back.
WeekdayFromWeek(weekday) ==
    /\ weekday # Weekday(date)
    /\ New(date.year, date.month + 1, NumberInWeek(date, weekday))

\* addDays(n), and addWeeks(n / 7): a copy with n added to _day, then the loops.
AddDays(n) ==
    /\ pc = "ready" /\ Room(date.year)
    /\ LET copied == Copy(date) IN date' = [copied EXCEPT !.day = copied.day + n]
    /\ pc' = "_addDays"
    /\ due' = due + n

\* Mutant: the length of the month is taken before the step back.
BorrowSameMonth ==
    /\ pc = "_addDays" /\ date.day < 0
    /\ date' = [ShiftMonths(date, -1) EXCEPT !.day = date.day + Length(date)]
    /\ UNCHANGED <<pc, due>>

\* Mutant: the first of the month counts as before it.
BorrowAtFirst ==
    /\ pc = "_addDays" /\ date.day <= 0
    /\ LET before == ShiftMonths(date, -1)
       IN  date' = [before EXCEPT !.day = date.day + Length(before)]
    /\ UNCHANGED <<pc, due>>

\* while (_day < 0)
BorrowMonth ==
    /\ pc = "_addDays" /\ date.day < 0
    /\ LET before == ShiftMonths(date, -1)
       IN  date' = [before EXCEPT !.day = date.day + Length(before)]
    /\ UNCHANGED <<pc, due>>

\* while (_day > monthLength - 1)
CarryMonth ==
    /\ pc = "_addDays" /\ date.day > Length(date) - 1
    /\ date' = [ShiftMonths(date, 1) EXCEPT !.day = date.day - Length(date)]
    /\ UNCHANGED <<pc, due>>

\* Both loops are over; the check after them starts none.
DaysAdded ==
    /\ pc = "_addDays" /\ date.day \in 0 .. Length(date) - 1
    /\ pc' = "ready"
    /\ UNCHANGED <<date, due>>

AddMonths(n) ==
    /\ pc = "ready" /\ Room(date.year)
    /\ date' = ClampMonths(Copy(date), n)
    /\ due' = DayCount(date')
    /\ UNCHANGED pc

AddYears(n) ==
    /\ pc = "ready" /\ date.year + n \in Years
    /\ LET copied == Copy(date) IN date' = [copied EXCEPT !.year = copied.year + n]
    /\ due' = DayCount(date')
    /\ UNCHANGED pc

Init ==
    /\ \E y \in Years : date = Date(y, 0, 0)
    /\ pc = "ready"
    /\ due = DayCount(date)

Loops == BorrowMonth \/ CarryMonth \/ DaysAdded

Next ==
    \/ \E y \in Years, m \in 0 .. 12, d \in DayNumbers : New(y, m, d)
    \/ \E weekday \in 1 .. 7 : WeekdayFromWeek(weekday)
    \/ \E n \in DayShifts : AddDays(n)
    \/ \E n \in MonthShifts : AddMonths(n)
    \/ \E n \in YearShifts : AddYears(n)
    \/ Loops

Spec == Init /\ [][Next]_vars

\* A method runs to its end.
FairSpec == Spec /\ WF_vars(Loops)

-----------------------------------------------------------------------------
(* Properties. *)

\* Every variable has its type.
TypeOK ==
    /\ date \in [year: Int, month: 0 .. 11, day: Int]
    /\ pc \in {"ready", "_addDays"}
    /\ due \in Int

\* Carrying and borrowing months neither gains nor loses a day: addDays(n)
\* ends n days after the date it started from, over leap days, centuries and
\* the turn of years.
DaysExact == DayCount(date) = due

\* Between operations the object is a date, but for February 29 of a common
\* year, which addYears leaves.
AlmostDate == pc = "ready" => IsDate(date) \/ IsLostLeapDay(date)

\* weekday follows the day count: the day after a Sunday is a Monday, whatever
\* month, leap year or century lies between.
WeekdayFollowsCount ==
    (pc = "ready" /\ IsDate(date) /\ date.year > 0) => Weekday(date) = WeekdayOfCount(DayCount(date))

\* dayOfYear counts the days of the year from 1, but in July, whose entry in the
\* table is one short, and in February of a leap year, to which the code adds
\* the leap day already.
DayOfYearCounts ==
    (pc = "ready" /\ IsDate(date) /\ date.month # 6 /\ ~(date.month = 1 /\ IsLeapYear(date.year)))
    => DayOfYear(date) = DayCount(date) - DaysBeforeYear(date.year) + 1

\* compareTo and == by toInt agree with the day count, over one step.
OrderFollowsCount ==
    [][(pc = "ready" /\ pc' = "ready" /\ IsDate(date) /\ IsDate(date'))
       => (ToInt(date) < ToInt(date') <=> DayCount(date) < DayCount(date'))]_vars

\* getWeekdaysFromWeek makes for the weekday it is asked for, in the same week
\* from Monday to Sunday, also over the turn of a month or year; but not when
\* its day number is 0, the last day of the month before, which the constructor
\* takes for the first of the month.
WeekKept ==
    [][\A weekday \in 1 .. 7 :
         (WeekdayFromWeek(weekday) /\ IsDate(date) /\ date.year > 0 /\ NumberInWeek(date, weekday) # 0)
         => WeekdayOfCount(due') = weekday /\ WeekOfCount(due') = WeekOfCount(due)]_vars

\* What a turn of _addDays' loops has to make smaller.
Remaining == IF date.day < 0 THEN 31 - date.day ELSE date.day

\* Each turn brings the loops nearer to their end, for stepping back as for
\* carrying on, and neither ever undoes what the other did.
LoopsShrink == [][pc = "_addDays" => pc' = "ready" \/ Remaining' < Remaining]_vars

\* The loops of _addDays end.
MethodsEnd == pc = "_addDays" ~> pc = "ready"

-----------------------------------------------------------------------------
(* What the comments say, and the code does not do. *)

\* "Represents a single day in the Gregorian Calendar".
RepresentsDay == pc = "ready" => IsDate(date)
=============================================================================
