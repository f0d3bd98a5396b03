---------------------------- MODULE DateRanges ----------------------------
(***************************************************************************)
(* An iteration over a DayRange, WeekRange, MonthRange or YearRange        *)
(* (lib/date_calendar/src/calendar_iterators.dart), on top of the object   *)
(* of GregorianCalendar: while a range is iterated, date is the iterator's *)
(* _nextDate, and each moveNext() calls one of the object's methods on it. *)
(***************************************************************************)
EXTENDS GregorianCalendar

CONSTANTS
    RangeEnds,      \* bound: the dates ranges end at
    MaxDates        \* bound: about how many dates a range has

ASSUME RangesAssumption ==
    /\ \A e \in RangeEnds : e \in [year: Int, month: 0 .. 11, day: Int] /\ IsDate(e)
    /\ MaxDates \in Nat

VARIABLE
    range   \* the iteration: its range, _current and last answer; start and
            \* count, the number of dates it has given, are history

rangeVars == <<vars, range>>

NoRange == [unit |-> "none"]
Iterating == range # NoRange

\* The method each kind of range advances with.
Incrementer(unit, n) ==
    \/ unit = "day"   /\ AddDays(n)
    \/ unit = "week"  /\ AddDays(7 * n)
    \/ unit = "month" /\ AddMonths(n)
    \/ unit = "year"  /\ AddYears(n)

\* What it may be given: positive numbers.  The constructor refuses 0; a
\* negative one would walk away from the end.
Increments(unit) ==
    CASE unit = "day"   -> {n \in DayShifts : n > 0}
      [] unit = "week"  -> {n \in 1 .. 52 : 7 * n \in DayShifts}
      [] unit = "month" -> {n \in MonthShifts : n > 0}
      [] unit = "year"  -> {n \in YearShifts : n > 0}

Units == {"day", "week", "month", "year"}

\* The bound: iterating from start to end stays in Years, the step beyond the
\* end included.
RoomUpTo(start, end) ==
    Room(start.year) /\ \A y \in 0 .. 2 : start.year + y \in Years /\ end.year + y \in Years

\* At most so many days between two dates of a range.
UnitDays(unit) ==
    CASE unit = "day" -> 1 [] unit = "week" -> 7 [] unit = "month" -> 31 [] unit = "year" -> 366

\* A range from the date at hand, and its iterator: _current and _nextDate are
\* the start.  An end before the start makes a range without dates.
Iterate(unit, n, end) ==
    /\ pc = "ready" /\ ~Iterating
    /\ RoomUpTo(date, end)
    /\ DayCount(end) - DayCount(date) \in -UnitDays(unit) .. MaxDates * n * UnitDays(unit)
    /\ range' = [unit |-> unit, increment |-> n, start |-> date, end |-> end,
                 current |-> date, count |-> 0, more |-> TRUE]
    /\ UNCHANGED vars

\* Mutant: the end is left out.
BeforeEnd(current, end) == ToInt(current) < ToInt(end)

\* _current!.compareTo(_end!) <= 0
UpToEnd(current, end) == ToInt(current) <= ToInt(end)

\* Mutant: the advanced copy is dropped (and the same date counted once).
MoveNowhere ==
    /\ Iterating /\ range.more /\ pc = "ready"
    /\ LET current == Copy(date)
           more == UpToEnd(current, range.end)
       IN  range' = [range EXCEPT !.current = current, !.more = more]
    /\ UNCHANGED vars

\* moveNext(), which a loop over the range calls as long as it answers true.
MoveNext ==
    /\ Iterating /\ range.more
    /\ LET current == Copy(date)
           more == UpToEnd(current, range.end)
       IN  range' = [range EXCEPT !.current = current, !.more = more,
                                  !.count = @ + (IF more THEN 1 ELSE 0)]
    /\ Incrementer(range.unit, range.increment)

\* The loop over the range is left, at its end.  What date goes on from is one
\* of the dates New makes.
Leave ==
    /\ Iterating /\ ~range.more /\ pc = "ready"
    /\ range' = NoRange
    /\ UNCHANGED vars

RangeInit == Init /\ range = NoRange

RangeNext ==
    \/ Next /\ (pc = "ready" => ~Iterating) /\ UNCHANGED range
    \/ \E unit \in Units, end \in RangeEnds : \E n \in Increments(unit) : Iterate(unit, n, end)
    \/ MoveNext
    \/ Leave

RangeSpec == RangeInit /\ [][RangeNext]_rangeVars

\* Methods and loops run to their end.
FairRangeSpec ==
    /\ RangeSpec
    /\ WF_rangeVars(Loops /\ UNCHANGED range)
    /\ WF_rangeVars(MoveNext)

-----------------------------------------------------------------------------
(* Properties. *)

MonthIndex(d) == 12 * d.year + d.month

\* A date of the month that a first date on the 28th or later may lead to: the
\* same day or, as months are clamped, one from the 28th on.
LateDay(day) == day >= 27

\* Where the date lies that is k steps after the first.  Months keep a day that
\* every month has.  About a later one code and documentation disagree: the
\* comment of addMonths (gregorian_calendar.dart:167-170) keeps a day that is
\* valid in the month it lands on, the code (177, 190) moves a last day to a
\* last day, February 28 to March 31; here it need only stay a late day.  Years
\* keep the day, or have left February 29 for March 1.
IsStep(current, first, unit, k) ==
    CASE unit = "day"   -> DayCount(current) = DayCount(first) + k
      [] unit = "week"  -> DayCount(current) = DayCount(first) + 7 * k
      [] unit = "month" -> /\ MonthIndex(current) = MonthIndex(first) + k
                           /\ \/ current.day = first.day
                              \/ LateDay(first.day) /\ LateDay(current.day)
      [] unit = "year"  -> /\ current.year = first.year + k
                           /\ \/ current.month = first.month /\ current.day = first.day
                              \/ first.month = 1 /\ first.day = 28
                                   /\ current.month = 2 /\ current.day = 0

\* A range gives the dates that lie its increment apart, all of them up to its
\* end and none beyond, over short months and common years; _nextDate starts
\* from the date before, so that a difference would add up.  (Which late day a
\* month ends up on is left open: the comment of addMonths contradicts the code
\* there, see IsStep.)
RangeExact ==
    (Iterating /\ (range.count > 0 \/ ~range.more)) =>
       /\ IsDate(range.current)
       /\ IsStep(range.current, Copy(range.start), range.unit,
                 range.increment * (IF range.more THEN range.count - 1 ELSE range.count))
       /\ range.more <=> DayCount(range.current) <= DayCount(range.end)

\* Every date after the first is later than the one before: no date is given
\* twice, and each brings the loop nearer to its end.
RangeAscends ==
    [][(MoveNext /\ range.count > 0) => DayCount(range.current) < DayCount(range'.current)]_rangeVars

\* Whatever its start, end and increment, a loop over a range comes to its end.
RangesEnd == Iterating ~> (Iterating => ~range.more)
=============================================================================
