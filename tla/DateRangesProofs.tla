-------------------------- MODULE DateRangesProofs --------------------------
(***************************************************************************)
(* Theorems about DateRanges: an iteration makes no step the calendar's    *)
(* object does not make, so that what GregorianCalendarProofs says of the  *)
(* object holds of iterations, and a range gives exactly its dates.        *)
(***************************************************************************)
EXTENDS DateRanges, GregorianCalendarProofs

-----------------------------------------------------------------------------
(* What a range is. *)

Ranges == [unit: Units, increment: Nat, start: Fields, end: RangeEnds,
           current: Fields, count: Nat, more: BOOLEAN]

RangeTyped ==
    Iterating => range \in Ranges /\ range.increment \in Increments(range.unit)

LEMMA RangesIterate == \A r \in Ranges : r # NoRange
<1> TAKE r \in Ranges
<1>1. r.unit \in Units /\ NoRange.unit = "none"
  BY DEF Ranges, NoRange
<1> QED BY <1>1 DEF Units

LEMMA EndsAreDates == \A e \in RangeEnds : e \in Fields /\ IsDate(e)
BY RangesAssumption DEF Fields

LEMMA IncrementsTyped ==
    ASSUME NEW unit \in Units, NEW n \in Increments(unit)
    PROVE  /\ n \in Int /\ n > 0
           /\ unit = "day" => n \in DayShifts
           /\ unit = "week" => 7 * n \in DayShifts
           /\ unit = "month" => n \in MonthShifts
           /\ unit = "year" => n \in YearShifts
BY CalendarAssumption DEF Increments, Units

\* An iterator advances with one of the object's own methods.
LEMMA IncrementerIsMethod ==
    ASSUME NEW unit \in Units, NEW n \in Increments(unit), Incrementer(unit, n)
    PROVE  Next
<1>1. CASE unit = "day" /\ AddDays(n)
  BY <1>1, IncrementsTyped DEF Next
<1>2. CASE unit = "week" /\ AddDays(7 * n)
  BY <1>2, IncrementsTyped DEF Next
<1>3. CASE unit = "month" /\ AddMonths(n)
  BY <1>3, IncrementsTyped DEF Next
<1>4. CASE unit = "year" /\ AddYears(n)
  BY <1>4, IncrementsTyped DEF Next
<1> QED BY <1>1, <1>2, <1>3, <1>4 DEF Incrementer

\* What Iterate and MoveNext make of range.
LEMMA Started ==
    ASSUME Inv, NEW unit \in Units, NEW end \in RangeEnds, NEW n \in Increments(unit),
           Iterate(unit, n, end)
    PROVE  /\ range' \in Ranges /\ range'.increment \in Increments(range'.unit)
           /\ range'.start = date /\ range'.current = date
           /\ range'.count = 0 /\ range'.more = TRUE
<1>1. date \in Fields
  BY DEF Inv, TypeOK, Fields
<1>2. n \in Nat
  BY IncrementsTyped
<1> QED BY <1>1, <1>2 DEF Iterate, Ranges

LEMMA Moved ==
    ASSUME Inv, RangeTyped, MoveNext
    PROVE  /\ range \in Ranges /\ range.increment \in Increments(range.unit)
           /\ range' \in Ranges /\ range'.increment = range.increment
           /\ range'.unit = range.unit /\ range'.start = range.start /\ range'.end = range.end
           /\ range'.current = Copy(date)
           /\ range'.more = UpToEnd(Copy(date), range.end)
           /\ range'.count = range.count + (IF range'.more THEN 1 ELSE 0)
           /\ Next
<1>1. range \in Ranges /\ range.increment \in Increments(range.unit)
  BY DEF RangeTyped, MoveNext
<1>2. Copy(date) \in Fields
  BY CopyCounts DEF Inv, TypeOK, Fields
<1> DEFINE current == Copy(date)
           more == UpToEnd(current, range.end)
<1>3. more \in BOOLEAN
  BY DEF UpToEnd
<1> DEFINE count == range.count + (IF more THEN 1 ELSE 0)
<1>4. range' = [range EXCEPT !.current = current, !.more = more, !.count = count]
  BY DEF MoveNext
<1>5. range.unit \in Units /\ Incrementer(range.unit, range.increment) /\ range.count \in Nat
  BY <1>1 DEF Ranges, MoveNext
<1>6. Next
  BY <1>1, <1>5, IncrementerIsMethod
<1>7. current \in Fields /\ count \in Nat
  BY <1>2, <1>5
<1> HIDE DEF current, more, count
<1>8. /\ range' \in Ranges
      /\ range'.increment = range.increment /\ range'.unit = range.unit
      /\ range'.start = range.start /\ range'.end = range.end
      /\ range'.current = current /\ range'.more = more /\ range'.count = count
  BY <1>1, <1>3, <1>4, <1>7 DEF Ranges
<1> QED BY <1>1, <1>6, <1>8 DEF current, more, count

-----------------------------------------------------------------------------
(* Iterations are uses of the object. *)

LEMMA RangeStep ==
    ASSUME Inv, RangeTyped, [RangeNext]_rangeVars
    PROVE  [Next]_vars /\ Inv' /\ RangeTyped'
<1> SUFFICES [Next]_vars /\ RangeTyped'
  BY NextInv
<1>1. CASE Next /\ UNCHANGED range
  BY <1>1 DEF RangeTyped, Iterating, Ranges, Increments
<1>2. ASSUME NEW unit \in Units, NEW end \in RangeEnds, NEW n \in Increments(unit),
             Iterate(unit, n, end)
      PROVE  UNCHANGED vars /\ RangeTyped'
  BY <1>2, Started DEF RangeTyped, Iterating, Iterate, Increments
<1>3. CASE MoveNext
  BY <1>3, Moved DEF RangeTyped, Iterating, Increments
<1>4. CASE Leave
  BY <1>4 DEF Leave, RangeTyped, Iterating
<1>5. CASE UNCHANGED rangeVars
  BY <1>5 DEF rangeVars, RangeTyped, Iterating, Ranges, Increments
<1> QED BY <1>1, <1>2, <1>3, <1>4, <1>5 DEF RangeNext

LEMMA RangesTyped == RangeSpec => [](Inv /\ RangeTyped)
<1>1. RangeInit => Inv /\ RangeTyped
  BY InitInv DEF RangeInit, RangeTyped, Iterating
<1> QED BY <1>1, RangeStep, PTL DEF RangeSpec

\* Every iteration over a range is a sequence of calls of the object's methods:
\* what holds of the object holds while ranges are iterated.
THEOREM RangesUseCalendar == RangeSpec => Spec
<1>1. RangeInit => Init
  BY DEF RangeInit
<1> QED BY <1>1, RangesTyped, RangeStep, PTL DEF RangeSpec, Spec

-----------------------------------------------------------------------------
(* One step of months, one step of years. *)

LEMMA DateIsCopied == \A d \in Fields : IsDate(d) => Copy(d) = d
<1> SUFFICES ASSUME NEW d \in Fields, IsDate(d), IsLostLeapDay(d) PROVE FALSE
  BY DEF Copy
<1>1. Length(d) = 28
  BY DEF IsLostLeapDay, Length, MonthLength
<1> QED BY <1>1 DEF IsDate, IsLostLeapDay

LEMMA ShiftIndexed ==
    ASSUME NEW d \in Fields, NEW n \in Int
    PROVE  MonthIndex(ShiftMonths(d, n)) = MonthIndex(d) + n
<1> DEFINE m == d.month + n
           y == d.year + (m \div 12)
           k == m % 12
<1>1. d.year \in Int /\ d.month \in Int /\ m \in Int
  BY DEF Fields
<1>2. ShiftMonths(d, n) = [d EXCEPT !.year = y, !.month = k]
  BY DEF ShiftMonths
<1> HIDE DEF m
<1>3. y \in Int /\ k \in Int /\ 12 * y + k = 12 * d.year + m
  BY <1>1
<1> HIDE DEF y, k
<1>4. ShiftMonths(d, n).year = y /\ ShiftMonths(d, n).month = k
  BY <1>2 DEF Fields
<1> QED BY <1>1, <1>3, <1>4 DEF MonthIndex, m

LEMMA StepByMonths ==
    ASSUME NEW first \in Fields, NEW c \in Fields, IsDate(c), NEW k \in Int, NEW n \in Int,
           IsStep(c, first, "month", k)
    PROVE  IsStep(Copy(ClampMonths(c, n)), first, "month", k + n)
<1> DEFINE moved == ShiftMonths(c, n)
           d == ClampMonths(c, n)
           last == [moved EXCEPT !.day = Length(moved) - 1]
<1>1. d \in Fields /\ IsDate(d) /\ Copy(d) = d
  BY ClampMakesDate, DateIsCopied
<1>2. moved \in Fields /\ moved.day = c.day /\ MonthIndex(moved) = MonthIndex(c) + n
  BY ShiftTyped, ShiftIndexed
<1>3. /\ MonthIndex(c) = MonthIndex(first) + k /\ MonthIndex(first) \in Int
      /\ c.day = first.day \/ (LateDay(first.day) /\ LateDay(c.day))
      /\ first.day \in Int /\ c.day \in Int
  BY DEF IsStep, MonthIndex, Fields
<1>3a. Length(c) \in 28 .. 31 /\ Length(moved) \in 28 .. 31
  BY <1>2, MonthFollows
<1>4. d = IF IsLastDay(c) \/ c.day + 1 > Length(moved) THEN last ELSE moved
  BY DEF ClampMonths
<1>5. last.day = Length(moved) - 1 /\ last.year = moved.year /\ last.month = moved.month
  BY <1>2 DEF Fields
<1> HIDE DEF moved, d, last
<1>6. Length(last) = Length(moved) /\ MonthIndex(last) = MonthIndex(moved)
  BY <1>5 DEF Length, MonthIndex
<1>7. MonthIndex(d) = MonthIndex(first) + (k + n)
  BY <1>2, <1>3, <1>4, <1>6
<1>8. d.day = first.day \/ (LateDay(first.day) /\ LateDay(d.day))
  <2>1. CASE IsLastDay(c) \/ c.day + 1 > Length(moved)
    <3>1. LateDay(c.day) /\ LateDay(d.day)
      BY <1>3, <1>3a, <1>4, <1>5, <2>1 DEF IsLastDay, LateDay
    <3> QED BY <1>3, <3>1
  <2>2. CASE ~(IsLastDay(c) \/ c.day + 1 > Length(moved))
    BY <1>2, <1>3, <1>4, <2>2
  <2> QED BY <2>1, <2>2
<1>9. IsStep(Copy(d), first, "month", k + n)
  BY <1>1, <1>7, <1>8 DEF IsStep
<1> QED BY <1>9 DEF d

LEMMA StepByYears ==
    ASSUME NEW first \in Fields, NEW c \in Fields, IsDate(c), NEW k \in Int, NEW n \in Int,
           IsStep(c, first, "year", k)
    PROVE  IsStep(Copy([c EXCEPT !.year = c.year + n]), first, "year", k + n)
<1> DEFINE d == [c EXCEPT !.year = c.year + n]
<1>1. /\ d \in Fields /\ (IsDate(d) \/ IsLostLeapDay(d))
      /\ d.year = c.year + n /\ d.month = c.month /\ d.day = c.day
  BY YearAlmostDate DEF Fields
<1>2. /\ c.year = first.year + k /\ first.year \in Int
      /\ \/ c.month = first.month /\ c.day = first.day
         \/ first.month = 1 /\ first.day = 28 /\ c.month = 2 /\ c.day = 0
  BY DEF IsStep, Fields
<1> HIDE DEF d
<1>3. d.year = first.year + (k + n)
  BY <1>1, <1>2
<1>4. CASE IsLostLeapDay(d)
  <2>1. Copy(d).year = d.year /\ Copy(d).month = 2 /\ Copy(d).day = 0
    BY <1>4 DEF Copy, Date
  <2>2. first.month = 1 /\ first.day = 28
    BY <1>1, <1>2, <1>4 DEF IsLostLeapDay
  <2>3. IsStep(Copy(d), first, "year", k + n)
    BY <1>3, <2>1, <2>2 DEF IsStep
  <2> QED BY <2>3 DEF d
<1>5. CASE ~IsLostLeapDay(d)
  <2>1. Copy(d) = d
    BY <1>5 DEF Copy
  <2>2. IsStep(Copy(d), first, "year", k + n)
    BY <1>1, <1>2, <1>3, <2>1 DEF IsStep
  <2> QED BY <2>2 DEF d
<1> QED BY <1>4, <1>5

\* toInt tells on which side of a range's end a date lies.
LEMMA EndByCount ==
    ASSUME NEW d \in Fields, NEW e \in Fields, IsDate(d), IsDate(e)
    PROVE  UpToEnd(d, e) <=> DayCount(d) <= DayCount(e)
<1>1. /\ ToInt(d) \in Int /\ ToInt(e) \in Int
      /\ DayCount(d) \in Int /\ DayCount(e) \in Int
  BY IntOrdersFields, CountTyped
<1>2. /\ ToInt(d) < ToInt(e) => DayCount(d) < DayCount(e)
      /\ ToInt(e) < ToInt(d) => DayCount(e) < DayCount(d)
  BY IntOrdersCount
<1>3. ToInt(d) = ToInt(e) => DayCount(d) = DayCount(e)
  BY IntOrdersFields DEF DayCount
<1> QED BY <1>1, <1>2, <1>3 DEF UpToEnd

-----------------------------------------------------------------------------
(* The invariant: what has been added since the start is the increment as  *)
(* often as moveNext() was called, in the loops of addDays too.            *)

Calls == range.count + (IF range.more THEN 0 ELSE 1)
Added == range.increment * Calls

Advanced ==
    Iterating =>
       /\ range.unit = "day" => due = DayCount(range.start) + Added
       /\ range.unit = "week" => due = DayCount(range.start) + 7 * Added
       /\ range.unit \in {"month", "year"} =>
             pc = "ready" /\ IsStep(Copy(date), Copy(range.start), range.unit, Added)

RangeInv == Inv /\ RangeTyped /\ Advanced /\ RangeExact

LEMMA AddedTyped == Iterating /\ RangeTyped => Calls \in Nat /\ Added \in Int
<1> SUFFICES ASSUME Iterating, RangeTyped PROVE Calls \in Nat /\ Added \in Int
  OBVIOUS
<1>1. range.count \in Nat /\ range.increment \in Nat
  BY DEF RangeTyped, Ranges
<1>2. Calls \in Nat
  BY <1>1 DEF Calls
<1> QED BY <1>1, <1>2 DEF Added

\* Between two calls, _nextDate is Added from the start.
LEMMA NextDateAdded ==
    ASSUME RangeInv, Iterating, pc = "ready"
    PROVE  IsStep(Copy(date), Copy(range.start), range.unit, Added)
<1>1. date \in Fields /\ range.start \in Fields /\ range.unit \in Units /\ due = DayCount(date)
  BY DEF RangeInv, Inv, TypeOK, DaysExact, Fields, RangeTyped, Ranges
<1>2. DayCount(Copy(date)) = due /\ DayCount(Copy(range.start)) = DayCount(range.start)
  BY <1>1, CopyCounts
<1>3. CASE range.unit = "day"
  BY <1>2, <1>3 DEF RangeInv, Advanced, IsStep
<1>4. CASE range.unit = "week"
  BY <1>2, <1>4 DEF RangeInv, Advanced, IsStep
<1>5. CASE range.unit \in {"month", "year"}
  BY <1>5 DEF RangeInv, Advanced
<1> QED BY <1>1, <1>3, <1>4, <1>5 DEF Units

\* A moveNext() adds the increment once more.
LEMMA MoveCounts ==
    ASSUME RangeInv, MoveNext
    PROVE  /\ Added = range.increment * range.count
           /\ Added = range.increment * (IF range'.more THEN range'.count - 1 ELSE range'.count)
           /\ Added' = Added + range.increment
<1>1. /\ range.increment \in Nat /\ range.count \in Nat /\ range.more = TRUE
      /\ range'.increment = range.increment
      /\ range'.count = range.count + (IF range'.more THEN 1 ELSE 0)
  BY Moved DEF RangeInv, Ranges, MoveNext
<1>2. Calls = range.count
  BY <1>1 DEF Calls
<1>3. Calls' = range.count + 1
  BY <1>1 DEF Calls
<1>4. (IF range'.more THEN range'.count - 1 ELSE range'.count) = range.count
  BY <1>1
<1>5. range.increment * (range.count + 1) = range.increment * range.count + range.increment
  BY <1>1
<1> QED BY <1>1, <1>2, <1>3, <1>4, <1>5 DEF Added

LEMMA MoveNextAdvances ==
    ASSUME RangeInv, MoveNext
    PROVE  Advanced' /\ RangeExact'
<1> DEFINE c == Copy(date)
           first == Copy(range.start)
           n == range.increment
<1>1. /\ pc = "ready" /\ Iterating
      /\ date \in Fields /\ (IsDate(date) \/ IsLostLeapDay(date))
  BY DEF RangeInv, Inv, TypeOK, AlmostDate, Fields, MoveNext, Incrementer, AddDays, AddMonths, AddYears
<1>2. /\ range \in Ranges /\ n \in Increments(range.unit)
      /\ range' \in Ranges /\ range'.increment = n
      /\ range'.unit = range.unit /\ range'.start = range.start /\ range'.end = range.end
      /\ range'.current = c /\ range'.more = UpToEnd(c, range.end)
  BY Moved DEF RangeInv
<1>3. /\ range.unit \in Units /\ range.start \in Fields /\ range.end \in RangeEnds
      /\ n \in Nat /\ range.count \in Nat /\ due \in Int
  BY <1>2 DEF Ranges, RangeInv, Inv, TypeOK
<1>4. c \in Fields /\ IsDate(c) /\ first \in Fields /\ DayCount(range.start) \in Int
  BY <1>1, <1>3, CopyCounts, CountTyped
<1>5. Added \in Int /\ IsStep(c, first, range.unit, Added)
  BY <1>1, AddedTyped, NextDateAdded DEF RangeInv
<1>6. RangeExact'
  <2>1. range'.more <=> DayCount(c) <= DayCount(range.end)
    BY <1>2, <1>3, <1>4, EndByCount, EndsAreDates
  <2>2. IsStep(c, first, range.unit,
               n * (IF range'.more THEN range'.count - 1 ELSE range'.count))
    BY <1>5, MoveCounts
  <2> QED BY <1>2, <1>4, <2>1, <2>2 DEF RangeExact
<1>7. Added' = Added + n
  BY MoveCounts
<1>8. CASE range.unit \in {"day", "week"}
  <2>1. /\ range.unit = "day" => AddDays(n)
        /\ range.unit = "week" => AddDays(7 * n)
    BY <1>8 DEF MoveNext, Incrementer
  <2>2. /\ range.unit = "day" => due = DayCount(range.start) + Added /\ due' = due + n
        /\ range.unit = "week" => due = DayCount(range.start) + 7 * Added /\ due' = due + 7 * n
    BY <1>1, <2>1 DEF RangeInv, Advanced, AddDays
  <2>3. /\ range.unit = "day" => due' = DayCount(range.start) + (Added + n)
        /\ range.unit = "week" => due' = DayCount(range.start) + 7 * (Added + n)
    BY <1>3, <1>4, <1>5, <2>2
  <2>4. Advanced'
    BY <1>2, <1>7, <1>8, <2>3 DEF Advanced
  <2> QED BY <1>6, <2>4
<1>9. CASE range.unit = "month"
  <2>1. date' = ClampMonths(c, n) /\ pc' = "ready"
    BY <1>1, <1>9 DEF MoveNext, Incrementer, AddMonths
  <2>2. IsStep(Copy(ClampMonths(c, n)), first, "month", Added + n)
    BY <1>3, <1>4, <1>5, <1>9, StepByMonths
  <2>3. Advanced'
    BY <1>2, <1>7, <1>9, <2>1, <2>2 DEF Advanced
  <2> QED BY <1>6, <2>3
<1>10. CASE range.unit = "year"
  <2>1. date' = [c EXCEPT !.year = c.year + n] /\ pc' = "ready"
    BY <1>1, <1>10 DEF MoveNext, Incrementer, AddYears
  <2>2. IsStep(Copy([c EXCEPT !.year = c.year + n]), first, "year", Added + n)
    BY <1>3, <1>4, <1>5, <1>10, StepByYears
  <2>3. Advanced'
    BY <1>2, <1>7, <1>10, <2>1, <2>2 DEF Advanced
  <2> QED BY <1>6, <2>3
<1> QED BY <1>3, <1>8, <1>9, <1>10 DEF Units

LEMMA RangeInvStep == RangeInv /\ [RangeNext]_rangeVars => RangeInv'
<1> SUFFICES ASSUME RangeInv, [RangeNext]_rangeVars PROVE Advanced' /\ RangeExact'
  BY RangeStep DEF RangeInv
<1>1. CASE Next /\ (pc = "ready" => ~Iterating) /\ UNCHANGED range
  <2>1. RangeExact'
    BY <1>1 DEF RangeInv, RangeExact, Iterating
  <2>2. CASE ~Iterating
    BY <1>1, <2>1, <2>2 DEF Advanced, Iterating
  <2>3. CASE Iterating
    <3>1. pc # "ready" /\ range.unit \notin {"month", "year"}
      BY <1>1, <2>3 DEF RangeInv, Advanced
    <3>2. due' = due
      BY <1>1, <3>1 DEF Next, New, WeekdayFromWeek, AddDays, AddMonths, AddYears,
                           Loops, BorrowMonth, CarryMonth, DaysAdded
    <3>3. Added' = Added
      BY <1>1 DEF Added, Calls
    <3> QED BY <1>1, <2>1, <2>3, <3>1, <3>2, <3>3 DEF RangeInv, Advanced, Iterating
  <2> QED BY <2>2, <2>3
<1>2. ASSUME NEW unit \in Units, NEW end \in RangeEnds, NEW n \in Increments(unit),
             Iterate(unit, n, end)
      PROVE  Advanced' /\ RangeExact'
  <2>1. /\ range' \in Ranges /\ range'.start = date
        /\ range'.count = 0 /\ range'.more = TRUE
    BY <1>2, Started DEF RangeInv
  <2>2. UNCHANGED vars /\ pc = "ready"
    BY <1>2 DEF Iterate
  <2>3. Calls' = 0
    BY <2>1 DEF Calls
  <2>4. Added' = 0
    BY <2>1, <2>3 DEF Added, Ranges
  <2>5. /\ date \in Fields /\ due = DayCount(date) /\ due \in Int
        /\ (IsDate(date) \/ IsLostLeapDay(date))
    BY <2>2 DEF RangeInv, Inv, TypeOK, DaysExact, AlmostDate, Fields
  <2>6. Copy(date) \in Fields
    BY <2>5, CopyCounts
  <2>7. /\ IsStep(Copy(date), Copy(date), "month", 0)
        /\ IsStep(Copy(date), Copy(date), "year", 0)
    BY <2>6 DEF IsStep, MonthIndex, Fields
  <2>8. Advanced'
    BY <2>1, <2>2, <2>4, <2>5, <2>7 DEF Advanced, vars
  <2> QED BY <2>1, <2>8 DEF RangeExact
<1>3. CASE MoveNext
  BY <1>3, MoveNextAdvances
<1>4. CASE Leave
  BY <1>4 DEF Leave, Advanced, RangeExact, Iterating
<1>5. CASE UNCHANGED rangeVars
  BY <1>5 DEF rangeVars, vars, RangeInv, Advanced, RangeExact, Iterating, Added, Calls
<1> QED BY <1>1, <1>2, <1>3, <1>4, <1>5 DEF RangeNext

\* A range of days, weeks, months or years gives the dates its increment apart,
\* all of them up to its end and none beyond, whatever its start, its end and
\* its increment.
THEOREM RangesAreExact == RangeSpec => []RangeExact
<1>1. RangeInit => RangeInv
  BY InitInv DEF RangeInit, RangeInv, RangeTyped, Advanced, RangeExact, Iterating
<1>2. RangeInv => RangeExact
  BY DEF RangeInv
<1> QED BY <1>1, <1>2, RangeInvStep, PTL DEF RangeSpec
-----------------------------------------------------------------------------
(* The order of a range's dates. *)

LEMMA LaterMonthCounts ==
    ASSUME NEW c \in Fields, NEW e \in Fields, IsDate(c), IsDate(e),
           c.year < e.year \/ (c.year = e.year /\ c.month < e.month)
    PROVE  DayCount(c) < DayCount(e)
<1>1. ToInt(c) \in Int /\ ToInt(e) \in Int /\ c.year \in Int /\ e.year \in Int
  BY IntOrdersFields DEF Fields
<1>2. c.month \in Int /\ e.month \in Int
  BY DEF Fields
<1>3. ~(ToInt(e) < ToInt(c))
  BY <1>1, <1>2, IntOrdersFields
<1>4. ToInt(c) # ToInt(e)
  BY <1>1, <1>2, IntOrdersFields
<1>5. ToInt(c) < ToInt(e)
  BY <1>1, <1>3, <1>4
<1> QED BY <1>5, IntOrdersCount

\* Of two dates of a range, the one that is more steps from the first is later.
LEMMA StepsAscend ==
    ASSUME NEW c \in Fields, NEW e \in Fields, NEW first \in Fields, IsDate(c), IsDate(e),
           NEW unit \in Units, NEW j \in Int, NEW k \in Int, j < k,
           IsStep(c, first, unit, j), IsStep(e, first, unit, k)
    PROVE  DayCount(c) < DayCount(e)
<1>1. /\ DayCount(c) \in Int /\ DayCount(e) \in Int /\ DayCount(first) \in Int
      /\ first.year \in Int /\ first.month \in Int
  BY CountTyped DEF Fields
<1>2. CASE unit \in {"day", "week"}
  <2>1. \/ /\ DayCount(c) = DayCount(first) + j
           /\ DayCount(e) = DayCount(first) + k
        \/ /\ DayCount(c) = DayCount(first) + 7 * j
           /\ DayCount(e) = DayCount(first) + 7 * k
    BY <1>2 DEF IsStep
  <2> QED BY <1>1, <2>1
<1>3. CASE unit = "month"
  <2>1. /\ c.year \in Int /\ c.month \in 0 .. 11
        /\ e.year \in Int /\ e.month \in 0 .. 11
    BY DEF Fields
  <2>2. 12 * c.year + c.month < 12 * e.year + e.month
    BY <1>1, <1>3 DEF IsStep, MonthIndex
  <2>3. c.year < e.year \/ (c.year = e.year /\ c.month < e.month)
    BY <2>1, <2>2
  <2> QED BY <2>3, LaterMonthCounts
<1>4. CASE unit = "year"
  <2>1. c.year < e.year
    BY <1>1, <1>4 DEF IsStep
  <2> QED BY <2>1, LaterMonthCounts
<1> QED BY <1>2, <1>3, <1>4 DEF Units

\* No range gives a date twice or goes back, whatever its start and increment.
THEOREM RangesAscend == RangeSpec => RangeAscends
<1> DEFINE A == (MoveNext /\ range.count > 0) => DayCount(range.current) < DayCount(range'.current)
<1>1. RangeInv => A
  <2> SUFFICES ASSUME RangeInv, MoveNext, range.count > 0
               PROVE  DayCount(range.current) < DayCount(range'.current)
    OBVIOUS
  <2> DEFINE c == Copy(date)
             first == Copy(range.start)
             j == range.increment * (range.count - 1)
  <2>1. Iterating /\ range.more /\ pc = "ready" /\ date \in Fields
    BY DEF RangeInv, Inv, TypeOK, Fields, MoveNext, Incrementer, AddDays, AddMonths, AddYears
  <2>2. /\ range \in Ranges /\ range.increment \in Increments(range.unit)
        /\ range'.current = c
    BY Moved DEF RangeInv
  <2>3. /\ range.unit \in Units /\ range.start \in Fields /\ range.current \in Fields
        /\ range.count \in Nat /\ range.increment \in Int /\ range.increment > 0
    BY <2>2, IncrementsTyped DEF Ranges
  <2>4. c \in Fields /\ IsDate(c) /\ first \in Fields
    BY <2>1, <2>3, CopyCounts DEF RangeInv, Inv, AlmostDate
  <2>5. IsDate(range.current) /\ IsStep(range.current, first, range.unit, j)
    BY <2>1, <2>3 DEF RangeInv, RangeExact
  <2>6. IsStep(c, first, range.unit, Added) /\ Added = range.increment * range.count
    BY <2>1, NextDateAdded, MoveCounts
  <2>7. j \in Int /\ Added \in Int /\ j < Added
    <3>1. range.increment * range.count = j + range.increment /\ j \in Int
      BY <2>3
    <3> QED BY <2>3, <2>6, <3>1
  <2> HIDE DEF c, first, j
  <2>8. DayCount(range.current) < DayCount(c)
    BY <2>3, <2>4, <2>5, <2>6, <2>7, StepsAscend
  <2> QED BY <2>2, <2>8
<1>2. RangeInit => RangeInv
  BY InitInv DEF RangeInit, RangeInv, RangeTyped, Advanced, RangeExact, Iterating
<1> QED BY <1>1, <1>2, RangeInvStep, PTL DEF RangeSpec, RangeAscends
=============================================================================
