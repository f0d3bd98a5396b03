---------------------- MODULE GregorianCalendarProofs ----------------------
(***************************************************************************)
(* Theorems about GregorianCalendar, for every set of years, numbers of    *)
(* days, months and years.                                                 *)
(***************************************************************************)
EXTENDS GregorianCalendar, TLAPS

-----------------------------------------------------------------------------
(* Years and months against the day count. *)

\* Counted in steps of n, a year adds one where n divides it.
LEMMA DivStep ==
    ASSUME NEW y \in Int
    PROVE  /\ (y + 4) \div 4 = ((y + 3) \div 4) + (IF y % 4 = 0 THEN 1 ELSE 0)
           /\ (y + 100) \div 100 = ((y + 99) \div 100) + (IF y % 100 = 0 THEN 1 ELSE 0)
           /\ (y + 400) \div 400 = ((y + 399) \div 400) + (IF y % 400 = 0 THEN 1 ELSE 0)
           /\ y % 400 = 0 => y % 100 = 0
           /\ y % 100 = 0 => y % 4 = 0
<1>1. (y + 4) \div 4 = ((y + 3) \div 4) + (IF y % 4 = 0 THEN 1 ELSE 0)
  OBVIOUS
<1>2. (y + 100) \div 100 = ((y + 99) \div 100) + (IF y % 100 = 0 THEN 1 ELSE 0)
  OBVIOUS
<1>3. (y + 400) \div 400 = ((y + 399) \div 400) + (IF y % 400 = 0 THEN 1 ELSE 0)
  OBVIOUS
<1>4. y % 400 = 0 => y % 100 = 0
  OBVIOUS
<1>5. y % 100 = 0 => y % 4 = 0
  OBVIOUS
<1> QED BY <1>1, <1>2, <1>3, <1>4, <1>5

\* A year has 365 days, a leap year one more.
LEMMA YearFollows ==
    ASSUME NEW y \in Int
    PROVE  /\ DaysBeforeYear(y) \in Int
           /\ DaysBeforeYear(y + 1) = DaysBeforeYear(y) + (IF IsLeapYear(y) THEN 366 ELSE 365)
<1> DEFINE leap(n) == IF y % n = 0 THEN 1 ELSE 0
<1>1. DaysBeforeYear(y) \in Int
  BY DEF DaysBeforeYear
<1>2. /\ (y + 1 + 3) \div 4 = ((y + 3) \div 4) + leap(4)
      /\ (y + 1 + 99) \div 100 = ((y + 99) \div 100) + leap(100)
      /\ (y + 1 + 399) \div 400 = ((y + 399) \div 400) + leap(400)
  <2>1. y + 1 + 3 = y + 4 /\ y + 1 + 99 = y + 100 /\ y + 1 + 399 = y + 400
    OBVIOUS
  <2> QED BY <2>1, DivStep
<1>3. /\ (y + 3) \div 4 \in Int /\ (y + 99) \div 100 \in Int /\ (y + 399) \div 400 \in Int
      /\ leap(4) \in Int /\ leap(100) \in Int /\ leap(400) \in Int
  OBVIOUS
<1>4. leap(4) - leap(100) + leap(400) = IF IsLeapYear(y) THEN 1 ELSE 0
  <2>1. (y % 400 = 0 => y % 100 = 0) /\ (y % 100 = 0 => y % 4 = 0)
    BY DivStep
  <2> QED BY <2>1 DEF IsLeapYear
<1> HIDE DEF leap
<1>5. DaysBeforeYear(y + 1) =
        DaysBeforeYear(y) + 365 + (leap(4) - leap(100) + leap(400))
  <2> DEFINE q4 == (y + 3) \div 4
             q100 == (y + 99) \div 100
             q400 == (y + 399) \div 400
  <2>1. 365 * (y + 1) = 365 * y + 365
    OBVIOUS
  <2>2. DaysBeforeYear(y + 1) =
          365 * (y + 1) + (q4 + leap(4)) - (q100 + leap(100)) + (q400 + leap(400))
    BY <1>2 DEF DaysBeforeYear
  <2>3. DaysBeforeYear(y) = 365 * y + q4 - q100 + q400
    BY DEF DaysBeforeYear
  <2>4. q4 \in Int /\ q100 \in Int /\ q400 \in Int
    BY <1>3
  <2> HIDE DEF q4, q100, q400
  <2> QED BY <1>3, <2>1, <2>2, <2>3, <2>4
<1> QED BY <1>1, <1>4, <1>5

Fields == [year: Int, month: 0 .. 11, day: Int]

\* A month ends where the next begins, December where the year does.
LEMMA MonthFollows ==
    ASSUME NEW d \in Fields
    PROVE  /\ Length(d) \in 28 .. 31
           /\ DaysBeforeMonth(d.year, d.month) \in Nat
           /\ d.month < 11 => DaysBeforeMonth(d.year, d.month) + Length(d) =
                                  DaysBeforeMonth(d.year, d.month + 1)
           /\ d.month = 11 => DaysBeforeMonth(d.year, d.month) + Length(d) =
                                  (IF IsLeapYear(d.year) THEN 366 ELSE 365)
<1>1. d.month \in {0, 1, 2, 3, 4, 5, 6, 7, 8, 9, 10, 11}
  BY DEF Fields
<1>2. Length(d) \in 28 .. 31
  BY <1>1 DEF Length, MonthLength
<1>3. DaysBeforeMonth(d.year, d.month) \in Nat
  BY <1>1 DEF DaysBeforeMonth, CommonDaysBeforeMonth
<1>4. d.month < 11 => DaysBeforeMonth(d.year, d.month) + Length(d) =
                          DaysBeforeMonth(d.year, d.month + 1)
  BY <1>1 DEF Length, MonthLength, DaysBeforeMonth, CommonDaysBeforeMonth
<1>5. d.month = 11 => DaysBeforeMonth(d.year, d.month) + Length(d) =
                          (IF IsLeapYear(d.year) THEN 366 ELSE 365)
  BY DEF Length, MonthLength, DaysBeforeMonth, CommonDaysBeforeMonth
<1> QED BY <1>2, <1>3, <1>4, <1>5

LEMMA NothingBeforeJanuary == \A y : DaysBeforeMonth(y, 0) = 0
BY DEF DaysBeforeMonth, CommonDaysBeforeMonth

\* What _addMonths leaves in a month 12 at most away.
LEMMA ShiftTyped ==
    ASSUME NEW d \in Fields, NEW n \in Int
    PROVE  /\ ShiftMonths(d, n) \in Fields
           /\ ShiftMonths(d, n).day = d.day
           /\ d.month + n \in 0 .. 11 => /\ ShiftMonths(d, n).year = d.year
                                         /\ ShiftMonths(d, n).month = d.month + n
           /\ d.month + n = 12 => /\ ShiftMonths(d, n).year = d.year + 1
                                  /\ ShiftMonths(d, n).month = 0
           /\ d.month + n = -1 => /\ ShiftMonths(d, n).year = d.year - 1
                                  /\ ShiftMonths(d, n).month = 11
<1> DEFINE m == d.month + n
<1>1. d.year \in Int /\ m \in Int
  BY DEF Fields
<1> DEFINE y == d.year + (m \div 12)
           k == m % 12
<1>2. ShiftMonths(d, n) = [d EXCEPT !.year = y, !.month = k]
  BY DEF ShiftMonths
<1> HIDE DEF m
<1>3. /\ m % 12 \in 0 .. 11 /\ m \div 12 \in Int
      /\ m \in 0 .. 11 => m \div 12 = 0 /\ m % 12 = m
      /\ m = 12 => m \div 12 = 1 /\ m % 12 = 0
      /\ m = -1 => m \div 12 = -1 /\ m % 12 = 11
  BY <1>1
<1>4. /\ y \in Int /\ k \in 0 .. 11
      /\ m \in 0 .. 11 => y = d.year /\ k = m
      /\ m = 12 => y = d.year + 1 /\ k = 0
      /\ m = -1 => y = d.year - 1 /\ k = 11
  BY <1>1, <1>3
<1> HIDE DEF y, k
<1>5. /\ ShiftMonths(d, n) \in Fields /\ ShiftMonths(d, n).day = d.day
      /\ ShiftMonths(d, n).year = y /\ ShiftMonths(d, n).month = k
  BY <1>2, <1>4 DEF Fields
<1> QED BY <1>4, <1>5 DEF m

\* The first of a date's month.
MonthStart(d) == DaysBeforeYear(d.year) + DaysBeforeMonth(d.year, d.month)

LEMMA CountTyped ==
    ASSUME NEW d \in Fields
    PROVE  /\ MonthStart(d) \in Int
           /\ DayCount(d) \in Int
           /\ DayCount(d) = MonthStart(d) + d.day
<1>1. d.year \in Int /\ d.day \in Int
  BY DEF Fields
<1>2. DaysBeforeYear(d.year) \in Int /\ DaysBeforeMonth(d.year, d.month) \in Nat
  BY <1>1, YearFollows, MonthFollows
<1> QED BY <1>1, <1>2 DEF MonthStart, DayCount

\* A month on, the count has grown by the length of the month.
LEMMA NextMonthStart ==
    ASSUME NEW d \in Fields, NEW e \in Fields,
           \/ d.month < 11 /\ e.year = d.year /\ e.month = d.month + 1
           \/ d.month = 11 /\ e.year = d.year + 1 /\ e.month = 0
    PROVE  MonthStart(e) = MonthStart(d) + Length(d)
<1>1. d.year \in Int /\ d.month \in 0 .. 11
  BY DEF Fields
<1>2. /\ DaysBeforeYear(d.year) \in Int /\ DaysBeforeMonth(d.year, d.month) \in Nat
      /\ Length(d) \in 28 .. 31
  BY <1>1, YearFollows, MonthFollows
<1>3. CASE d.month < 11 /\ e.year = d.year /\ e.month = d.month + 1
  <2>1. DaysBeforeMonth(d.year, d.month) + Length(d) = DaysBeforeMonth(d.year, d.month + 1)
    BY <1>3, MonthFollows
  <2> QED BY <1>2, <1>3, <2>1 DEF MonthStart
<1>4. CASE d.month = 11 /\ e.year = d.year + 1 /\ e.month = 0
  <2> DEFINE length == IF IsLeapYear(d.year) THEN 366 ELSE 365
  <2>1. DaysBeforeMonth(d.year, d.month) + Length(d) = length
    BY <1>4, MonthFollows
  <2>2. DaysBeforeYear(e.year) = DaysBeforeYear(d.year) + length
    BY <1>1, <1>4, YearFollows
  <2>3. DaysBeforeMonth(e.year, e.month) = 0
    BY <1>4, NothingBeforeJanuary
  <2>4. length \in Int
    OBVIOUS
  <2> HIDE DEF length
  <2> QED BY <1>2, <2>1, <2>2, <2>3, <2>4 DEF MonthStart
<1> QED BY <1>3, <1>4

\* A step of a month moves to the month before or after.
LEMMA MonthOnAndBack ==
    ASSUME NEW d \in Fields
    PROVE  /\ MonthStart(ShiftMonths(d, 1)) = MonthStart(d) + Length(d)
           /\ MonthStart(d) = MonthStart(ShiftMonths(d, -1)) + Length(ShiftMonths(d, -1))
<1>1. d.year \in Int /\ d.month \in 0 .. 11
  BY DEF Fields
<1>2. MonthStart(ShiftMonths(d, 1)) = MonthStart(d) + Length(d)
  <2>1. 1 \in Int
    OBVIOUS
  <2>2. /\ ShiftMonths(d, 1) \in Fields
        /\ \/ /\ d.month < 11
              /\ ShiftMonths(d, 1).year = d.year /\ ShiftMonths(d, 1).month = d.month + 1
           \/ /\ d.month = 11
              /\ ShiftMonths(d, 1).year = d.year + 1 /\ ShiftMonths(d, 1).month = 0
    <3>1. CASE d.month < 11
      <4>1. d.month + 1 \in 0 .. 11
        BY <1>1, <3>1
      <4> QED BY <2>1, <3>1, <4>1, ShiftTyped
    <3>2. CASE d.month = 11
      <4>1. d.month + 1 = 12
        BY <3>2
      <4> QED BY <2>1, <3>2, <4>1, ShiftTyped
    <3> QED BY <1>1, <3>1, <3>2
  <2> QED BY <2>2, NextMonthStart
<1>3. MonthStart(d) = MonthStart(ShiftMonths(d, -1)) + Length(ShiftMonths(d, -1))
  <2>1. -1 \in Int
    OBVIOUS
  <2>2. /\ ShiftMonths(d, -1) \in Fields
        /\ \/ /\ d.month > 0
              /\ ShiftMonths(d, -1).year = d.year /\ ShiftMonths(d, -1).month = d.month - 1
           \/ /\ d.month = 0
              /\ ShiftMonths(d, -1).year = d.year - 1 /\ ShiftMonths(d, -1).month = 11
    <3>1. CASE d.month > 0
      <4>1. d.month + (-1) \in 0 .. 11 /\ d.month + (-1) = d.month - 1
        BY <1>1, <3>1
      <4> QED BY <2>1, <3>1, <4>1, ShiftTyped
    <3>2. CASE d.month = 0
      <4>1. d.month + (-1) = -1
        BY <3>2
      <4> QED BY <2>1, <3>2, <4>1, ShiftTyped
    <3> QED BY <1>1, <3>1, <3>2
  <2>3. \/ /\ ShiftMonths(d, -1).month < 11
           /\ d.year = ShiftMonths(d, -1).year /\ d.month = ShiftMonths(d, -1).month + 1
        \/ /\ ShiftMonths(d, -1).month = 11
           /\ d.year = ShiftMonths(d, -1).year + 1 /\ d.month = 0
    BY <1>1, <2>2
  <2> QED BY <2>2, <2>3, NextMonthStart
<1> QED BY <1>2, <1>3

\* copy() does not change the count, and makes a date of what is almost one.
LEMMA CopyCounts ==
    ASSUME NEW d \in Fields
    PROVE  /\ Copy(d) \in Fields
           /\ DayCount(Copy(d)) = DayCount(d)
           /\ IsDate(d) \/ IsLostLeapDay(d) => IsDate(Copy(d))
<1>1. CASE IsLostLeapDay(d)
  <2>1. Copy(d) = Date(d.year, 2, 0) /\ Copy(d) \in Fields
    BY <1>1 DEF Copy, Date, Fields
  <2>2. DayCount(Copy(d)) = DayCount(d)
    BY <1>1, <2>1, YearFollows
    DEF DayCount, IsLostLeapDay, Date, DaysBeforeMonth, CommonDaysBeforeMonth, Fields
  <2>3. IsDate(Copy(d))
    <3>1. Length(Copy(d)) \in 28 .. 31
      BY <2>1, MonthFollows
    <3> QED BY <2>1, <3>1 DEF IsDate, Date
  <2> QED BY <2>1, <2>2, <2>3
<1>2. CASE ~IsLostLeapDay(d)
  BY <1>2 DEF Copy
<1> QED BY <1>1, <1>2

-----------------------------------------------------------------------------
(* The invariant: the loops keep the count, and an object between its      *)
(* operations is a date or the lost leap day.                              *)

Inv == TypeOK /\ DaysExact /\ AlmostDate

\* addMonths with clamp makes a date of a date.
LEMMA ClampMakesDate ==
    ASSUME NEW d \in Fields, NEW n \in Int, IsDate(d)
    PROVE  ClampMonths(d, n) \in Fields /\ IsDate(ClampMonths(d, n))
<1> DEFINE moved == ShiftMonths(d, n)
           last == [moved EXCEPT !.day = Length(moved) - 1]
<1>1. moved \in Fields /\ moved.day = d.day
  BY ShiftTyped
<1>2. Length(moved) \in 28 .. 31
  BY <1>1, MonthFollows
<1>3. d.day \in Nat
  BY MonthFollows DEF IsDate, Fields
<1> HIDE DEF moved
<1>4. /\ last \in Fields /\ last.day = Length(moved) - 1
      /\ last.month = moved.month /\ last.year = moved.year
  BY <1>1, <1>2 DEF Fields
<1>5. IsDate(last)
  BY <1>1, <1>2, <1>4 DEF IsDate, Length, Fields
<1>6. ~(d.day + 1 > Length(moved)) => IsDate(moved)
  BY <1>1, <1>2, <1>3 DEF IsDate, Fields
<1>7. ClampMonths(d, n) = IF IsLastDay(d) \/ d.day + 1 > Length(moved) THEN last ELSE moved
  BY DEF ClampMonths, moved
<1> HIDE DEF last
<1> QED BY <1>1, <1>4, <1>5, <1>6, <1>7

\* Another year makes of a date a date, but for February 29.
LEMMA YearAlmostDate ==
    ASSUME NEW d \in Fields, NEW n \in Int, IsDate(d)
    PROVE  LET moved == [d EXCEPT !.year = d.year + n]
           IN  moved \in Fields /\ (IsDate(moved) \/ IsLostLeapDay(moved))
<1> DEFINE moved == [d EXCEPT !.year = d.year + n]
<1>1. /\ moved \in Fields /\ moved.year = d.year + n
      /\ moved.month = d.month /\ moved.day = d.day
  BY DEF Fields
<1>2. CASE d.month = 1
  <2>1. d.day \in 0 .. 28 /\ (d.day = 28 \/ d.day \in 0 .. 27)
    BY <1>2 DEF IsDate, Length, MonthLength, Fields
  <2>2. Length(moved) = IF IsLeapYear(moved.year) THEN 29 ELSE 28
    BY <1>1, <1>2 DEF Length, MonthLength
  <2> QED BY <1>1, <1>2, <2>1, <2>2 DEF IsDate, IsLostLeapDay
<1>3. CASE d.month # 1
  <2>1. Length(moved) = Length(d)
    BY <1>1, <1>3 DEF Length, MonthLength
  <2> QED BY <1>1, <2>1 DEF IsDate
<1> QED BY <1>1, <1>2, <1>3

\* weekday is one of seven, in any year.
LEMMA WeekdayTyped ==
    ASSUME NEW d \in Fields
    PROVE  Weekday(d) \in 1 .. 7
<1> DEFINE y == IF d.month <= 1 THEN d.year - 1 ELSE d.year
           sum == y + TruncatedDiv(y, 4) - TruncatedDiv(y, 100) + TruncatedDiv(y, 400)
                  + SakamotoHelper[d.month + 1] + d.day + 1
<1>1. y \in Int /\ d.day \in Int /\ d.month \in {0, 1, 2, 3, 4, 5, 6, 7, 8, 9, 10, 11}
  BY DEF Fields
<1> HIDE DEF y
<1>2. TruncatedDiv(y, 4) \in Int /\ TruncatedDiv(y, 100) \in Int /\ TruncatedDiv(y, 400) \in Int
  BY <1>1 DEF TruncatedDiv
<1>3. SakamotoHelper[d.month + 1] \in Int
  BY <1>1 DEF SakamotoHelper
<1>4. sum \in Int
  BY <1>1, <1>2, <1>3
<1>5. Weekday(d) = IF sum % 7 = 0 THEN 7 ELSE sum % 7
  BY DEF Weekday, y
<1> HIDE DEF sum
<1> QED BY <1>4, <1>5

LEMMA InitInv == Init => Inv
<1> SUFFICES ASSUME Init PROVE Inv
  OBVIOUS
<1>1. PICK y \in Years : date = Date(y, 0, 0)
  BY DEF Init
<1>2. date \in Fields /\ date.month = 0 /\ date.day = 0
  BY <1>1, CalendarAssumption DEF Date, Fields
<1>3. IsDate(date)
  BY <1>2, MonthFollows DEF IsDate
<1>4. DayCount(date) \in Int
  BY <1>2, CountTyped
<1> QED BY <1>2, <1>3, <1>4 DEF Init, Inv, TypeOK, DaysExact, AlmostDate, Fields

LEMMA NextInv == Inv /\ [Next]_vars => Inv'
<1> SUFFICES ASSUME Inv, [Next]_vars PROVE Inv'
  OBVIOUS
<1>1. /\ date \in Fields /\ due \in Int /\ due = DayCount(date)
      /\ pc = "ready" => IsDate(date) \/ IsLostLeapDay(date)
  BY DEF Inv, TypeOK, DaysExact, AlmostDate, Fields
<1> DEFINE Good == /\ date' \in Fields /\ due' = DayCount(date')
                   /\ pc' \in {"ready", "_addDays"}
                   /\ pc' = "ready" => IsDate(date') \/ IsLostLeapDay(date')
<1>2. Good => Inv'
  <2>1. Good => due' \in Int
    BY CountTyped
  <2> QED BY <2>1 DEF Inv, TypeOK, DaysExact, AlmostDate, Fields, DayCount, IsDate, Length, IsLostLeapDay
<1>3. ASSUME NEW y \in Int, NEW m \in 0 .. 12, NEW d \in Int, New(y, m, d)
      PROVE  Good
  <2> DEFINE first == ShiftMonths(Date(y, 0, 0), OrFirst(m) - 1)
  <2>1. y \in Int /\ d \in Int /\ OrFirst(m) - 1 \in Int /\ OrFirst(d) - 1 \in Int
    BY CalendarAssumption DEF OrFirst
  <2>2. Date(y, 0, 0) \in Fields
    BY <2>1 DEF Date, Fields
  <2>3. first \in Fields
    BY <2>1, <2>2, ShiftTyped
  <2> HIDE DEF first
  <2>4. [first EXCEPT !.day = OrFirst(d) - 1] \in Fields
    BY <2>1, <2>3 DEF Fields
  <2> QED BY <1>3, <2>4 DEF New, first
<1>11. ASSUME NEW y \in Years, NEW m \in 0 .. 12, NEW d \in DayNumbers, New(y, m, d)
       PROVE  Good
  BY <1>3, <1>11, CalendarAssumption
<1>12. ASSUME NEW weekday \in 1 .. 7, WeekdayFromWeek(weekday)
       PROVE  Good
  <2>1. date.year \in Int /\ date.month + 1 \in 0 .. 12 /\ NumberInWeek(date, weekday) \in Int
    BY <1>1, WeekdayTyped DEF Fields, NumberInWeek
  <2> QED BY <1>3, <1>12, <2>1 DEF WeekdayFromWeek
<1>4. ASSUME NEW n \in DayShifts, AddDays(n)
      PROVE  Good
  <2> DEFINE copied == Copy(date)
  <2>1. n \in Int
    BY CalendarAssumption
  <2>2. copied \in Fields /\ DayCount(copied) = due
    BY <1>1, CopyCounts
  <2> HIDE DEF copied
  <2>3. date' = [copied EXCEPT !.day = copied.day + n] /\ due' = due + n /\ pc' = "_addDays"
    BY <1>4 DEF AddDays, copied
  <2>4. /\ date' \in Fields /\ date'.day = copied.day + n
        /\ date'.year = copied.year /\ date'.month = copied.month
    BY <2>1, <2>2, <2>3 DEF Fields
  <2>5. MonthStart(date') = MonthStart(copied)
    BY <2>4 DEF MonthStart
  <2>6. copied.day \in Int /\ MonthStart(copied) \in Int
    BY <2>2, CountTyped DEF Fields
  <2>7. DayCount(date') = DayCount(copied) + n
    BY <2>1, <2>2, <2>4, <2>5, <2>6, CountTyped
  <2> QED BY <2>2, <2>3, <2>4, <2>7
<1>5. ASSUME BorrowMonth
      PROVE  Good
  <2> DEFINE before == ShiftMonths(date, -1)
  <2>1. -1 \in Int
    OBVIOUS
  <2>2. before \in Fields /\ MonthStart(date) = MonthStart(before) + Length(before)
    BY <1>1, <2>1, ShiftTyped, MonthOnAndBack
  <2> HIDE DEF before
  <2>3. /\ date' = [before EXCEPT !.day = date.day + Length(before)]
        /\ pc' = "_addDays" /\ due' = due
    BY <1>5 DEF BorrowMonth, before
  <2>4. date.day \in Int /\ Length(before) \in Int
    BY <1>1, <2>2, MonthFollows DEF Fields
  <2>5. /\ date' \in Fields /\ date'.day = date.day + Length(before)
        /\ date'.year = before.year /\ date'.month = before.month
    BY <2>2, <2>3, <2>4 DEF Fields
  <2>6. MonthStart(date') = MonthStart(before) /\ MonthStart(before) \in Int
    BY <2>2, <2>5, CountTyped DEF MonthStart
  <2>7. DayCount(date') = MonthStart(before) + date.day + Length(before)
    BY <2>4, <2>5, <2>6, CountTyped
  <2>8. due = MonthStart(date) + date.day
    BY <1>1, CountTyped
  <2> QED BY <2>2, <2>3, <2>4, <2>5, <2>6, <2>7, <2>8
<1>6. ASSUME CarryMonth
      PROVE  Good
  <2> DEFINE next == ShiftMonths(date, 1)
  <2>1. 1 \in Int
    OBVIOUS
  <2>2. next \in Fields /\ MonthStart(next) = MonthStart(date) + Length(date)
    BY <1>1, <2>1, ShiftTyped, MonthOnAndBack
  <2> HIDE DEF next
  <2>3. /\ date' = [next EXCEPT !.day = date.day - Length(date)]
        /\ pc' = "_addDays" /\ due' = due
    BY <1>6 DEF CarryMonth, next
  <2>4. date.day \in Int /\ Length(date) \in Int /\ MonthStart(date) \in Int
    BY <1>1, MonthFollows, CountTyped DEF Fields
  <2>5. /\ date' \in Fields /\ date'.day = date.day - Length(date)
        /\ date'.year = next.year /\ date'.month = next.month
    BY <2>2, <2>3, <2>4 DEF Fields
  <2>6. MonthStart(date') = MonthStart(next)
    BY <2>5 DEF MonthStart
  <2>7. DayCount(date') = MonthStart(next) + (date.day - Length(date))
    BY <2>4, <2>5, <2>6, CountTyped
  <2>8. due = MonthStart(date) + date.day
    BY <1>1, CountTyped
  <2> QED BY <2>2, <2>3, <2>4, <2>5, <2>7, <2>8
<1>7. ASSUME DaysAdded
      PROVE  Good
  BY <1>1, <1>7 DEF DaysAdded, IsDate, Fields
<1>8. ASSUME NEW n \in MonthShifts, AddMonths(n)
      PROVE  Good
  <2>1. n \in Int
    BY CalendarAssumption
  <2>2. Copy(date) \in Fields /\ IsDate(Copy(date))
    BY <1>1, <1>8, CopyCounts DEF AddMonths
  <2>3. date' \in Fields /\ IsDate(date')
    BY <1>8, <2>1, <2>2, ClampMakesDate DEF AddMonths
  <2> QED BY <1>8, <2>3 DEF AddMonths
<1>9. ASSUME NEW n \in YearShifts, AddYears(n)
      PROVE  Good
  <2> DEFINE copied == Copy(date)
  <2>1. n \in Int
    BY CalendarAssumption
  <2>2. copied \in Fields /\ IsDate(copied)
    BY <1>1, <1>9, CopyCounts DEF AddYears
  <2> HIDE DEF copied
  <2>3. date' = [copied EXCEPT !.year = copied.year + n]
    BY <1>9 DEF AddYears, copied
  <2>4. date' \in Fields /\ (IsDate(date') \/ IsLostLeapDay(date'))
    BY <2>1, <2>2, <2>3, YearAlmostDate
  <2> QED BY <1>9, <2>4 DEF AddYears
<1>10. ASSUME UNCHANGED vars
      PROVE  Good
  BY <1>1, <1>10 DEF vars, Inv, TypeOK, DayCount, IsDate, Length, IsLostLeapDay
<1> HIDE DEF Good
<1> QED BY <1>2, <1>11, <1>12, <1>4, <1>5, <1>6, <1>7, <1>8, <1>9, <1>10 DEF Next, Loops

\* An object keeps its fields' types, counts every day an operation adds, and
\* is a date or the lost leap day whenever no operation is under way.
THEOREM DatesInductive == Spec => []Inv
BY InitInv, NextInv, PTL DEF Spec

\* Months never leave 0 .. 11, in the loops of _addDays too.
THEOREM DatesTyped == Spec => []TypeOK
<1>1. Inv => TypeOK
  BY DEF Inv
<1> QED BY <1>1, DatesInductive, PTL

\* addDays(n) ends n days after the date it started from, for every n.
THEOREM DaysAddedExactly == Spec => []DaysExact
<1>1. Inv => DaysExact
  BY DEF Inv
<1> QED BY <1>1, DatesInductive, PTL

\* No operation leaves anything but a date, or February 29 of a common year.
THEOREM DatesAlmostValid == Spec => []AlmostDate
<1>1. Inv => AlmostDate
  BY DEF Inv
<1> QED BY <1>1, DatesInductive, PTL

-----------------------------------------------------------------------------
(* The weekday. *)

\* A multiple of 7 does not change a weekday.
LEMMA WeeksApart ==
    ASSUME NEW a \in Int, NEW b \in Int, NEW k \in Int, b = a + 7 * k
    PROVE  b % 7 = a % 7
OBVIOUS

LEMMA TurnOfWeek ==
    ASSUME NEW a \in Int
    PROVE  ((a + 6) % 7) + 1 = IF a % 7 = 0 THEN 7 ELSE a % 7
OBVIOUS

\* Years as weekday adds them up: up to the end of year y, from the year 1 on,
\* there are 365 y days and one for every leap year.
LEMMA LeapYearsUpTo ==
    ASSUME NEW y \in Int, y >= 0
    PROVE  LET leaps == TruncatedDiv(y, 4) - TruncatedDiv(y, 100) + TruncatedDiv(y, 400)
           IN  /\ leaps \in Int
               /\ y + TruncatedDiv(y, 4) - TruncatedDiv(y, 100) + TruncatedDiv(y, 400) = y + leaps
               /\ DaysBeforeYear(y + 1) = 365 * y + leaps + 366
<1> DEFINE q4 == y \div 4
           q100 == y \div 100
           q400 == y \div 400
<1>1. TruncatedDiv(y, 4) = q4 /\ TruncatedDiv(y, 100) = q100 /\ TruncatedDiv(y, 400) = q400
  BY DEF TruncatedDiv
<1>2. q4 \in Int /\ q100 \in Int /\ q400 \in Int
  OBVIOUS
<1>3. /\ (y + 1 + 3) \div 4 = q4 + 1 /\ (y + 1 + 99) \div 100 = q100 + 1
      /\ (y + 1 + 399) \div 400 = q400 + 1
  OBVIOUS
<1> HIDE DEF q4, q100, q400
<1>4. DaysBeforeYear(y + 1) = 365 * (y + 1) + (q4 + 1) - (q100 + 1) + (q400 + 1)
  BY <1>3 DEF DaysBeforeYear
<1> QED BY <1>1, <1>2, <1>4

\* weekday agrees with the day count on every date after the year 0.
LEMMA WeekdayCounts ==
    ASSUME NEW d \in Fields, d.year > 0
    PROVE  Weekday(d) = WeekdayOfCount(DayCount(d))
<1> DEFINE y == IF d.month <= 1 THEN d.year - 1 ELSE d.year
           leaps == TruncatedDiv(y, 4) - TruncatedDiv(y, 100) + TruncatedDiv(y, 400)
           a == y + leaps + SakamotoHelper[d.month + 1] + d.day + 1
           leap == IF IsLeapYear(d.year) THEN 1 ELSE 0
<1>1. d.month \in {0, 1, 2, 3, 4, 5, 6, 7, 8, 9, 10, 11} /\ d.year \in Int /\ d.day \in Int
  BY DEF Fields
<1>2. y \in Int /\ y >= 0 /\ leap \in {0, 1}
  BY <1>1
<1>3. /\ leaps \in Int /\ DaysBeforeYear(y + 1) = 365 * y + leaps + 366
      /\ y + TruncatedDiv(y, 4) - TruncatedDiv(y, 100) + TruncatedDiv(y, 400) = y + leaps
  BY <1>2, LeapYearsUpTo
<1>4. DaysBeforeYear(d.year) =
        IF d.month <= 1 THEN 365 * y + leaps + 366 ELSE 365 * y + leaps + 1 - leap
  <2>1. CASE d.month <= 1
    BY <1>1, <1>3, <2>1
  <2>2. CASE ~(d.month <= 1)
    <3>1. y = d.year
      BY <2>2
    <3>2. DaysBeforeYear(y + 1) = DaysBeforeYear(y) + 365 + leap
      BY <1>2, <3>1, YearFollows
    <3>3. DaysBeforeYear(y) \in Int
      BY <1>2, YearFollows
    <3> HIDE DEF y, leaps, leap
    <3> QED BY <1>2, <1>3, <2>2, <3>1, <3>2, <3>3
  <2> QED BY <2>1, <2>2
<1>5. Weekday(d) = IF a % 7 = 0 THEN 7 ELSE a % 7
  BY <1>3 DEF Weekday
<1>6. DayCount(d) = DaysBeforeYear(d.year) + DaysBeforeMonth(d.year, d.month) + d.day
  BY DEF DayCount
<1> HIDE DEF leaps
<1>7. a \in Int /\ \E k \in Int : DayCount(d) + 5 = (a + 6) + 7 * k
  <2> DEFINE s == SakamotoHelper[d.month + 1]
             b == DaysBeforeMonth(d.year, d.month)
             c == IF d.month <= 1 THEN 0 ELSE 1 + leap
  <2>1. /\ s \in Int /\ b \in Int
        /\ \E w \in Int : b - s = 7 * w + c
    <3> DEFINE weeks == <<0, 4, 8, 12, 17, 21, 25, 30, 34, 38, 43, 47>>[d.month + 1]
    <3>1. s \in Int /\ b \in Int
      BY <1>1 DEF SakamotoHelper, DaysBeforeMonth, CommonDaysBeforeMonth
    <3>2. weeks \in Int /\ b - s = 7 * weeks + c
      BY <1>1 DEF SakamotoHelper, DaysBeforeMonth, CommonDaysBeforeMonth
    <3> QED BY <3>1, <3>2
  <2>2. PICK w \in Int : b - s = 7 * w + c
    BY <2>1
  <2> HIDE DEF s, b
  <2>3. a \in Int
    BY <1>1, <1>2, <1>3, <2>1 DEF s
  <2>4. DayCount(d) + 5 = (a + 6) + 7 * (IF d.month <= 1 THEN 52 * y + 52 + w ELSE 52 * y + w)
    <3>1. a = y + leaps + s + d.day + 1
      BY DEF s
    <3>2. DayCount(d) = DaysBeforeYear(d.year) + b + d.day
      BY <1>6 DEF b
    <3> HIDE DEF a, y, leap
    <3>3. CASE d.month <= 1
      BY <1>1, <1>2, <1>3, <1>4, <2>1, <2>2, <3>1, <3>2, <3>3
    <3>4. CASE ~(d.month <= 1)
      BY <1>1, <1>2, <1>3, <1>4, <2>1, <2>2, <3>1, <3>2, <3>4
    <3> QED BY <3>3, <3>4
  <2>5. 52 * y + 52 + w \in Int /\ 52 * y + w \in Int
    BY <1>2
  <2> HIDE DEF a, y
  <2> QED BY <2>3, <2>4, <2>5
<1>8. DayCount(d) \in Int
  BY CountTyped
<1> HIDE DEF a
<1>9. PICK k \in Int : DayCount(d) + 5 = (a + 6) + 7 * k
  BY <1>7
<1>10. (DayCount(d) + 5) % 7 = (a + 6) % 7
  <2>1. a + 6 \in Int /\ DayCount(d) + 5 \in Int
    BY <1>7, <1>8
  <2> QED BY <1>9, <2>1, WeeksApart
<1> QED BY <1>5, <1>7, <1>10, TurnOfWeek DEF WeekdayOfCount

\* weekday follows the days added, over every leap year and century after 0.
THEOREM WeekdaysFollow == Spec => []WeekdayFollowsCount
<1>1. Inv => WeekdayFollowsCount
  <2> SUFFICES ASSUME Inv, IsDate(date), date.year > 0
               PROVE  Weekday(date) = WeekdayOfCount(DayCount(date))
    BY DEF WeekdayFollowsCount
  <2>1. date \in Fields
    BY DEF Inv, TypeOK, Fields
  <2> QED BY <2>1, WeekdayCounts
<1> QED BY <1>1, DatesInductive, PTL

\* getWeekdaysFromWeek stays in its date's week, for every date and weekday, but
\* when the constructor is given day 0.
THEOREM WeeksKept == Spec => WeekKept
<1> DEFINE A == \A weekday \in 1 .. 7 :
                  (WeekdayFromWeek(weekday) /\ IsDate(date) /\ date.year > 0 /\ NumberInWeek(date, weekday) # 0)
                  => WeekdayOfCount(due') = weekday /\ WeekOfCount(due') = WeekOfCount(due)
<1>1. Inv => A
  <2> SUFFICES ASSUME Inv, NEW weekday \in 1 .. 7, WeekdayFromWeek(weekday), IsDate(date),
                      date.year > 0, NumberInWeek(date, weekday) # 0
               PROVE  WeekdayOfCount(due') = weekday /\ WeekOfCount(due') = WeekOfCount(due)
    OBVIOUS
  <2> DEFINE number == NumberInWeek(date, weekday)
             first == ShiftMonths(Date(date.year, 0, 0), date.month)
  <2>1. /\ date \in Fields /\ due = DayCount(date) /\ due \in Int
        /\ date.year \in Int /\ date.month \in 0 .. 11 /\ date.day \in Int
    BY DEF Inv, TypeOK, DaysExact, Fields
  <2>2. Weekday(date) \in 1 .. 7 /\ Weekday(date) = ((due + 5) % 7) + 1
    BY <2>1, WeekdayTyped, WeekdayCounts DEF WeekdayOfCount
  <2>3. number = date.day + 1 - Weekday(date) + weekday /\ number \in Int
    <3>1. weekday \in Int /\ Weekday(date) \in Int
      BY <2>2
    <3> QED BY <2>1, <3>1 DEF NumberInWeek
  <2>4. date' = [first EXCEPT !.day = number - 1] /\ due' = DayCount(date')
    <3>1. OrFirst(date.month + 1) - 1 = date.month /\ OrFirst(number) = number
      BY <2>1 DEF OrFirst
    <3> QED BY <3>1 DEF WeekdayFromWeek, New
  <2>5. Date(date.year, 0, 0) \in Fields
    BY <2>1 DEF Date, Fields
  <2>6. Date(date.year, 0, 0).year = date.year /\ Date(date.year, 0, 0).month = 0
    BY DEF Date
  <2>7. first \in Fields /\ first.year = date.year /\ first.month = date.month
    <3> DEFINE january == Date(date.year, 0, 0)
    <3>1. january \in Fields /\ january.year = date.year /\ january.month + date.month = date.month
      BY <2>1, <2>5, <2>6
    <3>2. date.month \in Int
      BY <2>1
    <3> HIDE DEF january
    <3>3. /\ ShiftMonths(january, date.month) \in Fields
          /\ ShiftMonths(january, date.month).year = date.year
          /\ ShiftMonths(january, date.month).month = date.month
      BY <2>1, <3>1, <3>2, ShiftTyped
    <3> QED BY <3>3 DEF january
  <2> HIDE DEF number, first
  <2>8. /\ date' \in Fields /\ date'.year = date.year
        /\ date'.month = date.month /\ date'.day = number - 1
    BY <2>3, <2>4, <2>7 DEF Fields
  <2>9. MonthStart(date') = MonthStart(date) /\ MonthStart(date) \in Int
    BY <2>1, <2>8, CountTyped DEF MonthStart
  <2>10. due' = MonthStart(date) + number - 1 /\ due = MonthStart(date) + date.day
    BY <2>1, <2>3, <2>4, <2>8, <2>9, CountTyped
  <2>11. due' = due - ((due + 5) % 7) + weekday - 1
    <3> DEFINE r == (due + 5) % 7
    <3>1. r \in Int /\ weekday \in Int /\ Weekday(date) = r + 1
      BY <2>1, <2>2
    <3> HIDE DEF r
    <3>2. due' = due - r + weekday - 1
      BY <2>1, <2>3, <2>9, <2>10, <3>1
    <3> QED BY <3>2 DEF r
  <2>12. /\ ((due' + 5) % 7) + 1 = weekday
         /\ (due' + 5) \div 7 = (due + 5) \div 7
    <3> DEFINE a == due + 5
               q == a \div 7
               b == due' + 5
               r == a % 7
    <3>0. a \in Int /\ due \in Int /\ weekday \in 1 .. 7 /\ r \in Int /\ due' = due - r + weekday - 1
      BY <2>1, <2>11
    <3> HIDE DEF r
    <3>1. a \in Int /\ weekday \in 1 .. 7 /\ b = a - r + weekday - 1
      BY <3>0
    <3> USE DEF r
    <3> HIDE DEF a, b
    <3>2. q \in Int /\ a = 7 * q + (a % 7)
      BY <3>1
    <3>3. b = 7 * q + (weekday - 1)
      BY <3>1, <3>2
    <3> HIDE DEF q
    <3>4. b \div 7 = q /\ b % 7 = weekday - 1
      BY <3>1, <3>2, <3>3
    <3>5. (b % 7) + 1 = weekday
      BY <3>1, <3>4
    <3> QED BY <3>4, <3>5 DEF a, b, q
  <2> QED BY <2>12 DEF WeekdayOfCount, WeekOfCount
<1> QED BY <1>1, DatesInductive, PTL DEF WeekKept

\* dayOfYear counts the days of the year, but for July and a leap February.
THEOREM DaysOfYear == Spec => []DayOfYearCounts
<1>1. Inv => DayOfYearCounts
  <2> SUFFICES ASSUME Inv, date.month # 6, ~(date.month = 1 /\ IsLeapYear(date.year))
               PROVE  DayOfYear(date) = DayCount(date) - DaysBeforeYear(date.year) + 1
    BY DEF DayOfYearCounts
  <2>1. /\ date \in Fields /\ date.year \in Int /\ date.day \in Int
        /\ date.month \in {0, 1, 2, 3, 4, 5, 6, 7, 8, 9, 10, 11}
    BY DEF Inv, TypeOK, Fields
  <2>2. DayOfYear(date) = DaysBeforeMonth(date.year, date.month) + date.day + 1
    BY <2>1 DEF DayOfYear, DaysInYearPreceedingMonth, DaysBeforeMonth, CommonDaysBeforeMonth
  <2>3. DaysBeforeYear(date.year) \in Int /\ DaysBeforeMonth(date.year, date.month) \in Nat
    BY <2>1, YearFollows, MonthFollows
  <2> QED BY <2>1, <2>2, <2>3 DEF DayCount
<1> QED BY <1>1, DatesInductive, PTL

-----------------------------------------------------------------------------
(* The order. *)

\* The first days of two years are in the order of the years.
LEMMA YearsOrdered ==
    ASSUME NEW x \in Int, NEW y \in Int, x < y
    PROVE  DaysBeforeYear(x + 1) <= DaysBeforeYear(y)
<1> DEFINE k == y - (x + 1)
           p4 == (x + 4) \div 4
           p100 == (x + 100) \div 100
           p400 == (x + 400) \div 400
           q4 == (y + 3) \div 4
           q100 == (y + 99) \div 100
           q400 == (y + 399) \div 400
<1>1. /\ p4 \in Int /\ p100 \in Int /\ p400 \in Int
      /\ q4 \in Int /\ q100 \in Int /\ q400 \in Int
      /\ k \in Int /\ k >= 0
  OBVIOUS
<1>2. p4 <= q4 /\ p400 <= q400
  OBVIOUS
<1>3. q100 <= p100 + k
  OBVIOUS
<1>4. DaysBeforeYear(x + 1) = 365 * (x + 1) + p4 - p100 + p400
  <2>1. x + 1 + 3 = x + 4 /\ x + 1 + 99 = x + 100 /\ x + 1 + 399 = x + 400
    OBVIOUS
  <2> QED BY <2>1 DEF DaysBeforeYear
<1>5. DaysBeforeYear(y) = 365 * y + q4 - q100 + q400
  BY DEF DaysBeforeYear
<1> HIDE DEF p4, p100, p400, q4, q100, q400
<1> QED BY <1>1, <1>2, <1>3, <1>4, <1>5

\* A date lies in its year.
LEMMA InItsYear ==
    ASSUME NEW d \in Fields, IsDate(d)
    PROVE  DaysBeforeYear(d.year) <= DayCount(d) /\ DayCount(d) < DaysBeforeYear(d.year + 1)
<1> DEFINE b == DaysBeforeMonth(d.year, d.month)
           length == IF IsLeapYear(d.year) THEN 366 ELSE 365
<1>1. d.month \in {0, 1, 2, 3, 4, 5, 6, 7, 8, 9, 10, 11} /\ d.year \in Int
  BY DEF Fields
<1>2. b + Length(d) <= length
  BY <1>1 DEF Length, MonthLength, DaysBeforeMonth, CommonDaysBeforeMonth
<1>3. b \in Nat /\ Length(d) \in 28 .. 31 /\ length \in Int
  BY MonthFollows
<1>4. d.day \in 0 .. Length(d) - 1
  BY DEF IsDate
<1>5. DaysBeforeYear(d.year + 1) = DaysBeforeYear(d.year) + length /\ DaysBeforeYear(d.year) \in Int
  BY <1>1, YearFollows
<1>6. DayCount(d) = DaysBeforeYear(d.year) + b + d.day
  BY DEF DayCount
<1> HIDE DEF b, length
<1> QED BY <1>2, <1>3, <1>4, <1>5, <1>6

\* Of two months of a year, the later begins when the earlier has ended.
LEMMA MonthsOrdered ==
    ASSUME NEW d \in Fields, NEW e \in Fields, d.year = e.year, d.month < e.month
    PROVE  DaysBeforeMonth(d.year, d.month) + Length(d) <= DaysBeforeMonth(e.year, e.month)
<1>1. /\ d.month \in {0, 1, 2, 3, 4, 5, 6, 7, 8, 9, 10, 11}
      /\ e.month \in {0, 1, 2, 3, 4, 5, 6, 7, 8, 9, 10, 11}
  BY DEF Fields
<1> QED BY <1>1, SMTT(60) DEF Length, MonthLength, DaysBeforeMonth, CommonDaysBeforeMonth

\* toInt orders dates by year, then month, then day.
LEMMA IntOrdersFields ==
    ASSUME NEW d \in Fields, NEW e \in Fields, IsDate(d), IsDate(e)
    PROVE  /\ ToInt(d) \in Int
           /\ ToInt(d) = ToInt(e) => d.year = e.year /\ d.month = e.month /\ d.day = e.day
           /\ ToInt(d) < ToInt(e) =>
                \/ d.year < e.year
                \/ d.year = e.year /\ d.month < e.month
                \/ d.year = e.year /\ d.month = e.month /\ d.day < e.day
<1>1. /\ d.year \in Int /\ d.month \in 0 .. 11 /\ d.day \in 0 .. 30
      /\ e.year \in Int /\ e.month \in 0 .. 11 /\ e.day \in 0 .. 30
  BY MonthFollows DEF IsDate, Fields
<1>2. PICK y \in Int, m \in 0 .. 11, k \in 0 .. 30 : d.year = y /\ d.month = m /\ d.day = k
  BY <1>1
<1>3. PICK x \in Int, n \in 0 .. 11, l \in 0 .. 30 : e.year = x /\ e.month = n /\ e.day = l
  BY <1>1
<1> DEFINE i == y * 10000 + (m + 1) * 100 + k + 1
           j == x * 10000 + (n + 1) * 100 + l + 1
<1>4. ToInt(d) = i /\ ToInt(e) = j
  BY <1>2, <1>3 DEF ToInt
<1>5. i \in Int /\ j \in Int
  OBVIOUS
<1>6. /\ y < x => i < j
      /\ x < y => j < i
  OBVIOUS
<1>7. y = x => i - j = (m - n) * 100 + (k - l)
  OBVIOUS
<1> HIDE DEF i, j
<1>8. /\ i = j => y = x /\ m = n /\ k = l
      /\ i < j => y < x \/ (y = x /\ m < n) \/ (y = x /\ m = n /\ k < l)
  BY <1>5, <1>6, <1>7
<1> QED BY <1>2, <1>3, <1>4, <1>5, <1>8

\* So does the day count.
LEMMA IntOrdersCount ==
    ASSUME NEW d \in Fields, NEW e \in Fields, IsDate(d), IsDate(e), ToInt(d) < ToInt(e)
    PROVE  DayCount(d) < DayCount(e)
<1>1. /\ d.year \in Int /\ d.day \in 0 .. Length(d) - 1 /\ Length(d) \in 28 .. 31
      /\ e.year \in Int /\ e.day \in 0 .. Length(e) - 1 /\ Length(e) \in 28 .. 31
  BY MonthFollows DEF IsDate, Fields
<1>2. DayCount(d) \in Int /\ DayCount(e) \in Int
  BY CountTyped
<1>3. CASE d.year < e.year
  <2>1. DayCount(d) < DaysBeforeYear(d.year + 1) /\ DaysBeforeYear(e.year) <= DayCount(e)
    BY InItsYear
  <2>2. DaysBeforeYear(d.year + 1) <= DaysBeforeYear(e.year)
    BY <1>1, <1>3, YearsOrdered
  <2>3. DaysBeforeYear(d.year + 1) \in Int /\ DaysBeforeYear(e.year) \in Int
    BY <1>1, YearFollows
  <2> QED BY <1>2, <2>1, <2>2, <2>3
<1>4. CASE d.year = e.year /\ d.month < e.month
  <2>1. DaysBeforeMonth(d.year, d.month) + Length(d) <= DaysBeforeMonth(e.year, e.month)
    BY <1>4, MonthsOrdered
  <2>2. /\ DaysBeforeMonth(d.year, d.month) \in Nat /\ DaysBeforeMonth(e.year, e.month) \in Nat
        /\ DaysBeforeYear(d.year) \in Int
    BY <1>1, MonthFollows, YearFollows
  <2> QED BY <1>1, <1>4, <2>1, <2>2 DEF DayCount
<1>5. CASE d.year = e.year /\ d.month = e.month /\ d.day < e.day
  <2>1. MonthStart(d) = MonthStart(e) /\ MonthStart(d) \in Int
    BY <1>5, CountTyped DEF MonthStart
  <2>2. DayCount(d) = MonthStart(d) + d.day /\ DayCount(e) = MonthStart(e) + e.day
    BY CountTyped
  <2> QED BY <1>1, <1>5, <2>1, <2>2
<1> QED BY <1>3, <1>4, <1>5, IntOrdersFields

\* compareTo puts any two dates an object passes through in the order of time.
THEOREM OrderFollows == Spec => OrderFollowsCount
<1> DEFINE A == (pc = "ready" /\ pc' = "ready" /\ IsDate(date) /\ IsDate(date'))
                => (ToInt(date) < ToInt(date') <=> DayCount(date) < DayCount(date'))
<1>1. Inv /\ Inv' => A
  <2> SUFFICES ASSUME Inv, Inv', IsDate(date), IsDate(date')
               PROVE  ToInt(date) < ToInt(date') <=> DayCount(date) < DayCount(date')
    OBVIOUS
  <2>1. date \in Fields /\ date' \in Fields
    BY DEF Inv, TypeOK, Fields
  <2> DEFINE e == date'
  <2>2. e \in Fields /\ IsDate(e)
    BY <2>1
  <2> HIDE DEF e
  <2>3. ToInt(date) < ToInt(e) => DayCount(date) < DayCount(e)
    BY <2>1, <2>2, IntOrdersCount
  <2>4. ToInt(e) < ToInt(date) => DayCount(e) < DayCount(date)
    BY <2>1, <2>2, IntOrdersCount
  <2>5. ToInt(e) = ToInt(date) => DayCount(e) = DayCount(date)
    BY <2>1, <2>2, IntOrdersFields DEF DayCount
  <2>6. /\ ToInt(date) \in Int /\ ToInt(e) \in Int
        /\ DayCount(date) \in Int /\ DayCount(e) \in Int
    BY <2>1, <2>2, IntOrdersFields, CountTyped
  <2>7. ToInt(date) < ToInt(e) <=> DayCount(date) < DayCount(e)
    BY <2>3, <2>4, <2>5, <2>6
  <2> QED BY <2>7 DEF e
<1> QED BY <1>1, DatesInductive, PTL DEF OrderFollowsCount

-----------------------------------------------------------------------------
(* The loops. *)

\* Every turn of _addDays' loops brings them nearer to their end (LoopsShrink),
\* from every date and for every number of days.
THEOREM LoopsComeToEnd == Spec => LoopsShrink
<1> DEFINE A == pc = "_addDays" => pc' = "ready" \/ Remaining' < Remaining
<1>1. Inv /\ [Next]_vars => [A]_vars
  <2> SUFFICES ASSUME Inv, Next, pc = "_addDays" PROVE pc' = "ready" \/ Remaining' < Remaining
    OBVIOUS
  <2>1. date \in Fields /\ date.day \in Int /\ Length(date) \in 28 .. 31
    <3>1. date \in Fields
      BY DEF Inv, TypeOK, Fields
    <3> QED BY <3>1, MonthFollows DEF Fields
  <2>2. Loops
    BY DEF Next, New, WeekdayFromWeek, AddDays, AddMonths, AddYears
  <2>3. CASE BorrowMonth
    <3> DEFINE before == ShiftMonths(date, -1)
    <3>1. -1 \in Int
      OBVIOUS
    <3>2. before \in Fields
      BY <2>1, <3>1, ShiftTyped
    <3>3. Length(before) \in 28 .. 31
      BY <3>2, MonthFollows
    <3>4. date'.day = date.day + Length(before) /\ date.day < 0
      BY <2>3, <3>2 DEF BorrowMonth, Fields
    <3> HIDE DEF before
    <3> QED BY <2>1, <3>3, <3>4 DEF Remaining
  <2>4. CASE CarryMonth
    <3> DEFINE next == ShiftMonths(date, 1)
    <3>1. next \in Fields
      BY <2>1, ShiftTyped
    <3>2. date'.day = date.day - Length(date) /\ date.day > Length(date) - 1
      BY <2>4, <3>1 DEF CarryMonth, Fields
    <3> QED BY <2>1, <3>2 DEF Remaining
  <2>5. CASE DaysAdded
    BY <2>5 DEF DaysAdded
  <2> QED BY <2>2, <2>3, <2>4, <2>5 DEF Loops
<1> QED BY <1>1, DatesInductive, PTL DEF Spec, LoopsShrink

\* The loops of _addMonths, which move 12 months at a time into the year, can
\* end with one year and month only, those of ShiftMonths.
THEOREM MonthLoopsShift ==
    ASSUME NEW d \in Fields, NEW n \in Int, NEW y \in Int, NEW m \in 0 .. 11,
           12 * y + m = 12 * d.year + (d.month + n)
    PROVE  ShiftMonths(d, n) = [d EXCEPT !.year = y, !.month = m]
<1> DEFINE k == d.month + n
<1>1. d.year \in Int /\ k \in Int
  BY DEF Fields
<1>2. ShiftMonths(d, n) = [d EXCEPT !.year = d.year + (k \div 12), !.month = k % 12]
  BY DEF ShiftMonths
<1>3. 12 * y + m = 12 * d.year + k
  OBVIOUS
<1> HIDE DEF k
<1>4. PICK x \in Int : d.year = x
  BY <1>1
<1>5. k = 12 * (y - x) + m
  BY <1>1, <1>3, <1>4
<1>6. k \div 12 = y - x /\ k % 12 = m
  BY <1>5
<1>7. d.year + (k \div 12) = y
  BY <1>4, <1>6
<1> QED BY <1>2, <1>6, <1>7

-----------------------------------------------------------------------------
(* copy(). *)

\* What fromInt makes of a number, up to _addDays' loops.
FromInt(n) ==
    LET first == ShiftMonths(Date(n \div 10000, 0, 0), OrFirst((n \div 100) % 100) - 1)
    IN  [first EXCEPT !.day = OrFirst(n % 100) - 1]

\* copy() is fromInt(toInt()): Copy is what these and the loops of _addDays
\* make of a date, which no loop changes, and of the lost leap day, which one
\* turn carries to March 1.
THEOREM CopyIsFromInt ==
    ASSUME NEW d \in Fields, d.year >= 0, IsDate(d) \/ IsLostLeapDay(d)
    PROVE  /\ FromInt(ToInt(d)) = d
           /\ IsDate(d) => Copy(d) = d
           /\ IsLostLeapDay(d) => /\ d.day > Length(d) - 1
                                  /\ Copy(d) = [ShiftMonths(d, 1) EXCEPT !.day = d.day - Length(d)]
<1>1. d.year \in Nat /\ d.month \in 0 .. 11 /\ d.day \in 0 .. 30
  <2>1. Length(d) \in 28 .. 31
    BY MonthFollows
  <2> QED BY <2>1 DEF IsDate, IsLostLeapDay, Fields
<1>2. PICK y \in Nat, m \in 0 .. 11, k \in 0 .. 30 : d.year = y /\ d.month = m /\ d.day = k
  BY <1>1
<1> DEFINE n == y * 10000 + (m + 1) * 100 + k + 1
<1>3. ToInt(d) = n
  BY <1>2 DEF ToInt
<1>4. n \div 10000 = y /\ n % 100 = k + 1
  OBVIOUS
<1>5. (n \div 100) % 100 = m + 1
  <2>1. n \div 100 = y * 100 + (m + 1)
    OBVIOUS
  <2> QED BY <2>1
<1>6. n \in Nat
  OBVIOUS
<1> HIDE DEF n
<1>7. FromInt(n) = [ShiftMonths(Date(y, 0, 0), m) EXCEPT !.day = k]
  <2>1. OrFirst(m + 1) - 1 = m /\ OrFirst(k + 1) - 1 = k
    BY DEF OrFirst
  <2> QED BY <1>4, <1>5, <2>1 DEF FromInt
<1>8. FromInt(n) = d
  <2> DEFINE start == Date(y, 0, 0)
             first == ShiftMonths(Date(y, 0, 0), m)
  <2>1. start \in Fields /\ start.year = y /\ start.month = 0
    BY DEF Date, Fields
  <2>2. first \in Fields /\ first.year = y /\ first.month = m
    <3> HIDE DEF start
    <3>1. start.month + m = m /\ m \in Int /\ m \in 0 .. 11
      BY <2>1
    <3>2. /\ ShiftMonths(start, m) \in Fields
          /\ ShiftMonths(start, m).year = start.year
          /\ ShiftMonths(start, m).month = start.month + m
      BY <2>1, <3>1, ShiftTyped
    <3> QED BY <2>1, <3>1, <3>2 DEF start
  <2> HIDE DEF first
  <2>3. [first EXCEPT !.day = k] = [year |-> y, month |-> m, day |-> k]
    BY <2>2 DEF Fields
  <2>4. d = [year |-> y, month |-> m, day |-> k]
    BY <1>2 DEF Fields
  <2> QED BY <1>7, <2>3, <2>4 DEF first
<1>9. IsDate(d) => Copy(d) = d
  <2> SUFFICES ASSUME IsDate(d), IsLostLeapDay(d) PROVE FALSE
    BY DEF Copy
  <2>1. Length(d) = 28
    BY DEF IsLostLeapDay, Length, MonthLength
  <2> QED BY <2>1 DEF IsDate, IsLostLeapDay
<1>10. ASSUME IsLostLeapDay(d)
       PROVE  /\ d.day > Length(d) - 1
              /\ Copy(d) = [ShiftMonths(d, 1) EXCEPT !.day = d.day - Length(d)]
  <2> DEFINE next == ShiftMonths(d, 1)
  <2>1. Length(d) = 28 /\ d.day = 28 /\ d.month = 1
    BY <1>10 DEF IsLostLeapDay, Length, MonthLength
  <2>2. next \in Fields /\ next.year = d.year /\ next.month = 2
    <3>1. 1 \in Int /\ d.month + 1 \in 0 .. 11 /\ d.month + 1 = 2
      BY <2>1
    <3> QED BY <3>1, ShiftTyped
  <2> HIDE DEF next
  <2>3. [next EXCEPT !.day = d.day - Length(d)] = Date(d.year, 2, 0)
    BY <2>1, <2>2 DEF Date, Fields
  <2> QED BY <1>10, <2>1, <2>3 DEF Copy, next
<1> QED BY <1>3, <1>8, <1>9, <1>10

-----------------------------------------------------------------------------
(* What the count says, and what would keep every object a date. *)

\* Two dates with the same day count are one date: DaysExact says which date
\* addDays ends with, and addDays(-n) takes addDays(n) back.
THEOREM CountNamesDate ==
    ASSUME NEW d \in Fields, NEW e \in Fields, IsDate(d), IsDate(e), DayCount(d) = DayCount(e)
    PROVE  d = e
<1>1. ToInt(d) \in Int /\ ToInt(e) \in Int /\ DayCount(d) \in Int
  BY IntOrdersFields, CountTyped
<1>2. ~(ToInt(d) < ToInt(e)) /\ ~(ToInt(e) < ToInt(d))
  BY <1>1, IntOrdersCount
<1>3. ToInt(d) = ToInt(e)
  BY <1>1, <1>2
<1>4. d.year = e.year /\ d.month = e.month /\ d.day = e.day
  BY <1>3, IntOrdersFields
<1> QED BY <1>4 DEF Fields

\* addYears is not asked for a common year on February 29.
LeapDaysKept ==
    [][\A n \in YearShifts : (AddYears(n) /\ date.month = 1 /\ date.day = 28) => IsLeapYear(date'.year)]_vars

\* addYears from February 29 to a common year is the only way to an object that
\* represents no day (RepresentsDay, which run lost_leap_day violates).
THEOREM DaysRepresented == Spec /\ LeapDaysKept => []RepresentsDay
<1> DEFINE K == \A n \in YearShifts :
                   (AddYears(n) /\ date.month = 1 /\ date.day = 28) => IsLeapYear(date'.year)
<1>1. Init => RepresentsDay
  BY InitInv DEF Init, Inv, AlmostDate, RepresentsDay, IsLostLeapDay, Date
<1>2. Inv /\ Inv' /\ RepresentsDay /\ [K]_vars /\ [Next]_vars => RepresentsDay'
  <2> SUFFICES ASSUME Inv, Inv', RepresentsDay, [K]_vars, [Next]_vars, pc' = "ready"
               PROVE  IsDate(date')
    BY DEF RepresentsDay, IsDate, Length
  <2>1. IsDate(date') \/ IsLostLeapDay(date')
    BY DEF Inv, AlmostDate, IsDate, Length, IsLostLeapDay
  <2>2. date \in Fields
    BY DEF Inv, TypeOK, Fields
  <2>3. CASE UNCHANGED vars
    BY <2>3 DEF vars, RepresentsDay, IsDate, Length
  <2>4. ASSUME NEW n \in YearShifts, AddYears(n), K PROVE IsDate(date')
    <3>1. IsDate(date) /\ date' = [Copy(date) EXCEPT !.year = Copy(date).year + n]
      BY <2>4 DEF AddYears, RepresentsDay
    <3>2. Copy(date) = date
      <4> SUFFICES ASSUME IsLostLeapDay(date) PROVE FALSE
        BY DEF Copy
      <4> QED BY <3>1 DEF IsDate, IsLostLeapDay, Length, MonthLength
    <3>3. date'.month = date.month /\ date'.day = date.day
      BY <2>2, <3>1, <3>2 DEF Fields
    <3>4. ~IsLostLeapDay(date')
      BY <2>4, <3>3 DEF IsLostLeapDay
    <3> QED BY <2>1, <3>4
  <2>5. ASSUME NEW n \in MonthShifts, AddMonths(n) PROVE IsDate(date')
    <3>1. n \in Int /\ Copy(date) \in Fields /\ IsDate(Copy(date))
      BY <2>2, <2>5, CalendarAssumption, CopyCounts DEF AddMonths, RepresentsDay
    <3> QED BY <2>5, <3>1, ClampMakesDate DEF AddMonths
  <2>6. CASE DaysAdded
    BY <2>2, <2>6 DEF DaysAdded, IsDate, Fields
  <2>7. CASE BorrowMonth \/ CarryMonth
    BY <2>7 DEF BorrowMonth, CarryMonth
  <2>8. ASSUME NEW y, NEW m, NEW d, New(y, m, d) PROVE FALSE
    BY <2>8 DEF New
  <2>9. ASSUME NEW n, AddDays(n) PROVE FALSE
    BY <2>9 DEF AddDays
  <2>10. CASE Next /\ K
    BY <2>4, <2>5, <2>6, <2>7, <2>8, <2>9, <2>10 DEF Next, Loops, WeekdayFromWeek
  <2>11. CASE Next /\ UNCHANGED vars
    BY <2>3, <2>11
  <2> QED BY <2>3, <2>10, <2>11
<1> QED BY <1>1, <1>2, DatesInductive, PTL DEF Spec, LeapDaysKept
=============================================================================
