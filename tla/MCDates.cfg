SPECIFICATION FairRangeSpec
CONSTANTS
  Years <- CenturyYears
  DayNumbers <- Numbers
  DayShifts <- Shifts
  MonthShifts <- Months
  YearShifts <- OneYear
  RangeEnds <- Ends
  MaxDates = 3
INVARIANTS TypeOK DaysExact AlmostDate WeekdayFollowsCount DayOfYearCounts RangeExact
PROPERTIES OrderFollowsCount WeekKept LoopsShrink MethodsEnd RangeAscends RangesEnd
