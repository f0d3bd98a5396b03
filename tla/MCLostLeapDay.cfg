SPECIFICATION RangeSpec
CONSTANTS
  Years <- LeapYears
  DayNumbers <- Numbers
  DayShifts <- Shifts
  MonthShifts <- Months
  YearShifts <- OneYear
  RangeEnds = {}
  MaxDates = 0
INVARIANTS RepresentsDay
