CONSTANTS
  DayLength = 5
  StartHour = 1
  EndHour = 3
  WeekLength = 4
  WorkingDays = {0, 1}
  Holidays = {2, 4, 5}
  Datetimes <- MCDatetimes
  Amounts <- MCAmounts
SPECIFICATION CalendarFairSpec
INVARIANT
  AnswersAreExact
PROPERTY
  EveryCallReturns
