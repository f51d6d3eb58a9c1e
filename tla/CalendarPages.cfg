SPECIFICATION Spec
CONSTANTS
  work = work
  shared = shared
  NoRow = NoRow
  None = None
  Minute = 2
  HalfHour = 2
  DayLen = 16
  WeekLen = 2
  Months = 8
  MonthStart <- MCMonthStart
  MonthCells = 4
  Standard <- MCStandard
  SummerStart = 92
  SummerEnd = 124
  ForwardDay = 5
  BackDay = 7
  AwayOffset = 12
  Calendars = {work, shared}
  ReadOnly = {shared}
  Ids = {1, 2, 3}
  Limit = 2
  CellLimit = 1
  Objects <- MCObjects
  Earlier <- MCEarlier
  Titles <- MCTitles
  Times <- MCTimes
  Nows <- MCNows
  Dates = {5, 6, 7}
  MaxChanges = 2
INVARIANTS TypeOK PagesShowTheirDays PagesTile DashboardLeadsAgenda WrittenTextReadsBack
PROPERTIES ClickOpensEvent SavingKeepsEvent
