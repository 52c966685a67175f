SPECIFICATION Spec
CONSTANTS
  first = first
  second = second
  noon = noon
  evening = evening
  Classes = {first, second, noon, evening}
  v1 = v1
  v2 = v2
  Visits = {v1, v2}
  Start <- MCStart
  Ticks = 4
  FirstDay = 3
  LastDay = 4
  EndOfTime = 16
  History <- MCHistory
  NoInstant = NoInstant
  Unread = Unread
  Months <- MCMonths
  Cap = 2
  Horizon = 2
  MaxMoves = 1
  MaxFailures = 1
  EverFull = {second, noon}
  Excluded = {}
  Settle = 1
  FreeLead = 3
  VeryLateLead = 2
  BaseCost = 1
  LatePenalty = 1
  VeryLatePenalty = 3
  AbsencePenalty = 2
  PeriodDays <- MCPeriodDays
  MinBookings = 2
INVARIANT StreakSaysAtLeast
CHECK_DEADLOCK FALSE
