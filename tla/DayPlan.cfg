SPECIFICATION Spec
CONSTANTS
  r1 = r1
  q1 = q1
  q2 = q2
  Rules = {r1}
  Requests = {q1, q2}
  TheZone <- MCZone
  Timings <- MCTimings
  Instants <- MCInstants
  Vacations <- MCVacations
  DayLen = 12
  Dates = {7, 8}
  ListDays = 14
  MaxPerRule = 5
  MaxRoll = 3
  PrewarmLead = 1
  Margin = 2
  MaxAnswer = 2
  MaxRequests = 2
  MaxRestarts = 1
  MaxLate = 1
  MaxRepeats = 1
  MaxRun = 3
  Delay = 3
  None = None
SYMMETRY MCSymmetry
INVARIANTS
  RecordsTrue
  VacationClears
  CancelStays
  PriorityWorks
PROPERTIES
  AcceptedIsHonoured
  PagesForetell
CHECK_DEADLOCK FALSE
