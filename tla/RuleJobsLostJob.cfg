SPECIFICATION CalmSpec
CONSTANTS
  evening = evening
  noon = noon
  r1 = r1
  Rules = {r1}
  Timings = {evening, noon}
  NoTiming = NoTiming
  NoRule = NoRule
  Opens <- MCOpens
  Lead = 2
  Offset = 1
  Threshold = 1
  MaxLate = 3
  MaxRun = 4
  Horizon = 16
  MaxTime = 25
  MaxEdits = 0
  MaxRestarts = 1
  EarlyReturn = TRUE
  EditDuringRun = FALSE
INVARIANT OneJobPerActiveRule
