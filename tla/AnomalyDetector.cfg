SPECIFICATION Spec
CONSTANTS
  wod = wod
  yoga = yoga
  Rules = {wod, yoga}
  TimingOf <- MCTimingOf
  Zones <- MCZones
  DayLen = 24
  Grace = 1
  Lookback = 4
  Refire = 6
  Retention = 24
  Start = 20
  Horizon = 54
  MaxOutage = 1
  MaxEdits = 1
  None = None
INVARIANTS
  MissedReported
  PromptRunNotAlarmed
  AlertRemembers
CHECK_DEADLOCK FALSE
