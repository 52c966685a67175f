SPECIFICATION WorkerSpec
CONSTANTS
  early = early
  late = late
  third = third
  cookieInvalid = cookieInvalid
  Runs = {early, late, third}
  NoRun = NoRun
  AlertOf <- MCAlertOf
  NoAlert = NoAlert
  Ids <- MCIds
  Channels <- MCChannels
  NoId = NoId
  MaxAttempts = 2
  MaxRestarts = 1
  Seeded <- MCSeeded
  Poison = {3}
INVARIANTS
  OnlyPersistedIsShown
  LossExplained
  DeliveriesTrue
PROPERTIES
  DispatcherKept
  PersistedIsTold
CHECK_DEADLOCK FALSE
