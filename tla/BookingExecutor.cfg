SPECIFICATION Spec
CONSTANTS
  crossfit = crossfit
  yoga = yoga
  open = open
  Classes = {crossfit, yoga, open}
  Primary = crossfit
  NoClass = NoClass
  MaxAligns = 2
  MaxPolls = 2
  MaxSeats = 1
  ResLies = FALSE
INVARIANTS
  SubstitutionExplained
  RosterDecides
  RefusalNotDisguised
PROPERTIES
  KeepsPromise
  Settles
