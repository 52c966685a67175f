SPECIFICATION HeartbeatSpec
CONSTANTS
  None = None
  Windows = {3, 6, 9}
  Ceiling = 3
  LeadTime = 2
  RefireInterval = 2
  Horizon = 4
  MaxCookies = 2
INVARIANTS
  RenewalStands
  ProjectionHonest
PROPERTIES
  ProjectionNeverGrows
CHECK_DEADLOCK FALSE
