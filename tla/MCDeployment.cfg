SPECIFICATION Spec
CONSTANTS
  MaxCodes = 4
  MaxContracts = 4
  MaxBroadcasts = 8
  None = None
INVARIANTS
  PairNoted
  RolesKept
PROPERTIES
  MinterMigratesFirst
CHECK_DEADLOCK FALSE
