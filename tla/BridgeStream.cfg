CONSTANTS
  Commands <- One
  Foreign = "theirs"
  Tactical = FALSE
  Reconnecting = TRUE
  Pushes = TRUE
  MayRefuse = FALSE
  MaxRequests = 4
  MaxForeign = 1
  MaxForeignRuns = 1
  MaxRuns = 2
  MaxPushes = 1
  MaxOrphans = 1
SPECIFICATION Spec
INVARIANTS MirrorIsGenuine MirrorKeepsUp
CHECK_DEADLOCK FALSE
