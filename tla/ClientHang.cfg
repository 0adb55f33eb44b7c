CONSTANTS
  Commands <- One
  Foreign = "theirs"
  Tactical = TRUE
  Reconnecting = FALSE
  Pushes = FALSE
  MayRefuse = FALSE
  MaxRequests = 4
  MaxForeign = 0
  MaxForeignRuns = 1
  MaxRuns = 2
  MaxPushes = 0
  MaxOrphans = 0
SPECIFICATION ClientLiveSpec
PROPERTIES StartupSettles
CHECK_DEADLOCK FALSE
