CONSTANTS
  Commands <- Two
  Foreign = "theirs"
  Tactical = TRUE
  Reconnecting = FALSE
  Pushes = FALSE
  MayRefuse = TRUE
  MaxRequests = 4
  MaxForeign = 1
  MaxForeignRuns = 1
  MaxRuns = 2
  MaxPushes = 0
  MaxOrphans = 2
SPECIFICATION ClientLiveSpec
INVARIANTS ClientTypeOK OneConfirmAtATime AppliedAtMostOnce
PROPERTIES StartupEnds RequestsSettle AcceptedIsShown ShownNeverRegresses
CHECK_DEADLOCK FALSE
