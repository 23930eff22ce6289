SPECIFICATION DownloadFairSpec
CONSTANTS
  MaxAttempts = 2
  MaxRelaunches = 1
INVARIANTS
  OrphansAreCancelled
PROPERTIES
  NoSurpriseLaunch
  CancelledWorkersEnd
  LoneOutcomeIsApplied
CHECK_DEADLOCK FALSE
