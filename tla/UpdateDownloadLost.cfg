SPECIFICATION DownloadFairSpec
CONSTANTS
  MaxAttempts = 2
  MaxRelaunches = 0
PROPERTIES
  OutcomeIsApplied
CHECK_DEADLOCK FALSE
