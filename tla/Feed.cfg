SPECIFICATION FairSpec
CONSTANTS
  Startup = 5
  LineSilence = 1
  FeedSilence = 3
  Sleeps <- MCLongSleeps
  MaxSleeps = 2
INVARIANTS
  FrozenIsNotRunning
PROPERTIES
  NoFalseAlarm
  SilenceIsShown
