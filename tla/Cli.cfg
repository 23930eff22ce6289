SPECIFICATION CliFairSpec
CONSTANTS
  Tokens = {"--json", "--once", "--no-color", "--watch", "60", "61", "--help", "--bogus"}
  MaxArgs = 2
  Stages = 2
  MaxSample = 6
  PerSecond = 2
INVARIANTS
  SamplesAreSettled
  EndsClean
PROPERTIES
  LoadingEnds
CHECK_DEADLOCK FALSE
