SPECIFICATION FairSpec
CONSTANTS
  Monitors = {m1, m2}
  MaxPlug = 2
  MaxDisturb = 1
  MaxLaunch = 2
INVARIANTS
  FullWindowIsWhole
  RestoresWhereItWas
  ModeIsOnDisk
PROPERTIES
  StripSettles
CHECK_DEADLOCK FALSE
