SPECIFICATION FairSpec
CONSTANTS
  Stages = 2
  PipeCap = 2
  MaxSets = 1
  MaxFaults = 1
  Intervals <- MCIntervals
  ValidIntervals <- MCValidIntervals
  DefaultInterval <- MCDefaultInterval
INVARIANTS
  PartialExact
  AtMostOneLateLine
  NoLeakedMonitor
PROPERTIES
  ShutdownReachesSilentService
  ImplementsServiceProcess
  LoadingCompletes
  SettingReachesService
