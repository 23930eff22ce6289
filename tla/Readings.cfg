SPECIFICATION Spec
CONSTANTS
  Machines <- MCMachines
  Screens <- MCScreens
  Launch <- MCLaunch
  Upsets <- MCUpsets
  Capacity = 2
  MaxSamples = 4
  MaxUpsets = 2
INVARIANTS
  ScreensAgree
  SensorsKeepTheirPlace
  WindowFits
  TerminalFits
  HistoryIsOwn
