SPECIFICATION Spec
CONSTANTS
  BusyTries = 4
  StartTries = 3
  StartLag = 2
  Grace = 2
  Linger = 1
  MaxFaults = 0
INVARIANTS
  ReconnectWaitsForService
