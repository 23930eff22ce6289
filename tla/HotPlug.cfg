SPECIFICATION FairSpec
CONSTANTS
  Devices <- MCDevices
  Stages = 2
  Category <- MCCategory
  CheckEvery = 2
  None <- MCNone
  MaxChanges = 3
  MaxFaults = 1
INVARIANTS
  RebuildsAreEarned
PROPERTIES
  ChangeIsAdopted
