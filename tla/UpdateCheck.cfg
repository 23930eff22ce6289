SPECIFICATION Spec
CONSTANTS
  Newest = 1
  TTL = 1
  ManualMax = 1
  MaxRestarts = 2
  MaxSteps = 1
INVARIANTS
  CheckingHasCheck
  TornByOverlap
PROPERTIES
  FetchIsDue
