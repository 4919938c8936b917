CONSTANTS
  Imports = {i1, i2}
  BeatPeriod = 1
  CountPeriod = 2
  MaxBusy = 2
  AlertAfter = 4
  MaxFaults = 2
  MaxPassed = 1
SPECIFICATION FairSpec
INVARIANTS
  AlertMeansStarved
PROPERTIES
  GaugeCatchesUp
