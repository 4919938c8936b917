CONSTANTS
  Callers = {c1, c2}
  Threshold = 2
  OpenFor = 2
  MaxAttempts = 2
  MaxTicks = 1
  LabMode = TRUE
SPECIFICATION SimFairSpec
INVARIANTS
  SimTypeOK
  ProbeIsRunning
  OneProbe
  FlakyFailsOnlyByInterference
PROPERTIES
  NobodyPassesTheProbe
  RepeatedEffectMeansLostAnswer
  Recovers
