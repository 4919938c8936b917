CONSTANTS
  Imports = {i1}
  Workers = {w1, w2}
  MaxCopies = 2
  Prefetch = 2
  MaxFaults = 2
  NoMsg = NoMsg
SPECIFICATION FairSpec
CHECK_DEADLOCK FALSE
INVARIANTS
  TypeOK
  NoSilentLoss
  ProcessedBeforeSettled
  EffectOnceUnlessRedelivered
PROPERTIES
  MessageSettles
