CONSTANTS
  Imports = {i1}
  Workers = {w1}
  MaxCopies = 1
  Prefetch = 1
  MaxFaults = 1
  NoMsg = NoMsg
SPECIFICATION Spec
CHECK_DEADLOCK FALSE
INVARIANTS
  DeadLetterQueueMatchesStatus
