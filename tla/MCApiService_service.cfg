CONSTANTS
  Requests = {r1, r2, r3}
  MaxAttempts = 3
  MaxConns = 2
  MaxFaults = 3
SPECIFICATION FairSpec
INVARIANTS
  TypeOK
  RetriesLeakNothing
PROPERTIES
  GracefulExitAbortsNothing
  ServesAgain
