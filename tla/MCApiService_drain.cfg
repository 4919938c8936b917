CONSTANTS
  Requests = {r1}
  MaxAttempts = 1
  MaxConns = 1
  MaxFaults = 1
SPECIFICATION Spec
PROPERTIES
  DrainsUntilDeadline
