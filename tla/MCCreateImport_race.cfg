CONSTANTS
  Requests = {r1, r2}
  Keys = {k1}
  NoRequest = NoRequest
  NoKey = NoKey
  NoReply = NoReply
  MaxFaults = 0
CHECK_DEADLOCK FALSE
SPECIFICATION Spec
INVARIANTS
  RepeatGetsTheImport
