CONSTANTS
  Requests = {r1, r2, r3}
  Keys = {k1, k2}
  NoRequest = NoRequest
  NoKey = NoKey
  NoReply = NoReply
  MaxFaults = 2
CHECK_DEADLOCK FALSE
SPECIFICATION FairSpec
INVARIANTS
  TypeOK
  OneImportPerKey
  ImportIffEvent
  RetryIsReplayed
  ErrorMeansRace
PROPERTIES
  ImplementsIdempotentCreate
  EveryRequestAnswered
