CONSTANTS
  Imports = {1, 2}
  Keys = {k1}
  Workers = {w1}
  Publishers = {p1}
  MaxCopies = 3
  Prefetch = 2
  BatchLimit = 1
  MaxFaults = 2
  NoMsg = NoMsg
  NoOne = NoOne
  NoEvent = NoEvent
  NoRequest = NoRequest
  NoKey = NoKey
  NoReply = NoReply
SPECIFICATION SysFairSpec
INVARIANTS
  EveryImportIsAccountedFor
  RetriesRepeatNoEffect
PROPERTIES
  ImplementsLifecycle
  EveryImportSettles
