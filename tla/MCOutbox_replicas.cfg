CONSTANTS
  NoOne = NoOne
  NoEvent = NoEvent
  Events = {1, 2}
  Publishers = {p1, p2}
  Flaky = {p1}
  BatchLimit = 2
  MaxFaults = 2
SPECIFICATION FairSpec
INVARIANTS
  TypeOK
  ExclusiveClaim
  SingleCopyUnlessDisturbed
PROPERTIES
  ImplementsAtLeastOnce
  PublishedOnceConnected
