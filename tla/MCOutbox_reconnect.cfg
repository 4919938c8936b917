CONSTANTS
  NoOne = NoOne
  NoEvent = NoEvent
  Events = {1}
  Publishers = {p1}
  Flaky = {p1}
  BatchLimit = 1
  MaxFaults = 1
SPECIFICATION FairSpec
PROPERTIES
  EventuallyPublished
