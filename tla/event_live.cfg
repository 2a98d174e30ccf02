CONSTANTS
  NEvents = 1
  Trigger = 1
  Requesters = {r1}
  MaxCount = 1
SPECIFICATION FairSpec
PROPERTIES
  WorkSeen
  PollHandled
