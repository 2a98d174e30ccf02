CONSTANTS
  NEvents = 2
  Trigger = 1
  Requesters = {r1}
  MaxCount = 2
SPECIFICATION Spec
INVARIANTS
  TypeOK
  NoLostWakeup
  NoLostPoll
