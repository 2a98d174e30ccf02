SPECIFICATION FairSpec
CONSTANTS
  b1 = b1
  b2 = b2
  NumBulks = 2
  BulkThreads = {b1, b2}
  BulkCalls <- MCBulkCalls
  MessageRoom = 1
  ClientThreads = {c1, c2}
  Openers = {c1}
  ServerThreads = {s1}
  LifeRoom = 2
  MaxOpens = 2
  MaxAdds = 1
  MaxUps = 2
  Shims = {h1, h2}
  ShimServers = {h2}
  Readers = {h1, h2}
  Holders = {h1}
  Places = {p1, p2}
  HeaderQueue = 1
  MaxServes = 2
  NoShim = NoShim
INVARIANTS
  TypeOK
  BulkRing
  BulkOutcomes
  ServiceRefs
  EndsAgree
  ShimSound
PROPERTIES
  BulkReturns
  LifeCallsReturn
CHECK_DEADLOCK FALSE
