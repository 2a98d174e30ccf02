SPECIFICATION FairSpec
CONSTANTS
  QueueSize = 2
  QueueMessages = 4
  Users = {u1, kat}
  Keepalive = kat
  ForceFailMax = 2
  MaxUses = 1
  MaxForces = 3
  MaxRemoteUses = 1
  SyncSenders = {y1, y2}
  MaxSyncMessages = 4
  Sides = {"arm", "vc"}
  Resumers = {"vc"}
  ConnRoom = 2
  MaxData = 2
  MaxPauses = 2
  Adders = {a1, a2, a3}
  Connector = a0
  MaxCallbacks = 2
  TimerIds = {w1, w2}
  Wrap = 5
  MaxDelay = 2
  MaxCompletes = 1
  MaxTicks = 7
  p1 = p1
  p2 = p2
  Transfers = {p1, p2}
  PageSize = 2
  LineSize = 2
  MaxFragments = 1
  PageNumbers = {0, 1, 2}
  MaxPages <- MCMaxPages
  RingSize = 1
  InboxSize = 2
  MaxInbox = 3
INVARIANTS
  TypeOK
  QueueExact
  SuspendSound
  SyncOneOwner
  PauseQuiet
  CalledOnce
  JiffiesOnTime
  PageListExact
  ProcessTold
PROPERTIES
  UseReturns
  SyncSendReturns
  PauseAnswered
CHECK_DEADLOCK FALSE
