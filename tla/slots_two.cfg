CONSTANTS
  a = a
  b = b
  t1 = t1
  t2 = t2
  TotalSlots = 7
  QueueLen = 4
  SlotSize = 2
  Strides = {1, 2}
  ControlStrides = {1}
  Services = {a, b}
  Senders = {t1, t2}
  Svc <- OnePerService
  Closable = {}
  Handler = handler
  NoThread = NoThread
  NoService = NoService
  SlotQuotaOption = 2
  MessageQuotaOption = 2
  MaxMsgs = 4
SPECIFICATION Spec
CHECK_DEADLOCK FALSE
SYMMETRY Swap
INVARIANTS
  TypeOK
  SlotMutexHeld
  SlotAccounting
  SlotsConserved
  QuotaAccounting
  ServiceQuotaRespected
PROPERTIES
  StreamSpec
