CONSTANTS
  a = a
  b = b
  t1 = t1
  t2 = t2
  TotalSlots = 9
  QueueLen = 4
  SlotSize = 2
  Strides = {2}
  ControlStrides = {}
  Services = {a, b}
  Senders = {t1, t2}
  Svc <- OnePerService
  Closable = {}
  Handler = handler
  NoThread = NoThread
  NoService = NoService
  SlotQuotaOption = 0
  MessageQuotaOption = 0
  MaxMsgs = 5
SPECIFICATION Spec
CHECK_DEADLOCK FALSE
INVARIANTS DataQuotaRespected
