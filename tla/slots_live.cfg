CONSTANTS
  a = a
  b = b
  t1 = t1
  t2 = t2
  TotalSlots = 7
  QueueLen = 4
  SlotSize = 2
  Strides = {2}
  ControlStrides = {}
  Services = {a, b}
  Senders = {t1, t2}
  Svc <- OnePerService
  Closable = {a}
  Handler = handler
  NoThread = NoThread
  NoService = NoService
  SlotQuotaOption = 1
  MessageQuotaOption = 0
  MaxMsgs = 4
SPECIFICATION FairSpec
CHECK_DEADLOCK FALSE
PROPERTIES SendReturns
