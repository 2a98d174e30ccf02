SPECIFICATION Spec
CONSTANTS
  ChunkSize = 2
  Modulus = 7
  TxRoom = 8
  RxRoom = 6
  RestartBacklog = 0
  TimerPoke = FALSE
  Faults = FALSE
INVARIANTS
  CancelEndsTerminating
