SPECIFICATION FairSpec
CONSTANTS
  ChunkSize = 2
  Modulus = 7
  TxRoom = 8
  RxRoom = 6
  RestartBacklog = 0
  TimerPoke = FALSE
  Faults = TRUE
INVARIANTS
  TypeOK
  WritesFramed
  BacklogExact
  StreamAlive
  RepliesMatched
PROPERTIES
  MainReturns
  PlaybackGoesOn
