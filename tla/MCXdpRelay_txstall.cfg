CONSTANTS
  f1 = f1
  f2 = f2
  f3 = f3
  f4 = f4
  f5 = f5
  f6 = f6
  f7 = f7
  f8 = f8
  Frames <- SixFrames
  RxSize = 2
  TxSize = 1
  BatchSize = 2
  Kinds = {"short", "udp"}
  Forward = TRUE
  NeedWakeup = TRUE
  SyncPublishes = TRUE
SPECIFICATION Spec
PROPERTY TxEventuallySent
