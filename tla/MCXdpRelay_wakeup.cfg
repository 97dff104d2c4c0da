CONSTANTS
  f1 = f1
  f2 = f2
  f3 = f3
  f4 = f4
  f5 = f5
  f6 = f6
  f7 = f7
  f8 = f8
  Frames <- EightFrames
  RxSize = 2
  TxSize = 2
  BatchSize = 2
  Kinds = {"short", "nonudp", "udp"}
  Forward = TRUE
  NeedWakeup = TRUE
  SyncPublishes = TRUE
SPECIFICATION Spec
INVARIANT FrameConservation
INVARIANT RingBounds
INVARIANT FillFallbackUnused
PROPERTY ReceiveReady
