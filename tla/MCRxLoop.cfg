CONSTANTS
  f1 = f1
  f2 = f2
  f3 = f3
  f4 = f4
  f5 = f5
  f6 = f6
  Frames <- SixFrames
  RxSize = 3
SPECIFICATION Spec
\* rx_loop returns once exit is set; the kernel then stops once Fill is
\* empty or RX is full, so the system really comes to rest.
CHECK_DEADLOCK FALSE
INVARIANTS
  TypeOK
  FillToppedUp
  RingBounds
PROPERTIES
  ReceiveReady
  ExitHonoured
