CONSTANTS
  t1 = t1
  t2 = t2
  Threads = {t1, t2}
  Words = 2
  Bits = {0, 1}
SPECIFICATION FairSpec
INVARIANTS
  ExclusiveOwnership
  PacketConservation
  NoneOnlyUnderChurn
PROPERTIES
  LockFree
  ImplementsPacketPoolSpec
