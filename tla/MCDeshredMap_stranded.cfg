CONSTANTS
  Slots = {0}
  MaxData = 4
  Ends = {1, 3}
  DataIdx <- MapIdx3
  CodeIdx = {}
  Lookback = 1
  CleanupEvery = 4
  Variants = {}
SPECIFICATION Spec
INVARIANT NoStrandedSegment
