CONSTANTS
  Slots = {0, 2}
  MaxData = 4
  Ends = {1, 3}
  DataIdx <- MapIdx4
  CodeIdx = {0}
  Lookback = 1
  CleanupEvery = 3
  Variants <- MapVariants
SPECIFICATION Spec
INVARIANT TypeOK
INVARIANT StatusMatchesStored
INVARIANT EmitsWholeSegmentsInOrder
INVARIANT PrescanDropsOnlyUndecodable
