CONSTANTS
  Slots = {0, 1, 3}
  W = 2
  MaxShreds = 4
  Ends = {1, 3}
  DataIdx <- IdxTo4
  CodeIdx = {0}
  OrderedEnds = FALSE
SPECIFICATION Spec
INVARIANT TypeOK
INVARIANT NoReprocessing
INVARIANT SegmentEndsAhead
PROPERTY ImplementsSegmentStream
