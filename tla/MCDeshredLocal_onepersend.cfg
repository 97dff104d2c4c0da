CONSTANTS
  Slots = {0}
  W = 1
  MaxShreds = 4
  Ends = {1, 2}
  DataIdx <- IdxTo2
  CodeIdx <- NoIdx
  OrderedEnds = TRUE
SPECIFICATION Spec
INVARIANT NoStrandedSegment
