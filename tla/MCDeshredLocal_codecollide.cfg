CONSTANTS
  Slots = {0}
  W = 1
  MaxShreds = 4
  Ends = {0}
  DataIdx <- IdxTo1
  CodeIdx = {0}
  OrderedEnds = TRUE
SPECIFICATION Spec
INVARIANT NoStrandedSegment
