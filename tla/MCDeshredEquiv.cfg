CONSTANTS
  Slots = {0}
  W = 1
  MaxShreds = 4
  Ends = {1, 3}
  DataIdx = {0, 1, 2, 3}
  CodeIdx = {}
SPECIFICATION Spec
INVARIANT SameOutput
