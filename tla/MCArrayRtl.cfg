SPECIFICATION BothSpec
CONSTANTS
  Data = {0, 1}
  Depth = 3
  Initial = 0
  MaxEdges = 8
INVARIANTS TypeOK PtrInArray TapsInOrder SameTail
PROPERTIES ImplementsDelayLine ShallowImplementsDelayLine
CHECK_DEADLOCK FALSE
