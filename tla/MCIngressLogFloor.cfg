CONSTANTS
  SegmentFrames = 2
  CompactRotateFrames = 1
  Confs <- Quiet
SPECIFICATION Spec
INVARIANT FloorHidesNoSegment
CHECK_DEADLOCK FALSE
