CONSTANTS
  SegmentFrames = 2
  CompactRotateFrames = 1
  Confs <- Prepared
SPECIFICATION Spec
INVARIANT OpensWithPreparedSegments
CHECK_DEADLOCK FALSE
