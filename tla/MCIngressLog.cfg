CONSTANTS
  SegmentFrames = 2
  CompactRotateFrames = 1
  Confs <- MCConfs
SPECIFICATION Spec
INVARIANTS
  TypeOK
  NoAckedRecordLost
  AckedSeqsUnique
  ReplayedIsDurable
  NothingHiddenFromDispatch
  NoGapBelowOldest
  OpensAfterAnyCrash
  CheckpointFlushDue
PROPERTIES
  CallsReturn
  AckedIsDispatched
CHECK_DEADLOCK FALSE
