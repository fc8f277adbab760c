CONSTANTS
  LookaheadWindows = 2
  Confs <- Deleted
SPECIFICATION Spec
CHECK_DEADLOCK FALSE
PROPERTIES
  DrainsDeletedTopic
