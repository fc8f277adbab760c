CONSTANTS
  LookaheadWindows = 2
  Confs <- Flapping
SPECIFICATION Spec
CHECK_DEADLOCK FALSE
PROPERTIES
  LaunchReturns
