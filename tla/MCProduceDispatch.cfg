CONSTANTS
  LookaheadWindows = 2
  Confs <- MCConfs
SPECIFICATION Spec
CHECK_DEADLOCK FALSE
INVARIANTS
  TypeOK
  SettledBehindCheckpoint
  HeldOnce
  SkippedFindable
  NoOvertaking
  OnceWithoutFaults
PROPERTIES
  ImplementsOutbox
  Drains
