SPECIFICATION Spec
CONSTANTS
  None = None
  LogEnd = 3
  Copies <- MCCopies
  Confs <- MCConfs
INVARIANTS
  TypeOK
  PowerLossKeepsFlushed
  ShardOfThisCopy
PROPERTIES
  ImplementsAckStore
  AcksReachTheFiles
