CONSTANTS
  LogEnd = 2
  HeapCompactSlack = 0
  Consumers = {c1, c2}
  Nonces = {n1, n2}
  Caps <- MCCaps
  HoldIds = {h1, h2}
  Confs <- MCConfs
SYMMETRY Symmetry
SPECIFICATION Spec
INVARIANTS
  TypeOK
  NoLostWake
  NoOrphanLease
  ReleaseWakesAll
  OutstandingIsHolds
