CONSTANTS
  LogEnd = 3
  HeapCompactSlack = 0
  Nonces = {n1, n2}
  Timeouts = {2}
  CapsChoices <- MCCaps
SYMMETRY Symmetry
SPECIFICATION Spec
INVARIANTS
  TypeOK
  FrontierSettled
  NextFreeSound
  LeaseCanLapse
  OneLeasePerUnsettledOffset
  NothingUnpersisted
  AheadBounded
