CONSTANTS
  LogEnd = 2
  HeapCompactSlack = 0
  Consumers = {c1, c2}
  Nonces = {n1}
  Caps <- MCCaps
  HoldIds = {}
  Confs <- Gap
SYMMETRY Symmetry
SPECIFICATION Spec
INVARIANTS
  NoPollOutlivesTopic
