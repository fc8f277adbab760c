CONSTANTS
  LogEnd = 2
  HeapCompactSlack = 0
  Nonces = {n1, n2}
  Timeouts = {1}
  CapsChoices <- MCCaps
SPECIFICATION Spec
PROPERTIES
  SettledStaysSettled
  PersistedNeverRegresses
  RedeliveredUntilSettled
