CONSTANTS
  Processes = {p1, p2}
  Overwrites = {}
  Nonces = {n1, n2}
  Attempts = 1
  NoTemp = NoTemp
  MaxAbandoned = 0
SPECIFICATION Spec
CHECK_DEADLOCK FALSE
PROPERTIES NeverReplaced
