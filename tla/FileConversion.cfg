CONSTANTS
  Processes = {p1, p2, p3}
  Overwrites = {p1, p2}
  Nonces = {n1, n2}
  Attempts = 2
  NoTemp = NoTemp
  MaxAbandoned = 2
SPECIFICATION Spec
SYMMETRY Alike
CHECK_DEADLOCK FALSE
INVARIANTS TypeOk OutputWhole NoLeftovers OwnFileOnly
