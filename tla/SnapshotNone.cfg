CONSTANTS
  b1 = b1
  b2 = b2
  o1 = o1
  o2 = o2
  o3 = o3
  OrderIds = {o1, o2, o3}
  NoId = NoId
  Prices <- MCTwoPrices
  UndefPrice = UndefPrice
  MaxU32 = 3
  Depth = 1
  NoOrder = NoOrder
  NoLevel = NoLevel
  Books = {b1}
  Messages <- SnapshotMessages
  NoMessage = NoMessage
  NoCandidate = NoCandidate
  MaxBuffered = 2
  RequireInitialClear = TRUE
  RejectMaybeBadBook = TRUE
  RejectAggregate = TRUE
SPECIFICATION HSpec
CHECK_DEADLOCK FALSE
INVARIANTS SnapshotEndsAtNone
