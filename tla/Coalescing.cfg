CONSTANTS
  b1 = b1
  b2 = b2
  o1 = o1
  o2 = o2
  o3 = o3
  OrderIds = {o1, o2, o3}
  NoId = NoId
  Prices <- MCThreePrices
  UndefPrice = UndefPrice
  MaxU32 = 3
  Depth = 2
  NoOrder = NoOrder
  NoLevel = NoLevel
  Books = {b1}
  Messages <- ChangeMessages
  NoMessage = NoMessage
  NoCandidate = NoCandidate
  MaxBuffered = 2
  RequireInitialClear = FALSE
  RejectMaybeBadBook = TRUE
  RejectAggregate = TRUE
SPECIFICATION HSpec
CHECK_DEADLOCK FALSE
PROPERTIES QuoteDepthSound QuoteImpactExact
