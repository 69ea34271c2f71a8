CONSTANTS
  o1 = o1
  o2 = o2
  o3 = o3
  OrderIds = {o1, o2, o3}
  NoId = NoId
  Prices <- MCPrices
  UndefPrice = UndefPrice
  MaxU32 = 3
  Depth = 2
  NoOrder = NoOrder
  NoLevel = NoLevel
  Messages <- MCMessages
SYMMETRY MCSymmetry
SPECIFICATION Spec
INVARIANTS TypeOk AggregatesMatch NoInternalError
PROPERTIES DepthSound ImplementsRestingOrders
CHECK_DEADLOCK FALSE
