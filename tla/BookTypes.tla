------------------------------ MODULE BookTypes ------------------------------
(***************************************************************************)
(* The values an order book is made of, and what a level of it must show   *)
(* when only the resting orders are known.  Shared by the abstract book    *)
(* (RestingOrders) and by the one the converter maintains (BookOps).       *)
(***************************************************************************)
EXTENDS Integers, FiniteSets

CONSTANTS
  OrderIds,    \* the order ids a message may carry, other than 0
  NoId,        \* order_id = 0
  Prices,      \* the fixed-point prices a message may carry
  UndefPrice,  \* kUndefPrice
  MaxU32,      \* the largest uint32: 2^32 - 1 in the code
  Depth,       \* kDepth, the levels of a side that a record shows: 10
  NoOrder,     \* an id the orders map does not hold
  NoLevel      \* a price the levels map does not hold

ASSUME IdAssumption == IsFiniteSet(OrderIds) /\ NoId \notin OrderIds
ASSUME PriceAssumption ==
  Prices \subseteq Int /\ IsFiniteSet(Prices) /\ UndefPrice \notin Prices
ASSUME WidthAssumption == MaxU32 \in Nat /\ MaxU32 > 1
ASSUME DepthAssumption == Depth \in Nat \ {0}

Sides == {"Bid", "Ask"}
U32 == 0 .. MaxU32
UndefSize == MaxU32                     \* kUndefOrderSize

Order == [side : Sides, price : Prices, size : U32]
Level == [size : U32, count : U32]

ASSUME SentinelAssumption ==
  NoOrder \notin Order /\ NoLevel \notin [size : Nat, count : Nat]

OrderMap == [OrderIds -> Order \cup {NoOrder}]
LevelMap == [Sides -> [Prices -> Level \cup {NoLevel}]]

BookActions == {"Add", "Cancel", "Modify"}

\* The part of an MboMsg that a book looks at.
OrderMessage == [action : BookActions \cup {"Clear"},
                 side : Sides \cup {"None"}, id : OrderIds \cup {NoId},
                 price : Prices \cup {UndefPrice}, size : U32]

OrderOf(m) == [side |-> m.side, price |-> m.price, size |-> m.size]

OrderFieldsOk(m, zeroAllowed) ==
  /\ m.side \in Sides
  /\ m.id # NoId
  /\ m.price # UndefPrice
  /\ m.size # UndefSize
  /\ zeroAllowed \/ m.size # 0

\* Bids rank from the highest price, asks from the lowest.
Better(side, p, q) == IF side = "Bid" THEN p > q ELSE p < q

-----------------------------------------------------------------------------
(* What the resting orders alone say of a price.  A lot is one unit of     *)
(* quantity of one order, so a level's size is how many lots rest there.   *)

OrdersAt(orders, side, price) ==
  {id \in OrderIds : /\ orders[id] # NoOrder
                     /\ orders[id].side = side
                     /\ orders[id].price = price}

Lots(orders, side, price) ==
  {lot \in OrderIds \X (1 .. MaxU32) :
     /\ lot[1] \in OrdersAt(orders, side, price)
     /\ lot[2] <= orders[lot[1]].size}

SizeAt(orders, side, price) == Cardinality(Lots(orders, side, price))
CountAt(orders, side, price) == Cardinality(OrdersAt(orders, side, price))

\* The level that the orders at a price add up to.
Aggregate(orders, side, price) ==
  IF OrdersAt(orders, side, price) = {} THEN NoLevel
  ELSE [size |-> SizeAt(orders, side, price), count |-> CountAt(orders, side, price)]
=============================================================================
