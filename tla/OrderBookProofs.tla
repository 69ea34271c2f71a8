--------------------------- MODULE OrderBookProofs ---------------------------
(***************************************************************************)
(* That the levels of OrderBook are the aggregates of its orders whatever  *)
(* messages arrive, that the depth an operation reports bounds what it     *)
(* changes, and that the book implements RestingOrders, all from what      *)
(* BookOpsProofs says of each operation.                                   *)
(***************************************************************************)
EXTENDS OrderBook, BookOpsProofs, TLAPS

(* The invariant.  AggregatesMatch alone is inductive only with the types: *)
(* that a level is at most MaxU32 is what keeps the additions from         *)
(* wrapping.                                                               *)

Inv == TypeOk /\ AggregatesMatch /\ NoInternalError

\* Every step of the book keeps the invariant, whatever messages arrive.
LEMMA StepKeepsInv == Inv /\ [Next]_vars => Inv'
<1> SUFFICES ASSUME Inv, [Next]_vars PROVE Inv'
  OBVIOUS
<1>1. HoldsBook(book) /\ Matches(book)
  BY DEF Inv, TypeOk, AggregatesMatch, Matches, HoldsBook
<1>2. ASSUME book' \in BookStates, Matches(book'), depth' \in 0 .. NoDepth, UNCHANGED error
      PROVE  Inv'
  BY <1>2 DEF Inv, TypeOk, AggregatesMatch, NoInternalError, Matches, BookStates
<1>3. ASSUME NEW m \in Messages, Clear(m) PROVE Inv'
  BY <1>2, <1>3, EmptyMatches, DepthAssumption DEF Clear, NoDepth
<1>4. ASSUME NEW m \in Messages, NEW action \in BookActions, Operate(m, action)
      PROVE  Inv'
  <2>1. CarriesOrder(m) /\ m.action \in BookActions /\ Accepted(book, m)
    BY <1>4, MessageAssumption DEF Operate, OrderMessage, CarriesOrder
  <2>2. Applied(book, m) \in BookStates /\ Matches(Applied(book, m))
    BY <1>1, <2>1, OperationKeeps
  <2>3. Reported(book, m) \in 0 .. NoDepth
    BY <2>1, ReportedType
  <2> QED
    BY <1>2, <1>4, <2>2, <2>3 DEF Operate
<1>5. ASSUME NEW m \in Messages, Reject(m) PROVE Inv'
  <2>1. CarriesOrder(m) /\ m.action \in BookActions
    BY <1>5, MessageAssumption DEF Reject, OrderMessage, CarriesOrder
  <2>2. Accepted(book, m) => Sound(book, m)
    BY <1>1, <2>1, OperationKeeps
  <2>3. error' = "input" /\ UNCHANGED <<book, depth>>
    BY <1>5, <2>2 DEF Reject
  <2> QED
    BY <2>3 DEF Inv, TypeOk, AggregatesMatch, NoInternalError
<1>6. CASE UNCHANGED vars
  BY <1>6 DEF vars, Inv, TypeOk, AggregatesMatch, NoInternalError
<1> QED
  BY <1>3, <1>4, <1>5, <1>6 DEF Next, Add, Cancel, Modify, BookActions

LEMMA InitHasInv == Init => Inv
<1> SUFFICES ASSUME Init PROVE Inv
  OBVIOUS
<1>1. book \in BookStates /\ Matches(book)
  BY EmptyMatches DEF Init
<1> QED
  BY <1>1, DepthAssumption
     DEF Init, Inv, TypeOk, AggregatesMatch, NoInternalError, Matches, BookStates, NoDepth

\* Levels are the aggregates of the orders in their types, after any messages.
THEOREM Invariance == Spec => []Inv
BY InitHasInv, StepKeepsInv, PTL DEF Spec

\* The book, the returned depth and the error always have their types: no
\* uint32 of a level wraps or goes below zero.
THEOREM TypeCorrect == Spec => []TypeOk
BY Invariance, PTL DEF Inv

\* However orders are placed, reduced, resized, moved and removed, each level
\* is the number and the total size of the orders at its price.
THEOREM LevelsAreAggregates == Spec => []AggregatesMatch
BY Invariance, PTL DEF Inv

\* "internal aggregate level is inconsistent with order state" and "empty
\* aggregate level has nonzero size" are never thrown.
THEOREM InternalChecksHold == Spec => []NoInternalError
BY Invariance, PTL DEF Inv

-----------------------------------------------------------------------------
(* Depths.                                                                 *)

StepBounds ==
  \A side \in Sides, d \in 0 .. Depth - 1 :
    d < depth' => Projection(book.levels)'[side][d] = Projection(book.levels)[side][d]

LEMMA StepDepthSound == Inv /\ [Next]_vars => [StepBounds]_vars
<1> SUFFICES ASSUME Inv, Next PROVE StepBounds
  BY DEF vars
<1>1. HoldsBook(book) /\ Matches(book)
  BY DEF Inv, TypeOk, AggregatesMatch, Matches, HoldsBook
<1>2. ASSUME NEW m \in Messages, Clear(m) PROVE StepBounds
  BY <1>2, DepthAssumption DEF Clear, StepBounds
<1>3. ASSUME NEW m \in Messages, NEW action \in BookActions, Operate(m, action)
      PROVE  StepBounds
  <2>1. CarriesOrder(m) /\ m.action \in BookActions /\ Accepted(book, m)
    BY <1>3, MessageAssumption DEF Operate, OrderMessage, CarriesOrder
  <2>2. KeepsAbove(book.levels, Applied(book, m).levels, m.side, Reported(book, m))
    BY <1>1, <2>1, ReportedBounds
  <2> QED
    BY <1>3, <2>2 DEF Operate, StepBounds, KeepsAbove
<1>4. ASSUME NEW m \in Messages, Reject(m) PROVE StepBounds
  BY <1>4 DEF Reject, StepBounds
<1> QED
  BY <1>2, <1>3, <1>4 DEF Next, Add, Cancel, Modify, BookActions

\* The depth that an operation returns, or that it returns none, never hides a
\* change: also when an order moves across the edge of the visible levels.
THEOREM DepthIsSound == Spec => DepthSound
BY Invariance, StepDepthSound, PTL DEF Spec, DepthSound, StepBounds

-----------------------------------------------------------------------------
(* The abstract book.                                                      *)

\* Each resting order has a lot at least, so a level counts no more orders
\* than it has lots, and the check of the count follows from that of the size.
Sized(orders) == \A id \in OrderIds : orders[id] # NoOrder => orders[id].size # 0

LEMMA CountAtMostSize ==
  ASSUME NEW orders \in OrderMap, Sized(orders), NEW side \in Sides, NEW price \in Prices
  PROVE  CountAt(orders, side, price) <= SizeAt(orders, side, price)
<1> DEFINE here == OrdersAt(orders, side, price)
<1>1. IsFiniteSet(here) /\ IsFiniteSet({1}) /\ Cardinality({1}) = 1
  BY OrdersFinite, FS_Singleton
<1>2. Cardinality(here \X {1}) = Cardinality(here) * 1 /\ Cardinality(here) \in Nat
  BY <1>1, FS_Product, FS_CardinalityType
<1>3. here \X {1} \subseteq Lots(orders, side, price)
  <2> SUFFICES ASSUME NEW id \in here PROVE <<id, 1>> \in Lots(orders, side, price)
    OBVIOUS
  <2>1. id \in OrderIds /\ orders[id] # NoOrder
    BY DEF OrdersAt
  <2>2. orders[id] \in Order /\ orders[id].size # 0
    BY <2>1 DEF Sized, OrderMap
  <2>3. 1 <= orders[id].size /\ 1 \in 1 .. MaxU32
    BY <2>2, WidthAssumption DEF Order, U32
  <2> QED
    BY <2>1, <2>3 DEF Lots
<1>4. IsFiniteSet(Lots(orders, side, price))
  BY LotsFinite
<1>5. Cardinality(here \X {1}) <= Cardinality(Lots(orders, side, price))
  BY <1>3, <1>4, FS_Subset
<1> HIDE DEF here
<1> QED
  BY <1>2, <1>5 DEF CountAt, SizeAt, here

LEMMA SameCardinality == \A S : R!Cardinality(S) = Cardinality(S)
BY DEF R!Cardinality, Cardinality

LEMMA SameTypes ==
  /\ R!Sides = Sides
  /\ \A side, p, q : R!Better(side, p, q) <=> Better(side, p, q)
  /\ \A os, side, p : R!OrdersAt(os, side, p) = OrdersAt(os, side, p)
  /\ \A os, side, p : R!SizeAt(os, side, p) = SizeAt(os, side, p)
  /\ \A os, side, p : R!CountAt(os, side, p) = CountAt(os, side, p)
  /\ \A m : R!OrderOf(m) = OrderOf(m)
  /\ \A m, z : R!OrderFieldsOk(m, z) <=> OrderFieldsOk(m, z)
<1>1. \A os, side, p : R!OrdersAt(os, side, p) = OrdersAt(os, side, p)
  BY DEF R!OrdersAt, OrdersAt
<1>2. \A os, side, p : R!Lots(os, side, p) = Lots(os, side, p)
  BY DEF R!Lots, Lots, R!OrdersAt, OrdersAt
<1>3. \A os, side, p : R!SizeAt(os, side, p) = SizeAt(os, side, p)
  BY <1>2, SameCardinality DEF R!SizeAt, SizeAt
<1>4. \A os, side, p : R!CountAt(os, side, p) = CountAt(os, side, p)
  BY <1>1, SameCardinality DEF R!CountAt, CountAt
<1>5. \A m : R!OrderOf(m) = OrderOf(m)
  BY DEF R!OrderOf, OrderOf
<1>6. \A m, z : R!OrderFieldsOk(m, z) <=> OrderFieldsOk(m, z)
  BY DEF R!OrderFieldsOk, OrderFieldsOk, R!Sides, Sides, R!UndefSize, UndefSize
<1>7. R!Sides = Sides
  BY DEF R!Sides, Sides
<1>8. \A side, p, q : R!Better(side, p, q) <=> Better(side, p, q)
  BY DEF R!Better, Better
<1> QED
  BY <1>1, <1>3, <1>4, <1>5, <1>6, <1>7, <1>8

\* What the abstract book works out is what the levels project.
LEMMA LadderIs ==
  ASSUME NEW k, HoldsBook(k), Matches(k)
  PROVE  R!Ladder(k.orders) = Projection(k.levels)
<1> DEFINE prices == [side \in Sides |-> {p \in Prices : OrdersAt(k.orders, side, p) # {}}]
           at(side, d) == {p \in prices[side] :
                             Cardinality({q \in prices[side] : Better(side, q, p)}) = d}
           Rung(side, d) ==
             IF at(side, d) = {} THEN NoLevel
             ELSE LET p == CHOOSE p \in at(side, d) : TRUE
                  IN [price |-> p, size |-> SizeAt(k.orders, side, p),
                      count |-> CountAt(k.orders, side, p)]
<1>1. R!Ladder(k.orders) = [side \in Sides |-> [d \in 0 .. Depth - 1 |-> Rung(side, d)]]
  <2> DEFINE theirs == [side \in R!Sides |-> {p \in Prices : R!OrdersAt(k.orders, side, p) # {}}]
             theirAt(side, d) ==
               {p \in theirs[side] :
                  R!Cardinality({q \in theirs[side] : R!Better(side, q, p)}) = d}
             TheirRung(side, d) ==
               IF theirAt(side, d) = {} THEN NoLevel
               ELSE LET p == CHOOSE p \in theirAt(side, d) : TRUE
                    IN [price |-> p, size |-> R!SizeAt(k.orders, side, p),
                        count |-> R!CountAt(k.orders, side, p)]
  <2>1. R!Ladder(k.orders)
          = [side \in R!Sides |-> [d \in 0 .. Depth - 1 |-> TheirRung(side, d)]]
    BY DEF R!Ladder
  <2>2. theirs = prices
    BY SameTypes
  <2>3. ASSUME NEW side \in Sides, NEW d \in 0 .. Depth - 1
        PROVE  TheirRung(side, d) = Rung(side, d)
    <3> HIDE DEF theirs, prices
    <3>1. \A p \in prices[side] :
            {q \in theirs[side] : R!Better(side, q, p)} = {q \in prices[side] : Better(side, q, p)}
      BY <2>2, SameTypes
    <3>2. theirAt(side, d) = at(side, d)
      BY <2>2, <3>1, SameCardinality
    <3> QED
      BY <3>2, SameTypes
  <2> HIDE DEF TheirRung, Rung
  <2> QED
    BY <2>1, <2>3, SameTypes
<1>2. ASSUME NEW side \in Sides, NEW d \in 0 .. Depth - 1
      PROVE  Rung(side, d) = Projection(k.levels)[side][d]
  <2> DEFINE here == at(side, d)
             p == CHOOSE p \in here : TRUE
  <2>1. prices[side] = Occupied(k.levels, side)
    BY LevelIs DEF Occupied
  <2>2. AtDepth(k.levels, side, d) = here
    BY <2>1 DEF AtDepth, Rank
  <2>3. here # {} => p \in here
    OBVIOUS
  <2>4. here \subseteq Occupied(k.levels, side)
    BY <2>2 DEF AtDepth
  <2>5. Rung(side, d) = IF here = {} THEN NoLevel
                        ELSE [price |-> p, size |-> SizeAt(k.orders, side, p),
                              count |-> CountAt(k.orders, side, p)]
    OBVIOUS
  <2> HIDE DEF here, Rung
  <2>6. Projection(k.levels)[side][d] = LevelShown(k.levels, side, here)
    BY <2>2, ProjectionAt
  <2>7. LevelShown(k.levels, side, here) =
          IF here = {} THEN NoLevel
          ELSE [price |-> p, size |-> k.levels[side][p].size,
                count |-> k.levels[side][p].count]
    BY DEF LevelShown
  <2> HIDE DEF p
  <2>8. here # {} => k.levels[side][p] = [size |-> SizeAt(k.orders, side, p),
                                          count |-> CountAt(k.orders, side, p)]
    BY <2>3, <2>4, LevelIs DEF Occupied
  <2> QED
    BY <2>5, <2>6, <2>7, <2>8
<1> HIDE DEF Rung
<1>3. R!Ladder(k.orders)
        = [side \in Sides |-> [d \in 0 .. Depth - 1 |-> Projection(k.levels)[side][d]]]
  BY <1>1, <1>2
<1> QED
  BY <1>3 DEF Projection

\* What becomes of the orders, in the terms of the abstract book.
LEMMA AppliedOrders ==
  ASSUME NEW k, HoldsBook(k), NEW m, CarriesOrder(m), m.action \in BookActions, Accepted(k, m)
  PROVE  /\ m.id \in OrderIds
         /\ Applied(k, m).orders = [k.orders EXCEPT ![m.id] = R!Makes(m, k.orders[m.id])]
         /\ R!Makes(m, k.orders[m.id]) # NoOrder => R!Makes(m, k.orders[m.id]).size # 0
<1> DEFINE old == k.orders[m.id]
           makes == R!Makes(m, old)
<1>1. m.id \in OrderIds /\ m.size \in Nat /\ old \in Order \cup {NoOrder}
  <2>1. m.id \in OrderIds
    BY FieldsTyped DEF Accepted, AddAccepted, CancelAccepted, ModifyAccepted, BookActions
  <2>2. m.size \in Nat
    BY WidthAssumption DEF CarriesOrder, U32
  <2> QED
    BY <2>1, <2>2 DEF HoldsBook, OrderMap
<1>2. old # NoOrder => old.size \in Nat
  BY <1>1, WidthAssumption DEF Order, U32
<1>3. OrderOf(m).size = m.size /\ R!OrderOf(m) = OrderOf(m)
  BY SameTypes DEF OrderOf
<1>4. CASE m.action = "Add"
  <2>1. makes = OrderOf(m)
    BY <1>3, <1>4 DEF R!Makes
  <2>2. Applied(k, m).orders = [k.orders EXCEPT ![m.id] = OrderOf(m)] /\ m.size # 0
    BY <1>4 DEF Applied, Placed, Accepted, AddAccepted, OrderFieldsOk
  <2> HIDE DEF makes
  <2> QED
    BY <1>1, <1>3, <2>1, <2>2 DEF makes
<1>5. CASE m.action = "Cancel"
  <2>1. makes = IF m.size = old.size THEN NoOrder ELSE [old EXCEPT !.size = old.size - m.size]
    BY <1>5 DEF R!Makes
  <2>2. Applied(k, m).orders =
          [k.orders EXCEPT ![m.id] =
             IF m.size = old.size THEN NoOrder ELSE [old EXCEPT !.size = old.size - m.size]]
    BY <1>5 DEF Applied, Canceled
  <2>3. old # NoOrder /\ m.size <= old.size
    BY <1>5 DEF Accepted, CancelAccepted
  <2>4. m.size # old.size => [old EXCEPT !.size = old.size - m.size].size # 0
    BY <1>1, <1>2, <2>3 DEF Order
  <2> HIDE DEF makes, old
  <2> QED
    BY <1>1, <2>1, <2>2, <2>4 DEF makes, old
<1>6. CASE m.action = "Modify"
  <2>1. makes = IF m.size = 0 THEN NoOrder ELSE OrderOf(m)
    BY <1>3, <1>6 DEF R!Makes
  <2>2. IsPlacing(k, m) => m.size # 0
    BY <1>6 DEF Accepted, ModifyAccepted
  <2>3. Applied(k, m).orders =
          [k.orders EXCEPT ![m.id] = IF m.size = 0 THEN NoOrder ELSE OrderOf(m)]
    <3>1. Applied(k, m) = Modified(k, m)
      BY <1>6 DEF Applied
    <3>2. CASE IsPlacing(k, m)
      BY <2>2, <3>1, <3>2 DEF Modified, Placed, IsPlacing, IsRemoving, IsResizing, IsMoving
    <3>3. CASE IsRemoving(k, m)
      BY <3>1, <3>3 DEF Modified, IsPlacing, IsRemoving, IsResizing, IsMoving
    <3>4. CASE IsResizing(k, m)
      <4>1. Applied(k, m).orders = [k.orders EXCEPT ![m.id] = [old EXCEPT !.size = m.size]]
        BY <3>1, <3>4 DEF Modified, IsPlacing, IsRemoving, IsResizing, IsMoving
      <4>2. old \in Order /\ old.side = m.side /\ old.price = m.price /\ m.size # 0
        BY <1>1, <1>6, <3>4 DEF Accepted, ModifyAccepted, IsPlacing, IsResizing
      <4>3. [old EXCEPT !.size = m.size] = OrderOf(m)
        BY <4>2 DEF Order, OrderOf
      <4> QED
        BY <4>1, <4>2, <4>3
    <3>5. CASE IsMoving(k, m)
      BY <3>1, <3>5 DEF Modified, IsPlacing, IsRemoving, IsResizing, IsMoving
    <3> QED
      BY <3>2, <3>3, <3>4, <3>5 DEF IsPlacing, IsRemoving, IsResizing, IsMoving
  <2> HIDE DEF makes
  <2> QED
    BY <1>1, <1>3, <2>1, <2>3 DEF makes
<1> QED
  BY <1>4, <1>5, <1>6 DEF BookActions

\* An accepted message leaves every resting order a lot at least.
LEMMA OperationSized ==
  ASSUME NEW k, HoldsBook(k), Sized(k.orders), NEW m, CarriesOrder(m),
         m.action \in BookActions, Accepted(k, m)
  PROVE  Sized(Applied(k, m).orders)
<1> DEFINE makes == R!Makes(m, k.orders[m.id])
<1>1. /\ Applied(k, m).orders = [k.orders EXCEPT ![m.id] = makes]
      /\ makes # NoOrder => makes.size # 0
  BY AppliedOrders
<1> HIDE DEF makes
<1> QED
  BY <1>1 DEF Sized, HoldsBook, OrderMap

\* A book that keeps its aggregates in uint32s holds no more than fits there.
LEMMA BookFits ==
  ASSUME NEW k, HoldsBook(k), Matches(k)
  PROVE  R!Fits(k.orders)
<1> SUFFICES ASSUME NEW side \in Sides, NEW price \in Prices
             PROVE  SizeAt(k.orders, side, price) <= MaxU32
  BY SameTypes DEF R!Fits
<1>1. CASE price \in Occupied(k.levels, side)
  <2>1. k.levels[side][price] \in Level
    BY <1>1 DEF Occupied, HoldsBook, LevelMap
  <2>2. k.levels[side][price] = [size |-> SizeAt(k.orders, side, price),
                                 count |-> CountAt(k.orders, side, price)]
    BY <1>1, LevelIs
  <2> QED
    BY <2>1, <2>2 DEF Level, U32
<1>2. CASE price \notin Occupied(k.levels, side)
  <2>1. OrdersAt(k.orders, side, price) = {}
    BY <1>2, LevelIs
  <2>2. Lots(k.orders, side, price) = {}
    BY <2>1 DEF Lots
  <2> QED
    BY <2>2, FS_EmptySet, WidthAssumption DEF SizeAt
<1> QED
  BY <1>1, <1>2

\* At a price where the order of an id does not rest yet, the sum that fits
\* once it does is a level with room for it.
LEMMA FitsHasRoom ==
  ASSUME NEW k, HoldsBook(k), Matches(k), Sized(k.orders), NEW id \in OrderIds,
         NEW o \in Order, o.size # 0, ~RestsAt(k.orders[id], o.side, o.price),
         R!Fits([k.orders EXCEPT ![id] = o])
  PROVE  LevelHasRoom(k.levels, o.side, o.price, o.size)
<1> DEFINE new == [k.orders EXCEPT ![id] = o]
           rest == Without(k.orders, id)
           z == SizeAt(rest, o.side, o.price)
           level == k.levels[o.side][o.price]
<1>1. new \in OrderMap /\ k.orders \in OrderMap /\ new[id] = o
  BY DEF HoldsBook, OrderMap
<1>2. Without(new, id) = rest
  BY DEF HoldsBook, OrderMap, Without
<1>3. o.side \in Sides /\ o.price \in Prices /\ o.size \in Nat /\ o # NoOrder
  BY NoLevelIsNone, WidthAssumption DEF Order, U32
<1> HIDE DEF new
<1>4. z \in Nat /\ SizeAt(k.orders, o.side, o.price) = z
  <2>1. SizeAt(k.orders, o.side, o.price) = z + Part(k.orders[id], o.side, o.price) /\ z \in Nat
    BY <1>1, <1>3, SizeSplit
  <2> QED
    BY <2>1 DEF Part
<1>5. SizeAt(new, o.side, o.price) = z + o.size
  <2>1. SizeAt(new, o.side, o.price) = z + Part(o, o.side, o.price)
    BY <1>1, <1>2, <1>3, SizeSplit
  <2> QED
    BY <1>3, <2>1 DEF Part, RestsAt
<1>6. z + o.size <= MaxU32
  BY <1>3, <1>5, SameTypes DEF R!Fits, new
<1>7. CountAt(k.orders, o.side, o.price) <= z
  BY <1>1, <1>3, <1>4, CountAtMostSize
<1>8. CountAt(k.orders, o.side, o.price) \in Nat
  BY <1>1, OrdersFinite, FS_CardinalityType DEF CountAt
<1>9. level # NoLevel => level = [size |-> z, count |-> CountAt(k.orders, o.side, o.price)]
  BY <1>3, <1>4, LevelIs DEF Occupied
<1> HIDE DEF z, level
<1>10. level # NoLevel => o.size <= MaxU32 - level.size /\ level.count # MaxU32
  BY <1>3, <1>4, <1>6, <1>7, <1>8, <1>9, WidthAssumption
<1> QED
  BY <1>10 DEF LevelHasRoom, level

\* The checks of the incremental book refuse what the abstract one refuses.
LEMMA AcceptedIsLegal ==
  ASSUME NEW k, HoldsBook(k), Matches(k), Sized(k.orders), NEW m, CarriesOrder(m),
         m.action \in BookActions
  PROVE  Accepted(k, m) <=>
           /\ R!OrderFieldsOk(m, m.action = "Modify")
           /\ R!Agrees(m, k.orders[m.id])
           /\ R!Fits([k.orders EXCEPT ![m.id] = R!Makes(m, k.orders[m.id])])
<1> DEFINE old == k.orders[m.id]
           new == [k.orders EXCEPT ![m.id] = R!Makes(m, old)]
<1>1. Accepted(k, m) => R!OrderFieldsOk(m, m.action = "Modify")
  BY SameTypes DEF Accepted, AddAccepted, CancelAccepted, ModifyAccepted, BookActions
<1>2. Accepted(k, m) => R!Agrees(m, old)
  BY DEF Accepted, AddAccepted, CancelAccepted, ModifyAccepted, BookActions, R!Agrees,
         IsPlacing
<1>3. Accepted(k, m) => R!Fits(new)
  <2> SUFFICES ASSUME Accepted(k, m) PROVE R!Fits(new)
    OBVIOUS
  <2>1. HoldsBook(Applied(k, m)) /\ Matches(Applied(k, m))
    BY OperationKeeps DEF HoldsBook, BookStates
  <2>2. R!Fits(Applied(k, m).orders)
    BY <2>1, BookFits
  <2> HIDE DEF new
  <2> QED
    BY <2>2, AppliedOrders DEF new
<1>4. ASSUME R!OrderFieldsOk(m, m.action = "Modify"), R!Agrees(m, old), R!Fits(new)
      PROVE  Accepted(k, m)
  <2> DEFINE o == OrderOf(m)
  <2>1. OrderFieldsOk(m, m.action = "Modify")
    BY <1>4, SameTypes
  <2>2. /\ m.side \in Sides /\ m.id \in OrderIds /\ m.price \in Prices
        /\ m.size \in U32 /\ o \in Order
    BY <2>1, FieldsTyped
  <2>3. o.side = m.side /\ o.price = m.price /\ o.size = m.size /\ R!OrderOf(m) = o
    BY SameTypes DEF OrderOf
  <2>4. old \in Order \cup {NoOrder}
    BY <2>2 DEF HoldsBook, OrderMap
  <2>5. ASSUME m.size # 0, ~RestsAt(old, m.side, m.price), R!Makes(m, old) = o
        PROVE  LevelHasRoom(k.levels, m.side, m.price, m.size)
    <3>1. LevelHasRoom(k.levels, o.side, o.price, o.size)
      <4> HIDE DEF o
      <4> QED
        BY <1>4, <2>2, <2>3, <2>5, FitsHasRoom
    <3> HIDE DEF o
    <3> QED
      BY <2>3, <3>1
  <2>6. CASE m.action = "Add"
    <3>1. old = NoOrder /\ m.size # 0 /\ OrderFieldsOk(m, FALSE)
      BY <1>4, <2>1, <2>6 DEF R!Agrees, OrderFieldsOk
    <3>2. R!Makes(m, old) = o
      BY <2>3, <2>6 DEF R!Makes
    <3> QED
      BY <2>5, <2>6, <3>1, <3>2 DEF Accepted, AddAccepted, RestsAt
  <2>7. CASE m.action = "Cancel"
    BY <1>4, <2>1, <2>7 DEF R!Agrees, Accepted, CancelAccepted, OrderFieldsOk
  <2>8. CASE m.action = "Modify"
    <3>1. /\ IsPlacing(k, m) => m.size # 0
          /\ ~IsPlacing(k, m) => old.side = m.side
      BY <1>4, <2>8 DEF R!Agrees, IsPlacing
    <3>2. m.size # 0 => R!Makes(m, old) = o
      BY <2>3, <2>8 DEF R!Makes
    <3>3. IsPlacing(k, m) \/ IsMoving(k, m) =>
            LevelHasRoom(k.levels, m.side, m.price, m.size)
      BY <2>5, <3>1, <3>2 DEF IsPlacing, IsMoving, RestsAt
    <3>4. ASSUME IsResizing(k, m)
          PROVE  ResizeFits(k.levels, m.side, m.price, old.size, m.size)
      <4> DEFINE z == SizeAt(Without(k.orders, m.id), m.side, m.price)
      <4>1. /\ old # NoOrder /\ old \in Order /\ old.side = m.side /\ old.price = m.price
            /\ m.size # 0
        BY <2>4, <3>1, <3>4 DEF IsResizing, IsPlacing
      <4>2. new = [k.orders EXCEPT ![m.id] = o]
        BY <3>2, <4>1
      <4>3. new \in OrderMap /\ new[m.id] = o
        BY <2>2, <4>2 DEF HoldsBook, OrderMap
      <4>4. Without(new, m.id) = Without(k.orders, m.id)
        BY <2>2, <4>2 DEF HoldsBook, OrderMap, Without
      <4> HIDE DEF new
      <4>5. z \in Nat /\ SizeAt(k.orders, m.side, m.price) = z + old.size
        <5>1. /\ SizeAt(k.orders, m.side, m.price) = z + Part(old, m.side, m.price)
              /\ z \in Nat
          BY <2>2, SizeSplit DEF HoldsBook
        <5> QED
          BY <4>1, <5>1 DEF Part, RestsAt
      <4>6. SizeAt(new, m.side, m.price) = z + m.size
        <5>1. SizeAt(new, m.side, m.price) = z + Part(o, m.side, m.price)
          BY <2>2, <4>3, <4>4, SizeSplit
        <5> QED
          BY <2>2, <2>3, <5>1, NoLevelIsNone DEF Part, RestsAt
      <4>7. z + m.size <= MaxU32
        BY <1>4, <2>2, <4>6, SameTypes DEF R!Fits
      <4>8. ResizeSound(k.levels, m.side, m.price, old.size) =>
              k.levels[m.side][m.price].size = z + old.size
        <5>1. ResizeSound(k.levels, m.side, m.price, old.size) =>
                m.price \in Occupied(k.levels, m.side)
          BY <2>2 DEF ResizeSound, Occupied
        <5>2. m.price \in Occupied(k.levels, m.side) =>
                k.levels[m.side][m.price] = [size |-> SizeAt(k.orders, m.side, m.price),
                                             count |-> CountAt(k.orders, m.side, m.price)]
          BY <2>2, LevelIs
        <5> QED
          BY <4>5, <5>1, <5>2
      <4>9. old.size \in Nat /\ m.size \in Nat
        BY <2>2, <4>1, WidthAssumption DEF Order, U32
      <4> HIDE DEF z, old
      <4> QED
        BY <4>5, <4>7, <4>8, <4>9 DEF ResizeFits
    <3> QED
      BY <2>1, <2>8, <3>1, <3>3, <3>4 DEF Accepted, ModifyAccepted
  <2> QED
    BY <2>6, <2>7, <2>8 DEF BookActions
<1> QED
  BY <1>1, <1>2, <1>3, <1>4

-----------------------------------------------------------------------------

SizedInv == Inv /\ Sized(book.orders)

LEMMA StepKeepsSized == SizedInv /\ [Next]_vars => Sized(book.orders)'
<1> SUFFICES ASSUME SizedInv, [Next]_vars PROVE Sized(book'.orders)
  BY DEF Sized
<1>1. HoldsBook(book) /\ Sized(book.orders)
  BY DEF SizedInv, Inv, TypeOk, HoldsBook
<1>2. ASSUME NEW m \in Messages, Clear(m) PROVE Sized(book'.orders)
  BY <1>2 DEF Clear, EmptyBook, Sized
<1>3. ASSUME NEW m \in Messages, NEW action \in BookActions, Operate(m, action)
      PROVE  Sized(book'.orders)
  <2>1. CarriesOrder(m) /\ m.action \in BookActions /\ Accepted(book, m)
    BY <1>3, MessageAssumption DEF Operate, OrderMessage, CarriesOrder
  <2> QED
    BY <1>1, <1>3, <2>1, OperationSized DEF Operate
<1>4. ASSUME NEW m \in Messages, Reject(m) PROVE Sized(book'.orders)
  BY <1>1, <1>4 DEF Reject
<1>5. CASE UNCHANGED vars
  BY <1>1, <1>5 DEF vars
<1> QED
  BY <1>2, <1>3, <1>4, <1>5 DEF Next, Add, Cancel, Modify, BookActions

LEMMA InitMaps == Init => SizedInv /\ R!Init
<1> SUFFICES ASSUME Init PROVE SizedInv /\ R!Init
  OBVIOUS
<1>1. SizedInv
  BY InitHasInv DEF Init, SizedInv, EmptyBook, Sized
<1>2. R!Ladder(book.orders) = Projection(book.levels)
  BY <1>1, LadderIs DEF SizedInv, Inv, TypeOk, AggregatesMatch, Matches, HoldsBook
<1> QED
  BY <1>1, <1>2 DEF Init, R!Init, EmptyBook

\* Each step of the book is one of the abstract book's, or none.
LEMMA StepMaps == SizedInv /\ SizedInv' /\ [Next]_vars => [R!Next]_R!vars
<1> SUFFICES ASSUME SizedInv, SizedInv', [Next]_vars PROVE [R!Next]_R!vars
  OBVIOUS
<1>1. HoldsBook(book) /\ Matches(book) /\ Sized(book.orders)
  BY DEF SizedInv, Inv, TypeOk, AggregatesMatch, Matches, HoldsBook
<1>2. HoldsBook(book') /\ Matches(book')
  BY DEF SizedInv, Inv, TypeOk, AggregatesMatch, Matches, HoldsBook
<1>3. R!Ladder(book'.orders) = Projection(book'.levels)
  BY <1>2, LadderIs
<1>4. ASSUME NEW m \in Messages, Clear(m) PROVE R!Clear
  BY <1>3, <1>4 DEF Clear, R!Clear, EmptyBook
<1>5. ASSUME NEW m \in Messages, NEW action \in BookActions, Operate(m, action)
      PROVE  R!Take(m)
  <2>1. CarriesOrder(m) /\ m.action \in BookActions /\ Accepted(book, m)
    BY <1>5, MessageAssumption DEF Operate, OrderMessage, CarriesOrder
  <2>2. R!Legal(m)
    BY <1>1, <2>1, AcceptedIsLegal DEF R!Legal
  <2>3. book'.orders = [book.orders EXCEPT ![m.id] = R!Makes(m, book.orders[m.id])]
    BY <1>1, <1>5, <2>1, AppliedOrders DEF Operate
  <2>4. m.action # "Clear"
    BY <2>1 DEF BookActions
  <2> QED
    BY <1>3, <1>5, <2>2, <2>3, <2>4 DEF Operate, R!Take
<1>6. ASSUME NEW m \in Messages, Reject(m) PROVE R!Refuse(m)
  <2>1. CarriesOrder(m) /\ m.action \in BookActions
    BY <1>6, MessageAssumption DEF Reject, OrderMessage, CarriesOrder
  <2>2. ~Accepted(book, m)
    BY <1>1, <1>6, <2>1, OperationKeeps DEF Reject
  <2>3. ~R!Legal(m)
    BY <1>1, <2>1, <2>2, AcceptedIsLegal DEF R!Legal
  <2>4. m.action # "Clear"
    BY <2>1 DEF BookActions
  <2> QED
    BY <1>6, <2>3, <2>4 DEF Reject, R!Refuse
<1>7. CASE UNCHANGED vars
  BY <1>7 DEF vars, R!vars
<1> QED
  BY <1>4, <1>5, <1>6, <1>7 DEF Next, Add, Cancel, Modify, BookActions, R!Next

\* A book that adjusts a level for each message shows what one that recomputes
\* its levels from the resting orders shows, and refuses the same messages.
THEOREM IncrementalBookIsExact == Spec => ImplementsRestingOrders
<1>1. Inv /\ SizedInv /\ [Next]_vars => SizedInv'
  BY StepKeepsInv, StepKeepsSized DEF SizedInv
<1>2. SizedInv => Inv
  BY DEF SizedInv
<1> QED
  BY <1>1, <1>2, InitMaps, StepMaps, PTL DEF Spec, R!Spec, ImplementsRestingOrders
=============================================================================
