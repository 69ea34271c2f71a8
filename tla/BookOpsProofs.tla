---------------------------- MODULE BookOpsProofs ----------------------------
(***************************************************************************)
(* That the levels of a book stay the aggregates of its orders, for any    *)
(* ids, prices and widths.  Every operation changes one order, so both the *)
(* number and the size at a price are those without that order plus its    *)
(* own share; the levels follow by arithmetic.                             *)
(***************************************************************************)
EXTENDS BookOps, FiniteSetTheorems, TLAPS

RestsAt(order, side, price) ==
  order # NoOrder /\ order.side = side /\ order.price = price

\* The share of one order in the number and in the size at a price.
One(order, side, price) == IF RestsAt(order, side, price) THEN 1 ELSE 0
Part(order, side, price) == IF RestsAt(order, side, price) THEN order.size ELSE 0

Without(orders, id) == [orders EXCEPT ![id] = NoOrder]

LEMMA OrdersFinite ==
  ASSUME NEW orders \in OrderMap, NEW side, NEW price
  PROVE  IsFiniteSet(OrdersAt(orders, side, price))
  BY FS_Subset, IdAssumption DEF OrdersAt

LEMMA LotsFinite ==
  ASSUME NEW orders \in OrderMap, NEW side, NEW price
  PROVE  IsFiniteSet(Lots(orders, side, price))
<1>1. IsFiniteSet(1 .. MaxU32)
  BY FS_Interval, WidthAssumption
<1>2. IsFiniteSet(OrderIds \X (1 .. MaxU32))
  BY <1>1, FS_Product, IdAssumption
<1> QED
  BY <1>2, FS_Subset DEF Lots

\* The number of orders at a price is one more than without an order there.
LEMMA CountSplit ==
  ASSUME NEW orders \in OrderMap, NEW id \in OrderIds,
         NEW side \in Sides, NEW price \in Prices
  PROVE  /\ CountAt(Without(orders, id), side, price) \in Nat
         /\ CountAt(orders, side, price) =
              CountAt(Without(orders, id), side, price) + One(orders[id], side, price)
<1> DEFINE rest == Without(orders, id)
<1>1. rest \in OrderMap
  BY DEF Without, OrderMap
<1>2. IsFiniteSet(OrdersAt(rest, side, price))
  BY <1>1, OrdersFinite
<1>3. CountAt(rest, side, price) \in Nat
  BY <1>2, FS_CardinalityType DEF CountAt
<1>4. id \notin OrdersAt(rest, side, price)
  BY DEF OrdersAt, Without, OrderMap
<1>5. CASE RestsAt(orders[id], side, price)
  <2>1. OrdersAt(orders, side, price) = OrdersAt(rest, side, price) \cup {id}
    BY <1>5 DEF OrdersAt, Without, OrderMap, RestsAt
  <2> QED
    BY <1>2, <1>3, <1>4, <1>5, <2>1, FS_AddElement DEF CountAt, One
<1>6. CASE ~RestsAt(orders[id], side, price)
  <2>1. OrdersAt(orders, side, price) = OrdersAt(rest, side, price)
    BY <1>6 DEF OrdersAt, Without, OrderMap, RestsAt
  <2> QED
    BY <1>3, <1>6, <2>1 DEF CountAt, One
<1> QED
  BY <1>5, <1>6

\* The lots of one order are as many as its size.
LEMMA OwnLots ==
  ASSUME NEW id, NEW n \in Nat
  PROVE  /\ IsFiniteSet({id} \X (1 .. n))
         /\ Cardinality({id} \X (1 .. n)) = n
<1>1. IsFiniteSet(1 .. n) /\ Cardinality(1 .. n) = n
  BY FS_Interval
<1>2. IsFiniteSet({id}) /\ Cardinality({id}) = 1
  BY FS_Singleton
<1> QED
  BY <1>1, <1>2, FS_Product

\* The size at a price is the size without an order there plus its own.
LEMMA SizeSplit ==
  ASSUME NEW orders \in OrderMap, NEW id \in OrderIds,
         NEW side \in Sides, NEW price \in Prices
  PROVE  /\ SizeAt(Without(orders, id), side, price) \in Nat
         /\ SizeAt(orders, side, price) =
              SizeAt(Without(orders, id), side, price) + Part(orders[id], side, price)
<1> DEFINE rest == Without(orders, id)
<1>1. rest \in OrderMap
  BY DEF Without, OrderMap
<1>2. IsFiniteSet(Lots(rest, side, price))
  BY <1>1, LotsFinite
<1>3. SizeAt(rest, side, price) \in Nat
  BY <1>2, FS_CardinalityType DEF SizeAt
<1>4. CASE RestsAt(orders[id], side, price)
  <2> DEFINE size == orders[id].size
             own == {id} \X (1 .. size)
  <2>1. size \in U32
    BY <1>4 DEF RestsAt, OrderMap, Order
  <2>2. size \in Nat /\ size <= MaxU32
    BY <2>1, WidthAssumption DEF U32
  <2>3. IsFiniteSet(own) /\ Cardinality(own) = size
    BY <2>2, OwnLots
  <2>4. Lots(rest, side, price) \cap own = {}
    BY DEF Lots, OrdersAt, Without, OrderMap
  <2>5. \A i \in OrderIds, n \in 1 .. MaxU32 :
          <<i, n>> \in Lots(orders, side, price) <=> <<i, n>> \in Lots(rest, side, price) \cup own
    BY <1>4, <2>2, WidthAssumption DEF Lots, OrdersAt, Without, OrderMap, RestsAt
  <2>6. own \subseteq OrderIds \X (1 .. MaxU32)
    BY <2>2, WidthAssumption
  <2>7. /\ Lots(orders, side, price) \subseteq OrderIds \X (1 .. MaxU32)
        /\ Lots(rest, side, price) \subseteq OrderIds \X (1 .. MaxU32)
    BY DEF Lots
  <2>8. Lots(orders, side, price) = Lots(rest, side, price) \cup own
    BY <2>5, <2>6, <2>7
  <2>9. Cardinality(Lots(rest, side, price) \cup own) =
          Cardinality(Lots(rest, side, price)) + Cardinality(own) - Cardinality({})
    BY <1>2, <2>3, <2>4, FS_Union
  <2> QED
    BY <1>3, <1>4, <2>2, <2>3, <2>8, <2>9, FS_EmptySet DEF SizeAt, Part
<1>5. CASE ~RestsAt(orders[id], side, price)
  <2>1. Lots(orders, side, price) = Lots(rest, side, price)
    BY <1>5 DEF Lots, OrdersAt, Without, OrderMap, RestsAt
  <2> QED
    BY <1>3, <1>5, <2>1 DEF SizeAt, Part
<1> QED
  BY <1>4, <1>5

-----------------------------------------------------------------------------
(* One order changes: what becomes of a level.                             *)

Matches(k) ==
  \A side \in Sides, p \in Prices :
    k.levels[side][p] = Aggregate(k.orders, side, p)

Agg(count, size) ==
  IF count = 0 THEN NoLevel ELSE [size |-> size, count |-> count]

LEMMA AggregateIsAgg ==
  ASSUME NEW orders \in OrderMap, NEW side \in Sides, NEW price \in Prices
  PROVE  /\ Aggregate(orders, side, price) =
              Agg(CountAt(orders, side, price), SizeAt(orders, side, price))
         /\ CountAt(orders, side, price) = 0 => SizeAt(orders, side, price) = 0
<1>1. IsFiniteSet(OrdersAt(orders, side, price))
  BY OrdersFinite
<1>2. CountAt(orders, side, price) = 0 <=> OrdersAt(orders, side, price) = {}
  BY <1>1, FS_EmptySet DEF CountAt
<1>3. OrdersAt(orders, side, price) = {} => Lots(orders, side, price) = {}
  BY DEF Lots
<1>4. OrdersAt(orders, side, price) = {} => SizeAt(orders, side, price) = 0
  BY <1>3, FS_EmptySet DEF SizeAt
<1> QED
  BY <1>2, <1>4 DEF Aggregate, Agg

\* At each price there is a number c and a size z of the orders other than
\* id's: they give the level before and after id's order becomes o.
LEMMA Shares ==
  ASSUME NEW k, k.orders \in OrderMap, Matches(k),
         NEW id \in OrderIds, NEW o \in Order \cup {NoOrder},
         NEW side \in Sides, NEW price \in Prices
  PROVE  \E c, z \in Nat :
           /\ c = 0 => z = 0
           /\ k.levels[side][price] =
                Agg(c + One(k.orders[id], side, price), z + Part(k.orders[id], side, price))
           /\ Aggregate([k.orders EXCEPT ![id] = o], side, price) =
                Agg(c + One(o, side, price), z + Part(o, side, price))
<1> DEFINE new == [k.orders EXCEPT ![id] = o]
           rest == Without(k.orders, id)
           c == CountAt(rest, side, price)
           z == SizeAt(rest, side, price)
<1>1. new \in OrderMap /\ rest \in OrderMap /\ new[id] = o
  BY DEF OrderMap, Without
<1>2. Without(new, id) = rest
  BY DEF OrderMap, Without
<1> HIDE DEF new
<1>3. /\ c \in Nat /\ z \in Nat
      /\ CountAt(k.orders, side, price) = c + One(k.orders[id], side, price)
      /\ SizeAt(k.orders, side, price) = z + Part(k.orders[id], side, price)
  BY CountSplit, SizeSplit
<1>4. /\ CountAt(new, side, price) = c + One(o, side, price)
      /\ SizeAt(new, side, price) = z + Part(o, side, price)
  BY <1>1, <1>2, CountSplit, SizeSplit
<1>5. c = 0 => z = 0
  BY <1>1, AggregateIsAgg
<1>6. k.levels[side][price] =
        Agg(c + One(k.orders[id], side, price), z + Part(k.orders[id], side, price))
  BY <1>3, AggregateIsAgg DEF Matches
<1>7. Aggregate(new, side, price) = Agg(c + One(o, side, price), z + Part(o, side, price))
  BY <1>1, <1>4, AggregateIsAgg
<1> HIDE DEF c, z
<1>8. \E cc, zz \in Nat :
           /\ cc = 0 => zz = 0
           /\ k.levels[side][price] =
                Agg(cc + One(k.orders[id], side, price), zz + Part(k.orders[id], side, price))
           /\ Aggregate(new, side, price) =
                Agg(cc + One(o, side, price), zz + Part(o, side, price))
  BY <1>3, <1>5, <1>6, <1>7
<1> QED
  BY <1>8 DEF new
-----------------------------------------------------------------------------
(* Each way an operation changes a book keeps its levels and its orders    *)
(* together.                                                               *)

BookStates == [orders : OrderMap, levels : LevelMap]

\* A record that holds a book, and may hold more.
HoldsBook(k) == k.orders \in OrderMap /\ k.levels \in LevelMap

LEMMA NoLevelIsNone ==
  /\ \A c, z \in Nat : [size |-> z, count |-> c] # NoLevel
  /\ \A l \in Level : l # NoLevel
  /\ \A o \in Order : o # NoOrder
BY SentinelAssumption, WidthAssumption DEF Level, U32

\* The fields of a message that name an order, whatever else it carries.
CarriesOrder(m) ==
  /\ m.side \in Sides \cup {"None"} /\ m.id \in OrderIds \cup {NoId}
  /\ m.price \in Prices \cup {UndefPrice} /\ m.size \in U32

\* A message whose fields pass the checks names an order the book can hold.
LEMMA FieldsTyped ==
  ASSUME NEW m, CarriesOrder(m), NEW zero \in BOOLEAN, OrderFieldsOk(m, zero)
  PROVE  /\ m.side \in Sides /\ m.id \in OrderIds /\ m.price \in Prices
         /\ m.size \in U32 /\ OrderOf(m) \in Order
BY DEF OrderFieldsOk, CarriesOrder, OrderOf, Order, Sides

\* It is enough to look at the level that is changed, if the order before and
\* the order after rest nowhere else.
LEMMA OneLevel ==
  ASSUME NEW k, HoldsBook(k), Matches(k), NEW id \in OrderIds,
         NEW o \in Order \cup {NoOrder},
         NEW side \in Sides, NEW price \in Prices,
         k.orders[id] = NoOrder \/ RestsAt(k.orders[id], side, price),
         o = NoOrder \/ RestsAt(o, side, price),
         NEW level \in Level \cup {NoLevel},
         level = Aggregate([k.orders EXCEPT ![id] = o], side, price),
         NEW new,
         new = [orders |-> [k.orders EXCEPT ![id] = o],
                levels |-> [k.levels EXCEPT ![side][price] = level]]
  PROVE  new \in BookStates /\ Matches(new)
<1>1. new.orders \in OrderMap /\ new.levels \in LevelMap
  BY DEF HoldsBook, BookStates, OrderMap, LevelMap
<1>2. ASSUME NEW s \in Sides, NEW p \in Prices
      PROVE  new.levels[s][p] = Aggregate(new.orders, s, p)
  <2>1. CASE s = side /\ p = price
    BY <2>1 DEF HoldsBook, BookStates, LevelMap
  <2>2. CASE ~(s = side /\ p = price)
    <3>1. PICK c \in Nat, z \in Nat :
            /\ k.levels[s][p] =
                 Agg(c + One(k.orders[id], s, p), z + Part(k.orders[id], s, p))
            /\ Aggregate(new.orders, s, p) = Agg(c + One(o, s, p), z + Part(o, s, p))
      BY Shares DEF HoldsBook, BookStates
    <3>2. /\ One(k.orders[id], s, p) = 0 /\ Part(k.orders[id], s, p) = 0
          /\ One(o, s, p) = 0 /\ Part(o, s, p) = 0
      BY <2>2 DEF One, Part, RestsAt
    <3>3. new.levels[s][p] = k.levels[s][p]
      BY <2>2 DEF HoldsBook, BookStates, LevelMap
    <3> QED
      BY <3>1, <3>2, <3>3
  <2> QED
    BY <2>1, <2>2
<1> QED
  BY <1>1, <1>2 DEF HoldsBook, BookStates, Matches

\* At the level of a resting order, c and z are the number and size of the
\* other orders there: the level before, and after the order becomes o.
LEMMA RestingShares ==
  ASSUME NEW k, HoldsBook(k), Matches(k), NEW id \in OrderIds,
         k.orders[id] # NoOrder, NEW o \in Order \cup {NoOrder}
  PROVE  LET side == k.orders[id].side
             price == k.orders[id].price
         IN \E c, z \in Nat :
              /\ c = 0 => z = 0
              /\ c + 1 <= MaxU32 /\ z + k.orders[id].size <= MaxU32
              /\ k.levels[side][price] = [size |-> z + k.orders[id].size, count |-> c + 1]
              /\ Aggregate([k.orders EXCEPT ![id] = o], side, price) =
                   Agg(c + One(o, side, price), z + Part(o, side, price))
<1> DEFINE old == k.orders[id]
           side == old.side
           price == old.price
<1>1. old \in Order /\ side \in Sides /\ price \in Prices /\ old.size \in Nat
  BY WidthAssumption DEF HoldsBook, BookStates, OrderMap, Order, U32
<1>2. PICK c \in Nat, z \in Nat :
        /\ c = 0 => z = 0
        /\ k.levels[side][price] = Agg(c + One(old, side, price), z + Part(old, side, price))
        /\ Aggregate([k.orders EXCEPT ![id] = o], side, price) =
             Agg(c + One(o, side, price), z + Part(o, side, price))
  BY <1>1, Shares DEF HoldsBook, BookStates
<1>3. k.levels[side][price] = [size |-> z + old.size, count |-> c + 1]
  BY <1>1, <1>2 DEF One, Part, RestsAt, Agg
<1>4. k.levels[side][price] \in Level
  BY <1>1, <1>3, NoLevelIsNone DEF HoldsBook, BookStates, LevelMap
<1>5. c + 1 <= MaxU32 /\ z + old.size <= MaxU32
  BY <1>3, <1>4 DEF Level, U32
<1> QED
  BY <1>2, <1>3, <1>5

\* Placed: a new order at a level with room.
LEMMA PlacedKeeps ==
  ASSUME NEW k, HoldsBook(k), Matches(k), NEW m,
         m.id \in OrderIds, OrderOf(m) \in Order,
         k.orders[m.id] = NoOrder,
         LevelHasRoom(k.levels, m.side, m.price, m.size)
  PROVE  Placed(k, m) \in BookStates /\ Matches(Placed(k, m))
<1> DEFINE before == k.levels[m.side][m.price]
           level == IF before = NoLevel THEN [size |-> 0, count |-> 0] ELSE before
           after == [size |-> Wrapped(level.size + m.size),
                     count |-> Wrapped(level.count + 1)]
<1>1. m.side \in Sides /\ m.price \in Prices /\ m.size \in U32
  BY DEF OrderOf, Order
<1>2. m.size \in Nat /\ m.size <= MaxU32 /\ MaxU32 \in Nat /\ MaxU32 > 1
  BY <1>1, WidthAssumption DEF U32
<1>3. PICK c \in Nat, z \in Nat :
        /\ c = 0 => z = 0
        /\ before = Agg(c + One(NoOrder, m.side, m.price), z + Part(NoOrder, m.side, m.price))
        /\ Aggregate([k.orders EXCEPT ![m.id] = OrderOf(m)], m.side, m.price) =
             Agg(c + One(OrderOf(m), m.side, m.price), z + Part(OrderOf(m), m.side, m.price))
  BY <1>1, Shares DEF HoldsBook, BookStates
<1>4. before = Agg(c, z)
  BY <1>3 DEF One, Part, RestsAt
<1>5. level = [size |-> z, count |-> c]
  BY <1>3, <1>4, NoLevelIsNone DEF Agg
<1>6. z + m.size <= MaxU32 /\ c + 1 <= MaxU32
  <2>1. CASE c = 0
    BY <2>1, <1>2, <1>3
  <2>2. CASE c # 0
    <3>1. before = [size |-> z, count |-> c] /\ before # NoLevel
      BY <2>2, <1>4, NoLevelIsNone DEF Agg
    <3>2. before \in Level
      BY <3>1, <1>1 DEF HoldsBook, BookStates, LevelMap
    <3> QED
      BY <3>1, <3>2, <1>2 DEF LevelHasRoom, Level, U32
  <2> QED
    BY <2>1, <2>2
<1>7. after = [size |-> z + m.size, count |-> c + 1]
  BY <1>2, <1>5, <1>6 DEF Wrapped
<1>8. after = Aggregate([k.orders EXCEPT ![m.id] = OrderOf(m)], m.side, m.price)
  BY <1>3, <1>7, NoLevelIsNone DEF One, Part, RestsAt, OrderOf, Agg
<1>9. after \in Level
  BY <1>2, <1>6, <1>7 DEF Level, U32
<1>10. RestsAt(OrderOf(m), m.side, m.price)
  BY NoLevelIsNone DEF RestsAt, OrderOf
<1> HIDE DEF after
<1>11. Placed(k, m) = [orders |-> [k.orders EXCEPT ![m.id] = OrderOf(m)],
                       levels |-> [k.levels EXCEPT ![m.side][m.price] = after]]
  BY DEF Placed, AddToLevel, after
<1> QED
  BY <1>1, <1>8, <1>9, <1>10, <1>11, OneLevel

\* An order goes as a whole: the removal is sound and leaves the others.
Gone(k, id) ==
  LET old == k.orders[id]
  IN [orders |-> [k.orders EXCEPT ![id] = NoOrder],
      levels |-> RemoveFromLevel(k.levels, old.side, old.price, old.size, TRUE)]

LEMMA RemovalKeeps ==
  ASSUME NEW k, HoldsBook(k), Matches(k), NEW id \in OrderIds, k.orders[id] # NoOrder
  PROVE  /\ RemovalSound(k.levels, k.orders[id].side, k.orders[id].price,
                         k.orders[id].size, TRUE)
         /\ Gone(k, id) \in BookStates /\ Matches(Gone(k, id))
<1> DEFINE old == k.orders[id]
           level == k.levels[old.side][old.price]
           left == Lowered(level, old.size, TRUE)
           after == IF left.count = 0 THEN NoLevel ELSE left
<1>1. old \in Order /\ old.side \in Sides /\ old.price \in Prices /\ old.size \in Nat
  BY WidthAssumption DEF HoldsBook, BookStates, OrderMap, Order, U32
<1>2. PICK c \in Nat, z \in Nat :
        /\ c = 0 => z = 0
        /\ c + 1 <= MaxU32 /\ z + old.size <= MaxU32
        /\ level = [size |-> z + old.size, count |-> c + 1]
        /\ Aggregate([k.orders EXCEPT ![id] = NoOrder], old.side, old.price) =
             Agg(c + One(NoOrder, old.side, old.price), z + Part(NoOrder, old.side, old.price))
  BY RestingShares
<1>3. left = [size |-> z, count |-> c]
  BY <1>1, <1>2 DEF Lowered
<1> HIDE DEF left
<1>4. RemovalSound(k.levels, old.side, old.price, old.size, TRUE)
  <2>1. level # NoLevel
    BY <1>1, <1>2, NoLevelIsNone
  <2>2. level.size >= old.size /\ level.count # 0
    BY <1>1, <1>2
  <2>3. left.count = 0 => left.size = 0
    BY <1>2, <1>3
  <2> HIDE DEF level
  <2> QED
    BY <2>1, <2>2, <2>3 DEF RemovalSound, level, left
<1>5. after = Agg(c, z)
  BY <1>3 DEF Agg
<1> HIDE DEF after
<1>6. after = Aggregate([k.orders EXCEPT ![id] = NoOrder], old.side, old.price)
  <2>1. /\ One(NoOrder, old.side, old.price) = 0
        /\ Part(NoOrder, old.side, old.price) = 0
    BY DEF One, Part, RestsAt
  <2> QED
    BY <1>2, <1>5, <2>1
<1>7. after \in Level \cup {NoLevel}
  <2>1. old.size >= 0
    BY <1>1
  <2>2. c \in U32 /\ z \in U32
    BY <1>1, <1>2, <2>1, WidthAssumption DEF U32
  <2> QED
    BY <1>5, <2>2 DEF Agg, Level
<1>8. RestsAt(old, old.side, old.price)
  BY DEF RestsAt
<1>9. Gone(k, id) = [orders |-> [k.orders EXCEPT ![id] = NoOrder],
                     levels |-> [k.levels EXCEPT ![old.side][old.price] = after]]
  BY DEF Gone, RemoveFromLevel, after, left
<1> QED
  BY <1>1, <1>4, <1>6, <1>7, <1>8, <1>9, OneLevel
\* A resting order changes its size and stays where it is.
Resized(k, id, size) ==
  LET old == k.orders[id]
      level == k.levels[old.side][old.price]
  IN [orders |-> [k.orders EXCEPT ![id] = [old EXCEPT !.size = size]],
      levels |-> [k.levels EXCEPT ![old.side][old.price] =
                    [size |-> level.size - old.size + size, count |-> level.count]]]

LEMMA ResizedKeeps ==
  ASSUME NEW k, HoldsBook(k), Matches(k), NEW id \in OrderIds, k.orders[id] # NoOrder,
         NEW size \in U32,
         LET old == k.orders[id]
         IN k.levels[old.side][old.price].size - old.size + size <= MaxU32
  PROVE  /\ ResizeSound(k.levels, k.orders[id].side, k.orders[id].price, k.orders[id].size)
         /\ k.levels[k.orders[id].side][k.orders[id].price].count # 0
         /\ Resized(k, id, size) \in BookStates /\ Matches(Resized(k, id, size))
<1> DEFINE old == k.orders[id]
           new == [old EXCEPT !.size = size]
           level == k.levels[old.side][old.price]
           after == [size |-> level.size - old.size + size, count |-> level.count]
<1>1. old \in Order /\ old.side \in Sides /\ old.price \in Prices /\ old.size \in Nat
  BY WidthAssumption DEF HoldsBook, BookStates, OrderMap, Order, U32
<1>2. /\ new \in Order /\ new # NoOrder
      /\ new.side = old.side /\ new.price = old.price /\ new.size = size
  BY <1>1, NoLevelIsNone DEF Order
<1> HIDE DEF new
<1>3. PICK c \in Nat, z \in Nat :
        /\ c = 0 => z = 0
        /\ c + 1 <= MaxU32 /\ z + old.size <= MaxU32
        /\ level = [size |-> z + old.size, count |-> c + 1]
        /\ Aggregate([k.orders EXCEPT ![id] = new], old.side, old.price) =
             Agg(c + One(new, old.side, old.price), z + Part(new, old.side, old.price))
  BY <1>2, RestingShares
<1>4. size \in Nat /\ MaxU32 \in Nat
  BY WidthAssumption DEF U32
<1>5. after = [size |-> z + size, count |-> c + 1]
  BY <1>1, <1>3, <1>4
<1>6. z + size <= MaxU32
  BY <1>1, <1>3, <1>4
<1> HIDE DEF after
<1>7. after = Aggregate([k.orders EXCEPT ![id] = new], old.side, old.price)
  BY <1>2, <1>3, <1>5 DEF One, Part, RestsAt, Agg
<1>8. after \in Level
  BY <1>3, <1>4, <1>5, <1>6 DEF Level, U32
<1>9. RestsAt(old, old.side, old.price) /\ RestsAt(new, old.side, old.price)
  BY <1>2 DEF RestsAt
<1>10. Resized(k, id, size) =
         [orders |-> [k.orders EXCEPT ![id] = new],
          levels |-> [k.levels EXCEPT ![old.side][old.price] = after]]
  BY DEF Resized, after, new
<1>11. level # NoLevel /\ level.size >= old.size /\ level.count # 0
  BY <1>1, <1>3, NoLevelIsNone
<1>12. ResizeSound(k.levels, old.side, old.price, old.size)
  BY <1>11 DEF ResizeSound
<1>13. Resized(k, id, size) \in BookStates /\ Matches(Resized(k, id, size))
  <2>1. new \in Order \cup {NoOrder} /\ after \in Level \cup {NoLevel}
    BY <1>2, <1>8
  <2>2. k.orders[id] = NoOrder \/ RestsAt(k.orders[id], old.side, old.price)
    BY <1>9
  <2>3. new = NoOrder \/ RestsAt(new, old.side, old.price)
    BY <1>9
  <2> HIDE DEF old
  <2> QED
    BY <1>1, <1>7, <1>10, <2>1, <2>2, <2>3, OneLevel
<1> QED
  BY <1>11, <1>12, <1>13

-----------------------------------------------------------------------------
(* The three operations.                                                   *)

LEMMA AddKeeps ==
  ASSUME NEW k, HoldsBook(k), Matches(k), NEW m, CarriesOrder(m), AddAccepted(k, m)
  PROVE  Placed(k, m) \in BookStates /\ Matches(Placed(k, m))
BY FieldsTyped, PlacedKeeps DEF AddAccepted

LEMMA CancelKeeps ==
  ASSUME NEW k, HoldsBook(k), Matches(k), NEW m, CarriesOrder(m), CancelAccepted(k, m)
  PROVE  /\ CancelSound(k, m)
         /\ Canceled(k, m) \in BookStates /\ Matches(Canceled(k, m))
<1> DEFINE old == k.orders[m.id]
<1>1. /\ m.side \in Sides /\ m.id \in OrderIds /\ m.price \in Prices /\ m.size \in U32
      /\ m.size # 0
  BY FieldsTyped DEF CancelAccepted, OrderFieldsOk
<1>2. /\ old # NoOrder /\ old \in Order /\ old.side = m.side /\ old.price = m.price
      /\ m.size <= old.size
  BY <1>1 DEF CancelAccepted, HoldsBook, BookStates, OrderMap
<1>3. CASE m.size = old.size
  <2>1. Canceled(k, m) = Gone(k, m.id)
    BY <1>2, <1>3 DEF Canceled, Gone
  <2>2. CancelSound(k, m)
    BY <1>1, <1>2, <1>3, RemovalKeeps DEF CancelSound
  <2> QED
    BY <1>1, <1>2, <2>1, <2>2, RemovalKeeps
<1>4. CASE m.size # old.size
  <2> DEFINE size == old.size - m.size
             level == k.levels[old.side][old.price]
  <2>1. /\ size \in U32 /\ old.size \in Nat /\ m.size \in Nat
        /\ old.size >= m.size /\ MaxU32 \in Nat
    BY <1>1, <1>2, WidthAssumption DEF Order, U32
  <2>2. PICK c \in Nat, z \in Nat :
          /\ c + 1 <= MaxU32 /\ z + old.size <= MaxU32
          /\ level = [size |-> z + old.size, count |-> c + 1]
    BY <1>1, <1>2, RestingShares
  <2>3. level.size - old.size + size <= MaxU32
    BY <2>1, <2>2
  <2> HIDE DEF size
  <2>4. Resized(k, m.id, size) \in BookStates /\ Matches(Resized(k, m.id, size))
    BY <1>1, <1>2, <2>1, <2>3, ResizedKeeps
  <2>5. Lowered(level, m.size, m.size = old.size) =
          [size |-> level.size - old.size + size, count |-> level.count]
    BY <1>4, <2>1, <2>2 DEF Lowered, size
  <2>6. level # NoLevel /\ level.size >= m.size /\ level.count # 0
    BY <2>1, <2>2, NoLevelIsNone
  <2>7. CancelSound(k, m)
    BY <1>2, <1>4, <2>5, <2>6 DEF CancelSound, RemovalSound
  <2>8. Canceled(k, m) = Resized(k, m.id, size)
    BY <1>2, <1>4, <2>5, <2>6 DEF Canceled, Resized, RemoveFromLevel, size
  <2> QED
    BY <2>4, <2>7, <2>8
<1> QED
  BY <1>3, <1>4
\* A move is a removal and then a placing: the room the code checked before
\* the removal is still there, because the prices differ.
LEMMA ModifyKeeps ==
  ASSUME NEW k, HoldsBook(k), Matches(k), NEW m, CarriesOrder(m), ModifyAccepted(k, m)
  PROVE  /\ ModifySound(k, m)
         /\ Modified(k, m) \in BookStates /\ Matches(Modified(k, m))
<1> DEFINE old == k.orders[m.id]
<1>1. /\ m.side \in Sides /\ m.id \in OrderIds /\ m.price \in Prices /\ m.size \in U32
      /\ OrderOf(m) \in Order
  BY FieldsTyped DEF ModifyAccepted
<1>2. old \in Order \cup {NoOrder}
  BY <1>1 DEF HoldsBook, BookStates, OrderMap
<1>3. CASE IsPlacing(k, m)
  <2>1. Placed(k, m) \in BookStates /\ Matches(Placed(k, m))
    BY <1>1, <1>3, PlacedKeeps DEF ModifyAccepted, IsPlacing
  <2>2. Modified(k, m) = Placed(k, m)
    BY <1>3 DEF Modified, IsPlacing, IsRemoving, IsResizing, IsMoving
  <2>3. ModifySound(k, m)
    BY <1>3 DEF ModifySound, IsPlacing, IsRemoving, IsResizing, IsMoving
  <2> QED
    BY <2>1, <2>2, <2>3
<1>4. CASE IsRemoving(k, m)
  <2>1. old # NoOrder /\ ~IsPlacing(k, m) /\ ~IsResizing(k, m) /\ ~IsMoving(k, m)
    BY <1>4 DEF IsPlacing, IsRemoving, IsResizing, IsMoving
  <2>2. Modified(k, m) = Gone(k, m.id)
    BY <1>4, <2>1 DEF Modified, Vacated, Gone
  <2>3. ModifySound(k, m)
    BY <1>1, <1>4, <2>1, RemovalKeeps DEF ModifySound
  <2> QED
    BY <1>1, <2>1, <2>2, <2>3, RemovalKeeps
<1>5. CASE IsResizing(k, m)
  <2>1. /\ old # NoOrder /\ old.price = m.price /\ old.side = m.side
        /\ ~IsPlacing(k, m) /\ ~IsRemoving(k, m) /\ ~IsMoving(k, m)
    BY <1>5 DEF IsPlacing, IsRemoving, IsResizing, IsMoving, ModifyAccepted
  <2>2. k.levels[old.side][old.price].size - old.size + m.size <= MaxU32
    <3>1. PICK c \in Nat, z \in Nat :
            k.levels[old.side][old.price] = [size |-> z + old.size, count |-> c + 1]
      BY <1>1, <2>1, RestingShares
    <3>2. old.size \in Nat
      BY <1>2, <2>1, WidthAssumption DEF Order, U32
    <3>3. ResizeSound(k.levels, old.side, old.price, old.size)
      BY <3>1, <3>2, NoLevelIsNone DEF ResizeSound
    <3> QED
      BY <1>5, <2>1, <3>3 DEF ModifyAccepted, ResizeFits
  <2>3. /\ ResizeSound(k.levels, old.side, old.price, old.size)
        /\ Resized(k, m.id, m.size) \in BookStates /\ Matches(Resized(k, m.id, m.size))
    BY <1>1, <2>1, <2>2, ResizedKeeps
  <2>4. Modified(k, m) = Resized(k, m.id, m.size)
    BY <1>5, <2>1 DEF Modified, Resized, SetLevelSize
  <2>5. ModifySound(k, m)
    BY <2>1, <2>3 DEF ModifySound
  <2> QED
    BY <2>3, <2>4, <2>5
<1>6. CASE IsMoving(k, m)
  <2> DEFINE between == Gone(k, m.id)
  <2>1. /\ old # NoOrder /\ old.price # m.price /\ old.side = m.side
        /\ ~IsPlacing(k, m) /\ ~IsRemoving(k, m) /\ ~IsResizing(k, m)
    BY <1>6 DEF IsPlacing, IsRemoving, IsResizing, IsMoving, ModifyAccepted
  <2>2. /\ RemovalSound(k.levels, old.side, old.price, old.size, TRUE)
        /\ between \in BookStates /\ Matches(between)
    BY <1>1, <2>1, RemovalKeeps
  <2>3. between.levels[m.side][m.price] = k.levels[m.side][m.price]
    BY <1>1, <1>2, <2>1 DEF Gone, RemoveFromLevel, HoldsBook, BookStates, LevelMap, Order
  <2>4. LevelHasRoom(between.levels, m.side, m.price, m.size)
    BY <1>6, <2>3 DEF LevelHasRoom, ModifyAccepted
  <2>5. between.orders[m.id] = NoOrder
    BY <1>1 DEF Gone, HoldsBook, BookStates, OrderMap
  <2>6. Placed(between, m) \in BookStates /\ Matches(Placed(between, m))
    <3> HIDE DEF between
    <3>1. HoldsBook(between)
      BY <2>2 DEF BookStates, HoldsBook
    <3> QED
      BY <1>1, <2>2, <2>4, <2>5, <3>1, PlacedKeeps
  <2>7. Modified(k, m) = Placed(between, m)
    <3>1. between.levels = Vacated(k, m)
      BY DEF Gone, Vacated
    <3>2. [between.orders EXCEPT ![m.id] = OrderOf(m)] = [k.orders EXCEPT ![m.id] = OrderOf(m)]
      BY <1>1 DEF Gone, HoldsBook, BookStates, OrderMap
    <3>3. Modified(k, m) = [orders |-> [k.orders EXCEPT ![m.id] = OrderOf(m)],
                            levels |-> AddToLevel(Vacated(k, m), m.side, m.price, m.size)]
      BY <1>6, <2>1 DEF Modified
    <3> HIDE DEF between
    <3> QED
      BY <3>1, <3>2, <3>3 DEF Placed
  <2>8. ModifySound(k, m)
    BY <2>1, <2>2 DEF ModifySound
  <2> QED
    BY <2>6, <2>7, <2>8
<1> QED
  BY <1>3, <1>4, <1>5, <1>6 DEF IsPlacing, IsRemoving, IsResizing, IsMoving

LEMMA EmptyMatches ==
  EmptyBook \in BookStates /\ Matches(EmptyBook)
<1>1. EmptyBook \in BookStates
  BY DEF EmptyBook, HoldsBook, BookStates, OrderMap, LevelMap
<1>2. ASSUME NEW side \in Sides, NEW p \in Prices
      PROVE  EmptyBook.levels[side][p] = Aggregate(EmptyBook.orders, side, p)
  BY DEF EmptyBook, Aggregate, OrdersAt
<1> QED
  BY <1>1, <1>2 DEF Matches

\* Whatever is accepted is sound, and is applied to orders and levels alike.
LEMMA OperationKeeps ==
  ASSUME NEW k, HoldsBook(k), Matches(k), NEW m, CarriesOrder(m),
         m.action \in BookActions, Accepted(k, m)
  PROVE  /\ Sound(k, m)
         /\ Applied(k, m) \in BookStates /\ Matches(Applied(k, m))
<1>1. CASE m.action = "Add"
  BY <1>1, AddKeeps DEF Accepted, Sound, Applied
<1>2. CASE m.action = "Cancel"
  BY <1>2, CancelKeeps DEF Accepted, Sound, Applied
<1>3. CASE m.action = "Modify"
  BY <1>3, ModifyKeeps DEF Accepted, Sound, Applied
<1> QED
  BY <1>1, <1>2, <1>3 DEF BookActions
-----------------------------------------------------------------------------
(* Depths.                                                                 *)

LEMMA VisibleDepthType ==
  ASSUME NEW levels, NEW side, NEW price
  PROVE  VisibleDepth(levels, side, price) \in 0 .. NoDepth
<1>1. IsFiniteSet({p \in Occupied(levels, side) : Better(side, p, price)})
  BY PriceAssumption, FS_Subset DEF Occupied
<1>2. Rank(levels, side, price) \in Nat
  BY <1>1, FS_CardinalityType DEF Rank
<1> QED
  BY <1>2, DepthAssumption DEF VisibleDepth, NoDepth

LEMMA ReportedType ==
  ASSUME NEW k, NEW m, m.action \in BookActions
  PROVE  Reported(k, m) \in 0 .. NoDepth
<1>1. \A d, e \in 0 .. NoDepth : Shallower(d, e) \in 0 .. NoDepth
  BY DEF Shallower
<1>2. IsPlacing(k, m) \/ IsRemoving(k, m) \/ IsResizing(k, m) \/ IsMoving(k, m)
  BY DEF IsPlacing, IsRemoving, IsResizing, IsMoving
<1>3. ModifyReported(k, m) \in 0 .. NoDepth
  BY <1>1, <1>2, VisibleDepthType DEF ModifyReported
<1> QED
  BY <1>3, VisibleDepthType DEF Reported, AddReported, CancelReported, BookActions

-----------------------------------------------------------------------------
(* What a change at one price leaves alone.                                *)

LEMMA RankType ==
  ASSUME NEW levels, NEW side, NEW price
  PROVE  Rank(levels, side, price) \in Nat
<1>1. IsFiniteSet({p \in Occupied(levels, side) : Better(side, p, price)})
  BY PriceAssumption, FS_Subset DEF Occupied
<1> QED
  BY <1>1, FS_CardinalityType DEF Rank

\* A price has at least the rank of any price that beats it.
LEMMA RankMonotone ==
  ASSUME NEW levels, NEW side \in Sides, NEW p \in Prices, NEW q \in Prices,
         Better(side, p, q)
  PROVE  Rank(levels, side, p) <= Rank(levels, side, q)
<1> DEFINE Above(r) == {o \in Occupied(levels, side) : Better(side, o, r)}
<1>1. Above(p) \subseteq Above(q)
  BY PriceAssumption DEF Better, Occupied
<1>2. IsFiniteSet(Above(q))
  BY PriceAssumption, FS_Subset DEF Occupied
<1> QED
  BY <1>1, <1>2, FS_Subset DEF Rank

AtDepth(levels, side, d) == {p \in Occupied(levels, side) : Rank(levels, side, p) = d}

\* What one place of a record shows, if here are the prices that claim it.
LevelShown(levels, side, here) ==
  IF here = {} THEN NoLevel
  ELSE LET p == CHOOSE p \in here : TRUE
       IN [price |-> p, size |-> levels[side][p].size, count |-> levels[side][p].count]

LEMMA ProjectionAt ==
  ASSUME NEW levels, NEW side \in Sides, NEW d \in 0 .. Depth - 1
  PROVE  Projection(levels)[side][d] = LevelShown(levels, side, AtDepth(levels, side, d))
BY DEF Projection, AtDepth, LevelShown

LEMMA SameLevelShown ==
  ASSUME NEW levels, NEW new, NEW side, NEW here,
         \A p \in here : new[side][p] = levels[side][p]
  PROVE  LevelShown(new, side, here) = LevelShown(levels, side, here)
<1> DEFINE p == CHOOSE p \in here : TRUE
<1>1. here # {} => p \in here
  OBVIOUS
<1>2. here # {} => new[side][p] = levels[side][p]
  BY <1>1
<1>3. \A l : LevelShown(l, side, here) =
        IF here = {} THEN NoLevel
        ELSE [price |-> p, size |-> l[side][p].size, count |-> l[side][p].count]
  BY DEF LevelShown
<1> HIDE DEF p
<1> QED
  BY <1>2, <1>3

\* The levels differ at one price at most.
DiffersAt(levels, new, s, price) ==
  \A side \in Sides, p \in Prices :
    side # s \/ p # price => new[side][p] = levels[side][p]

\* A record shows the same on the other side, and on this one above a depth.
KeepsAbove(levels, new, s, depth) ==
  \A side \in Sides, d \in 0 .. Depth - 1 :
    side # s \/ d < depth => Projection(new)[side][d] = Projection(levels)[side][d]

\* A level that is changed, made or removed hides only what it beats, on its
\* own side: what beats it keeps its rank.
LEMMA ShallowerStay ==
  ASSUME NEW levels, NEW new, NEW s \in Sides, NEW price \in Prices,
         DiffersAt(levels, new, s, price)
  PROVE  /\ Rank(new, s, price) = Rank(levels, s, price)
         /\ KeepsAbove(levels, new, s, Rank(levels, s, price))
<1>1. \A side \in Sides, p \in Prices :
           side # s \/ p # price => new[side][p] = levels[side][p]
  BY DEF DiffersAt
<1>2. /\ \A q \in Prices : ~Better(s, price, q) =>
           {p \in Occupied(new, s) : Better(s, p, q)} =
             {p \in Occupied(levels, s) : Better(s, p, q)}
  <2> SUFFICES ASSUME NEW q \in Prices, ~Better(s, price, q), NEW p \in Prices
               PROVE  p \in Occupied(new, s) /\ Better(s, p, q) <=>
                      p \in Occupied(levels, s) /\ Better(s, p, q)
    BY DEF Occupied
  <2> QED
    BY <1>1 DEF Occupied
<1>3. \A q \in Prices : ~Better(s, price, q) => Rank(new, s, q) = Rank(levels, s, q)
  BY <1>2 DEF Rank
<1>4. Rank(new, s, price) = Rank(levels, s, price)
  <2>1. price \in Int
    BY PriceAssumption
  <2>2. ~Better(s, price, price)
    BY <2>1 DEF Better
  <2> QED
    BY <1>3, <2>2
<1>5. ASSUME NEW side \in Sides, NEW d \in 0 .. Depth - 1,
             side # s \/ d < Rank(levels, s, price)
      PROVE  /\ AtDepth(new, side, d) = AtDepth(levels, side, d)
             /\ \A p \in AtDepth(levels, side, d) : new[side][p] = levels[side][p]
  <2>1. CASE side # s
    <3>1. Occupied(new, side) = Occupied(levels, side)
      BY <1>1, <2>1 DEF Occupied
    <3> QED
      BY <1>1, <2>1, <3>1 DEF AtDepth, Occupied, Rank
  <2>2. CASE side = s
    <3>1. ASSUME NEW p \in Prices
          PROVE  /\ p \in AtDepth(new, s, d) <=> p \in AtDepth(levels, s, d)
                 /\ p \in AtDepth(levels, s, d) => new[s][p] = levels[s][p]
      <4>1. CASE p = price
        <5>1. Rank(levels, s, price) # d
          BY <1>5, <2>2, RankType
        <5> QED
          BY <4>1, <5>1, <1>4 DEF AtDepth
      <4>2. CASE Better(s, price, p)
        <5>1. /\ Rank(levels, s, price) <= Rank(levels, s, p)
              /\ Rank(new, s, price) <= Rank(new, s, p)
          BY <4>2, RankMonotone
        <5>2. Rank(levels, s, p) # d /\ Rank(new, s, p) # d
          BY <5>1, <1>4, <1>5, <2>2, RankType
        <5> QED
          BY <5>2 DEF AtDepth
      <4>3. CASE p # price /\ ~Better(s, price, p)
        BY <4>3, <1>1, <1>3 DEF AtDepth, Occupied
      <4> QED
        BY <4>1, <4>2, <4>3
    <3> QED
      BY <2>2, <3>1 DEF AtDepth, Occupied
  <2> QED
    BY <2>1, <2>2
<1>6. ASSUME NEW side \in Sides, NEW d \in 0 .. Depth - 1,
             side # s \/ d < Rank(levels, s, price)
      PROVE  Projection(new)[side][d] = Projection(levels)[side][d]
  <2> DEFINE here == AtDepth(levels, side, d)
  <2>1. AtDepth(new, side, d) = here
    BY <1>5, <1>6
  <2>2. \A p \in here : new[side][p] = levels[side][p]
    BY <1>5, <1>6
  <2> HIDE DEF here
  <2>3. LevelShown(new, side, here) = LevelShown(levels, side, here)
    BY ONLY <2>2, SameLevelShown
  <2> QED
    BY <2>1, <2>3, ProjectionAt DEF here
<1> QED
  BY <1>4, <1>6 DEF KeepsAbove

LEMMA VisibleStay ==
  ASSUME NEW levels, NEW new, NEW s \in Sides, NEW price \in Prices,
         DiffersAt(levels, new, s, price)
  PROVE  /\ price \in Occupied(levels, s) =>
              KeepsAbove(levels, new, s, VisibleDepth(levels, s, price))
         /\ price \in Occupied(new, s) =>
              KeepsAbove(levels, new, s, VisibleDepth(new, s, price))
<1> DEFINE rank == Rank(levels, s, price)
<1>1. rank \in Nat /\ Rank(new, s, price) = rank /\ KeepsAbove(levels, new, s, rank)
  BY RankType, ShallowerStay
<1>2. ASSUME NEW l, price \in Occupied(l, s), Rank(l, s, price) = rank
      PROVE  KeepsAbove(levels, new, s, VisibleDepth(l, s, price))
  <2>1. \A d \in 0 .. Depth - 1 : d < VisibleDepth(l, s, price) => d < rank
    BY <1>1, <1>2, DepthAssumption DEF VisibleDepth, NoDepth
  <2> HIDE DEF rank
  <2> QED
    BY <1>1, <2>1 DEF KeepsAbove
<1> QED
  BY <1>1, <1>2

LEMMA KeepsBoth ==
  ASSUME NEW levels, NEW between, NEW new, NEW s,
         NEW d \in 0 .. NoDepth, NEW e \in 0 .. NoDepth,
         KeepsAbove(levels, between, s, d), KeepsAbove(between, new, s, e)
  PROVE  KeepsAbove(levels, new, s, Shallower(e, d))
<1>1. \A c \in 0 .. Depth - 1 : c < Shallower(e, d) => c < d /\ c < e
  BY DepthAssumption DEF Shallower, NoDepth
<1> QED
  BY <1>1 DEF KeepsAbove

\* There is a level where orders rest, and it is what they add up to.
LEMMA LevelIs ==
  ASSUME NEW k, HoldsBook(k), Matches(k), NEW side \in Sides, NEW price \in Prices
  PROVE  /\ price \in Occupied(k.levels, side) <=> OrdersAt(k.orders, side, price) # {}
         /\ price \in Occupied(k.levels, side) =>
              k.levels[side][price] = [size |-> SizeAt(k.orders, side, price),
                                       count |-> CountAt(k.orders, side, price)]
<1>1. SizeAt(k.orders, side, price) \in Nat /\ CountAt(k.orders, side, price) \in Nat
  BY OrdersFinite, LotsFinite, FS_CardinalityType DEF HoldsBook, SizeAt, CountAt
<1>2. k.levels[side][price] = Aggregate(k.orders, side, price)
  BY DEF Matches
<1> QED
  BY <1>1, <1>2, NoLevelIsNone DEF Aggregate, Occupied

LEMMA RestingOccupied ==
  ASSUME NEW k, HoldsBook(k), Matches(k), NEW id \in OrderIds, k.orders[id] # NoOrder
  PROVE  /\ k.orders[id].side \in Sides /\ k.orders[id].price \in Prices
         /\ k.orders[id].price \in Occupied(k.levels, k.orders[id].side)
<1>1. k.orders[id] \in Order
  BY DEF HoldsBook, OrderMap
<1>2. k.orders[id].side \in Sides /\ k.orders[id].price \in Prices
  BY <1>1 DEF Order
<1>3. OrdersAt(k.orders, k.orders[id].side, k.orders[id].price) # {}
  BY DEF OrdersAt
<1> QED
  BY <1>2, <1>3, LevelIs

LEMMA OneEdit ==
  ASSUME NEW levels \in LevelMap, NEW s \in Sides, NEW price \in Prices, NEW new,
         \E c : new = [levels EXCEPT ![s][price] = c]
  PROVE  DiffersAt(levels, new, s, price)
BY DEF DiffersAt, LevelMap

\* The depth that an operation reports bounds what it changes: no side but the
\* message's, and there nothing above it.
LEMMA ReportedBounds ==
  ASSUME NEW k, HoldsBook(k), Matches(k), NEW m, CarriesOrder(m),
         m.action \in BookActions, Accepted(k, m)
  PROVE  KeepsAbove(k.levels, Applied(k, m).levels, m.side, Reported(k, m))
<1> DEFINE old == k.orders[m.id]
           new == Applied(k, m)
<1>1. /\ m.side \in Sides /\ m.id \in OrderIds /\ m.price \in Prices
      /\ OrderOf(m) \in Order /\ OrderOf(m) # NoOrder
  BY FieldsTyped, NoLevelIsNone
     DEF Accepted, AddAccepted, CancelAccepted, ModifyAccepted, BookActions
<1>2. new \in BookStates /\ Matches(new)
  BY OperationKeeps
<1>3. HoldsBook(new)
  BY <1>2 DEF BookStates, HoldsBook
<1>4. ASSUME new.orders[m.id] # NoOrder, new.orders[m.id].side = m.side,
             new.orders[m.id].price = m.price
      PROVE  m.price \in Occupied(new.levels, m.side)
  BY <1>1, <1>2, <1>3, <1>4, RestingOccupied
<1>5. ASSUME old # NoOrder
      PROVE  old.side \in Sides /\ old.price \in Prices
             /\ old.price \in Occupied(k.levels, old.side)
  BY <1>1, <1>5, RestingOccupied
<1>6. k.levels \in LevelMap
  BY DEF HoldsBook
<1>7. CASE m.action = "Add"
  <2>1. new = Placed(k, m) /\ Reported(k, m) = VisibleDepth(new.levels, m.side, m.price)
    BY <1>7 DEF Applied, Reported, AddReported
  <2>2. DiffersAt(k.levels, new.levels, m.side, m.price)
    <3>1. new.levels = AddToLevel(k.levels, m.side, m.price, m.size)
      BY <2>1 DEF Placed
    <3>2. \E c : new.levels = [k.levels EXCEPT ![m.side][m.price] = c]
      BY <3>1 DEF AddToLevel
    <3> HIDE DEF new
    <3> QED
      BY <1>1, <1>5, <1>6, <3>2, OneEdit
  <2>3. new.orders[m.id] = OrderOf(m)
    BY <1>1, <2>1 DEF Placed, HoldsBook, OrderMap
  <2>4. m.price \in Occupied(new.levels, m.side)
    BY <1>1, <1>4, <2>3 DEF OrderOf
  <2> HIDE DEF new
  <2> QED
    BY <1>1, <2>1, <2>2, <2>4, VisibleStay DEF new
<1>8. CASE m.action = "Cancel"
  <2>1. new = Canceled(k, m) /\ Reported(k, m) = VisibleDepth(k.levels, m.side, m.price)
    BY <1>8 DEF Applied, Reported, CancelReported
  <2>2. old # NoOrder /\ old.side = m.side /\ old.price = m.price
    BY <1>8 DEF Accepted, CancelAccepted
  <2>3. DiffersAt(k.levels, new.levels, m.side, m.price)
    <3>1. new.levels = RemoveFromLevel(k.levels, m.side, m.price, m.size, m.size = old.size)
      BY <2>1 DEF Canceled
    <3>2. \E c : new.levels = [k.levels EXCEPT ![m.side][m.price] = c]
      BY <3>1 DEF RemoveFromLevel
    <3> HIDE DEF new
    <3> QED
      BY <1>1, <1>5, <1>6, <3>2, OneEdit
  <2> HIDE DEF new
  <2> QED
    BY <1>1, <1>5, <2>1, <2>2, <2>3, VisibleStay DEF new
<1>9. CASE m.action = "Modify"
  <2>1. new = Modified(k, m) /\ Reported(k, m) = ModifyReported(k, m)
    BY <1>9 DEF Applied, Reported
  <2>2. ~IsPlacing(k, m) => old # NoOrder /\ old.side = m.side
    BY <1>9 DEF Accepted, ModifyAccepted, IsPlacing
  <2>3. CASE IsPlacing(k, m)
    <3>1. new = Placed(k, m)
          /\ Reported(k, m) = VisibleDepth(new.levels, m.side, m.price)
      BY <2>1, <2>3 DEF Modified, ModifyReported, IsRemoving, IsResizing, IsMoving
    <3>2. DiffersAt(k.levels, new.levels, m.side, m.price)
      <4>1. new.levels = AddToLevel(k.levels, m.side, m.price, m.size)
        BY <3>1 DEF Placed
      <4>2. \E c : new.levels = [k.levels EXCEPT ![m.side][m.price] = c]
        BY <4>1 DEF AddToLevel
      <4> HIDE DEF new
      <4> QED
        BY <1>1, <1>5, <1>6, <4>2, OneEdit
    <3>3. new.orders[m.id] = OrderOf(m)
      BY <1>1, <3>1 DEF Placed, HoldsBook, OrderMap
    <3>4. m.price \in Occupied(new.levels, m.side)
      BY <1>1, <1>4, <3>3 DEF OrderOf
    <3> HIDE DEF new
    <3> QED
      BY <1>1, <3>1, <3>2, <3>4, VisibleStay DEF new
  <2>4. CASE IsRemoving(k, m)
    <3>1. /\ new.levels = Vacated(k, m)
          /\ Reported(k, m) = VisibleDepth(k.levels, m.side, old.price)
      BY <2>1, <2>2, <2>4
         DEF Modified, ModifyReported, IsPlacing, IsRemoving, IsResizing, IsMoving
    <3>2. DiffersAt(k.levels, new.levels, m.side, old.price)
      <4>1. \E c : new.levels = [k.levels EXCEPT ![m.side][old.price] = c]
        BY <2>2, <2>4, <3>1 DEF Vacated, RemoveFromLevel, IsRemoving
      <4> HIDE DEF new, old
      <4> QED
        BY <1>1, <1>5, <1>6, <2>2, <2>4, <4>1, OneEdit DEF IsRemoving
    <3> HIDE DEF new, old
    <3> QED
      BY <1>1, <1>5, <2>2, <2>4, <3>1, <3>2, VisibleStay DEF new, IsRemoving
  <2>5. CASE IsResizing(k, m)
    <3>1. /\ new.levels = SetLevelSize(k.levels, m.side, m.price, old.size, m.size)
          /\ new.orders = [k.orders EXCEPT ![m.id] = [old EXCEPT !.size = m.size]]
          /\ Reported(k, m) = VisibleDepth(new.levels, m.side, m.price)
          /\ old.price = m.price
      BY <2>1, <2>2, <2>5
         DEF Modified, ModifyReported, IsPlacing, IsRemoving, IsResizing, IsMoving
    <3>2. DiffersAt(k.levels, new.levels, m.side, m.price)
      <4>1. \E c : new.levels = [k.levels EXCEPT ![m.side][m.price] = c]
        BY <3>1 DEF SetLevelSize
      <4> HIDE DEF new
      <4> QED
        BY <1>1, <1>5, <1>6, <4>1, OneEdit
    <3>3. old \in Order /\ m.size \in U32
      BY <1>1, <2>2, <2>5 DEF HoldsBook, OrderMap, IsResizing, CarriesOrder
    <3>4. /\ new.orders[m.id] # NoOrder /\ new.orders[m.id].side = m.side
          /\ new.orders[m.id].price = m.price
      <4>1. new.orders[m.id] = [old EXCEPT !.size = m.size]
        BY <1>1, <3>1 DEF HoldsBook, OrderMap
      <4>2. [old EXCEPT !.size = m.size] \in Order
        BY <3>3 DEF Order
      <4> QED
        BY <4>1, <4>2, <2>2, <2>5, <3>1, <3>3, NoLevelIsNone DEF Order, IsResizing
    <3> HIDE DEF new
    <3> QED
      BY <1>1, <1>4, <3>1, <3>2, <3>4, VisibleStay DEF new
  <2>6. CASE IsMoving(k, m)
    <3> DEFINE between == Vacated(k, m)
               d == VisibleDepth(k.levels, m.side, old.price)
               e == VisibleDepth(new.levels, m.side, m.price)
    <3>1. /\ new.levels = AddToLevel(between, m.side, m.price, m.size)
          /\ new.orders = [k.orders EXCEPT ![m.id] = OrderOf(m)]
          /\ Reported(k, m) = Shallower(e, d)
      BY <2>1, <2>2, <2>6
         DEF Modified, ModifyReported, IsPlacing, IsRemoving, IsResizing, IsMoving
    <3>2. DiffersAt(k.levels, between, m.side, old.price)
      <4>1. \E c : between = [k.levels EXCEPT ![m.side][old.price] = c]
        BY <2>2, <2>6 DEF Vacated, RemoveFromLevel, IsMoving
      <4> HIDE DEF between, old
      <4> QED
        BY <1>1, <1>5, <1>6, <2>2, <2>6, <4>1, OneEdit DEF IsMoving
    <3>3. DiffersAt(between, new.levels, m.side, m.price)
      <4>1. between \in LevelMap
        <5>1. Gone(k, m.id) \in BookStates
          BY <1>1, <2>2, <2>6, RemovalKeeps DEF IsMoving
        <5> QED
          BY <5>1 DEF Gone, Vacated, BookStates
      <4>2. \E c : new.levels = [between EXCEPT ![m.side][m.price] = c]
        BY <3>1 DEF AddToLevel
      <4> HIDE DEF between, new
      <4> QED
        BY <1>1, <4>1, <4>2, OneEdit
    <3>4. new.orders[m.id] = OrderOf(m)
      BY <1>1, <3>1 DEF HoldsBook, OrderMap
    <3>5. m.price \in Occupied(new.levels, m.side)
      BY <1>1, <1>4, <3>4 DEF OrderOf
    <3>6. KeepsAbove(k.levels, between, m.side, d)
      <4> HIDE DEF between, old
      <4> QED
        BY <1>1, <1>5, <2>2, <2>6, <3>2, VisibleStay DEF IsMoving
    <3>7. KeepsAbove(between, new.levels, m.side, e)
      <4> HIDE DEF between, new
      <4> QED
        BY <1>1, <3>3, <3>5, VisibleStay
    <3>8. d \in 0 .. NoDepth /\ e \in 0 .. NoDepth
      BY VisibleDepthType
    <3> HIDE DEF between, new, d, e
    <3> QED
      BY <3>1, <3>6, <3>7, <3>8, KeepsBoth DEF new
  <2> QED
    BY <2>3, <2>4, <2>5, <2>6 DEF IsPlacing, IsRemoving, IsResizing, IsMoving
<1> QED
  BY <1>7, <1>8, <1>9 DEF BookActions
=============================================================================
