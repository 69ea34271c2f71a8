------------------------------- MODULE BookOps -------------------------------
(***************************************************************************)
(* The order-book algorithm of src/converter.cpp as pure operators.  A     *)
(* book is any record k with at least                                      *)
(*   k.orders : id -> order, and k.levels : side -> price -> aggregate.    *)
(* For each operation there are four operators: Accepted (the checks on    *)
(* the message), Sound (the checks the code calls "internal"), Applied     *)
(* (the book afterwards) and Reported (the depth it returns).              *)
(***************************************************************************)
EXTENDS BookTypes

\* std::nullopt as a depth: one past the deepest level shown, so that the
\* shallower of two depths is their minimum whether or not both are visible.
NoDepth == Depth
Shallower(d, e) == IF d < e THEN d ELSE e

\* What a uint32 holds after an addition of two uint32 values.
Wrapped(n) == IF n > MaxU32 THEN n - (MaxU32 + 1) ELSE n

EmptyBook == [orders |-> [id \in OrderIds |-> NoOrder],
              levels |-> [side \in Sides |-> [price \in Prices |-> NoLevel]]]

IsEmptyBook(k) == k.orders = EmptyBook.orders /\ k.levels = EmptyBook.levels

(*************************** the price levels ******************************)

Occupied(levels, side) == {p \in Prices : levels[side][p] # NoLevel}

Rank(levels, side, price) ==
  Cardinality({p \in Occupied(levels, side) : Better(side, p, price)})

VisibleDepth(levels, side, price) ==
  IF price \in Occupied(levels, side) /\ Rank(levels, side, price) < Depth
  THEN Rank(levels, side, price)
  ELSE NoDepth

\* The ten levels of a record: by side and depth, the price with its
\* aggregate, or NoLevel where the side has fewer levels.
Projection(levels) ==
  [side \in Sides |-> [d \in 0 .. Depth - 1 |->
     LET here == {p \in Occupied(levels, side) : Rank(levels, side, p) = d}
     IN IF here = {} THEN NoLevel
        ELSE LET p == CHOOSE p \in here : TRUE
             IN [price |-> p, size |-> levels[side][p].size,
                 count |-> levels[side][p].count]]]

\* Mutant: only the order count is checked, so a level's size wraps.
LevelHasRoomForCount(levels, side, price, size) ==
  levels[side][price] # NoLevel => levels[side][price].count # MaxU32

LevelHasRoom(levels, side, price, size) ==
  levels[side][price] # NoLevel =>
    /\ size <= MaxU32 - levels[side][price].size
    /\ levels[side][price].count # MaxU32

AddToLevel(levels, side, price, size) ==
  LET level == IF levels[side][price] = NoLevel THEN [size |-> 0, count |-> 0]
               ELSE levels[side][price]
  IN [levels EXCEPT ![side][price] =
        [size |-> Wrapped(level.size + size), count |-> Wrapped(level.count + 1)]]

Lowered(level, size, whole) ==
  [size |-> level.size - size,
   count |-> IF whole THEN level.count - 1 ELSE level.count]

RemovalSound(levels, side, price, size, whole) ==
  LET level == levels[side][price]
  IN /\ level # NoLevel
     /\ level.size >= size
     /\ whole => level.count # 0
     /\ Lowered(level, size, whole).count = 0 => Lowered(level, size, whole).size = 0

RemoveFromLevel(levels, side, price, size, whole) ==
  LET left == Lowered(levels[side][price], size, whole)
  IN [levels EXCEPT ![side][price] = IF left.count = 0 THEN NoLevel ELSE left]

ResizeSound(levels, side, price, old) ==
  LET level == levels[side][price]
  IN level # NoLevel /\ level.size >= old /\ level.count # 0

\* Mutant: the check for overflow is missing.
ResizeFitsAlways(levels, side, price, old, new) == TRUE

ResizeFits(levels, side, price, old, new) ==
  ResizeSound(levels, side, price, old) =>
    levels[side][price].size - old + new <= MaxU32

\* Mutant: the level takes the size of the one order.
SetLevelSizeOverwrites(levels, side, price, old, new) ==
  [levels EXCEPT ![side][price] = [@ EXCEPT !.size = new]]

SetLevelSize(levels, side, price, old, new) ==
  LET level == levels[side][price]
  IN [levels EXCEPT ![side][price] =
        [size |-> level.size - old + new, count |-> level.count]]

(***************************** the operations ******************************)

\* Placing a new order: Add, and Modify of an id that is not resting.
Placed(k, m) ==
  [orders |-> [k.orders EXCEPT ![m.id] = OrderOf(m)],
   levels |-> AddToLevel(k.levels, m.side, m.price, m.size)]

AddAccepted(k, m) ==
  /\ OrderFieldsOk(m, FALSE)
  /\ k.orders[m.id] = NoOrder
  /\ LevelHasRoom(k.levels, m.side, m.price, m.size)

AddReported(k, m) == VisibleDepth(Placed(k, m).levels, m.side, m.price)

CancelAccepted(k, m) ==
  /\ OrderFieldsOk(m, FALSE)
  /\ k.orders[m.id] # NoOrder
  /\ k.orders[m.id].side = m.side
  /\ k.orders[m.id].price = m.price
  /\ m.size <= k.orders[m.id].size

CancelSound(k, m) ==
  RemovalSound(k.levels, m.side, m.price, m.size, m.size = k.orders[m.id].size)

Canceled(k, m) ==
  LET order == k.orders[m.id]
      whole == m.size = order.size
  IN [orders |-> [k.orders EXCEPT ![m.id] =
                    IF whole THEN NoOrder
                    ELSE [order EXCEPT !.size = order.size - m.size]],
      levels |-> RemoveFromLevel(k.levels, m.side, m.price, m.size, whole)]

\* Mutant: the depth is looked up after the removal, when the level is gone.
CancelReportedAfter(k, m) == VisibleDepth(Canceled(k, m).levels, m.side, m.price)

CancelReported(k, m) == VisibleDepth(k.levels, m.side, m.price)

\* Modify has four ways to go on, by what is resting and what is asked.
IsPlacing(k, m)  == k.orders[m.id] = NoOrder
IsRemoving(k, m) == ~IsPlacing(k, m) /\ m.size = 0
IsResizing(k, m) == /\ ~IsPlacing(k, m) /\ m.size # 0
                    /\ k.orders[m.id].price = m.price
IsMoving(k, m)   == /\ ~IsPlacing(k, m) /\ m.size # 0
                    /\ k.orders[m.id].price # m.price

\* Mutant: an order may change sides.
ModifyAcceptedAnySide(k, m) ==
  /\ OrderFieldsOk(m, TRUE)
  /\ IsPlacing(k, m) => m.size # 0
  /\ IsPlacing(k, m) \/ IsMoving(k, m) =>
       LevelHasRoom(k.levels, m.side, m.price, m.size)
  /\ IsResizing(k, m) =>
       ResizeFits(k.levels, m.side, m.price, k.orders[m.id].size, m.size)

ModifyAccepted(k, m) ==
  /\ OrderFieldsOk(m, TRUE)
  /\ IsPlacing(k, m) => m.size # 0
  /\ ~IsPlacing(k, m) => k.orders[m.id].side = m.side
  /\ IsPlacing(k, m) \/ IsMoving(k, m) =>
       LevelHasRoom(k.levels, m.side, m.price, m.size)
  /\ IsResizing(k, m) =>
       ResizeFits(k.levels, m.side, m.price, k.orders[m.id].size, m.size)

ModifySound(k, m) ==
  LET old == k.orders[m.id]
  IN /\ IsResizing(k, m) => ResizeSound(k.levels, m.side, m.price, old.size)
     /\ IsRemoving(k, m) \/ IsMoving(k, m) =>
          RemovalSound(k.levels, old.side, old.price, old.size, TRUE)

\* The levels once the resting order has left its price.
Vacated(k, m) ==
  LET old == k.orders[m.id]
  IN RemoveFromLevel(k.levels, old.side, old.price, old.size, TRUE)

Modified(k, m) ==
  LET old == k.orders[m.id]
  IN CASE IsPlacing(k, m) -> Placed(k, m)
       [] IsRemoving(k, m) ->
            [orders |-> [k.orders EXCEPT ![m.id] = NoOrder],
             levels |-> Vacated(k, m)]
       [] IsResizing(k, m) ->
            [orders |-> [k.orders EXCEPT ![m.id] = [old EXCEPT !.size = m.size]],
             levels |-> SetLevelSize(k.levels, old.side, old.price, old.size, m.size)]
       [] IsMoving(k, m) ->
            [orders |-> [k.orders EXCEPT ![m.id] = OrderOf(m)],
             levels |-> AddToLevel(Vacated(k, m), m.side, m.price, m.size)]

\* Mutant: a move reports only where the order went.
ModifyReportedNew(k, m) ==
  IF IsRemoving(k, m) THEN VisibleDepth(k.levels, m.side, k.orders[m.id].price)
  ELSE VisibleDepth(Modified(k, m).levels, m.side, m.price)

ModifyReported(k, m) ==
  LET old == k.orders[m.id]
      oldDepth == VisibleDepth(k.levels, old.side, old.price)
      newDepth == VisibleDepth(Modified(k, m).levels, m.side, m.price)
  IN CASE IsPlacing(k, m) \/ IsResizing(k, m) -> newDepth
       [] IsRemoving(k, m) -> oldDepth
       [] IsMoving(k, m) -> Shallower(newDepth, oldDepth)

(***************** the same four questions for any action ******************)

Accepted(k, m) ==
  CASE m.action = "Add" -> AddAccepted(k, m)
    [] m.action = "Cancel" -> CancelAccepted(k, m)
    [] m.action = "Modify" -> ModifyAccepted(k, m)

Sound(k, m) ==
  CASE m.action = "Add" -> TRUE
    [] m.action = "Cancel" -> CancelSound(k, m)
    [] m.action = "Modify" -> ModifySound(k, m)

Applied(k, m) ==
  CASE m.action = "Add" -> Placed(k, m)
    [] m.action = "Cancel" -> Canceled(k, m)
    [] m.action = "Modify" -> Modified(k, m)

Reported(k, m) ==
  CASE m.action = "Add" -> AddReported(k, m)
    [] m.action = "Cancel" -> CancelReported(k, m)
    [] m.action = "Modify" -> ModifyReported(k, m)
=============================================================================
