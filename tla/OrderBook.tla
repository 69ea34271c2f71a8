------------------------------ MODULE OrderBook ------------------------------
(***************************************************************************)
(* One order book of src/converter.cpp under any sequence of Clear, Add,   *)
(* Cancel and Modify messages: the orders map and the aggregate levels,    *)
(* kept in step incrementally, and the depth each operation returns.  The  *)
(* first error is thrown to the caller and ends the conversion.            *)
(***************************************************************************)
EXTENDS BookOps

CONSTANT Messages   \* the messages that may arrive, well formed or not

ASSUME MessageAssumption == Messages \subseteq OrderMessage

VARIABLES book,    \* the orders and the aggregate levels
          depth,   \* what the last operation returned
          error    \* "none", "input" (a bad message) or "internal"

vars == <<book, depth, error>>

TypeOk ==
  /\ book \in [orders : OrderMap, levels : LevelMap]
  /\ depth \in 0 .. NoDepth
  /\ error \in {"none", "input", "internal"}

Init == book = EmptyBook /\ depth = NoDepth /\ error = "none"

Clear(m) ==
  /\ error = "none" /\ m.action = "Clear"
  /\ book' = EmptyBook
  /\ depth' = 0
  /\ UNCHANGED error

Operate(m, action) ==
  /\ error = "none" /\ m.action = action
  /\ Accepted(book, m) /\ Sound(book, m)
  /\ book' = Applied(book, m)
  /\ depth' = Reported(book, m)
  /\ UNCHANGED error

Add(m) == Operate(m, "Add")
Cancel(m) == Operate(m, "Cancel")
Modify(m) == Operate(m, "Modify")

\* A check fails, before anything is changed: one on the message, or else one
\* that holds whenever the levels agree with the orders.
Reject(m) ==
  /\ error = "none" /\ m.action \in BookActions
  /\ ~(Accepted(book, m) /\ Sound(book, m))
  /\ error' = IF Accepted(book, m) THEN "internal" ELSE "input"
  /\ UNCHANGED <<book, depth>>

Next == \E m \in Messages :
  Clear(m) \/ Add(m) \/ Cancel(m) \/ Modify(m) \/ Reject(m)

Spec == Init /\ [][Next]_vars

-----------------------------------------------------------------------------

\* Every aggregate level is exactly the resting orders at its price: their
\* number, their total size, and no level at all where nothing rests.  The
\* code never recomputes a level; it adjusts it on ten paths of Add, Cancel
\* and Modify.
AggregatesMatch ==
  \A side \in Sides, p \in Prices :
    book.levels[side][p] = Aggregate(book.orders, side, p)

\* The checks the code calls internal (RemoveFromLevel, SetLevelSize) never
\* fail, whatever messages arrive.
NoInternalError == error # "internal"

\* The depth an operation returns bounds what it changed: no level shallower
\* than it differs on either side, and after std::nullopt none does.
DepthSound ==
  [][\A side \in Sides, d \in 0 .. Depth - 1 :
       d < depth' => Projection(book.levels)'[side][d] = Projection(book.levels)[side][d]]_vars

R == INSTANCE RestingOrders
       WITH orders <- book.orders, shown <- Projection(book.levels),
            refused <- error # "none"

\* The incremental book is indistinguishable from one that recomputes its
\* levels from the resting orders: it shows the same, and refuses a message
\* exactly when that one does.
ImplementsRestingOrders == R!Spec
=============================================================================
