---------------------------- MODULE RestingOrders ----------------------------
(***************************************************************************)
(* The abstract order book: it keeps the resting orders and nothing else.  *)
(* What it shows is worked out from them from scratch, and it refuses a    *)
(* message only for what the message itself says: malformed, at odds with  *)
(* the order it names, or more quantity at one price than a uint32 holds.  *)
(***************************************************************************)
EXTENDS BookTypes

CONSTANT Messages

VARIABLES orders,   \* the resting orders by id
          shown,    \* the top Depth prices of each side
          refused   \* a message was refused, and the book has stopped

vars == <<orders, shown, refused>>

\* The price that exactly d prices of its side with resting orders beat.
Ladder(os) ==
  LET prices == [side \in Sides |-> {p \in Prices : OrdersAt(os, side, p) # {}}]
      at(side, d) == {p \in prices[side] :
                        Cardinality({q \in prices[side] : Better(side, q, p)}) = d}
  IN [side \in Sides |-> [d \in 0 .. Depth - 1 |->
        IF at(side, d) = {} THEN NoLevel
        ELSE LET p == CHOOSE p \in at(side, d) : TRUE
             IN [price |-> p, size |-> SizeAt(os, side, p),
                 count |-> CountAt(os, side, p)]]]

Fits(os) == \A side \in Sides, p \in Prices : SizeAt(os, side, p) <= MaxU32

\* What message m makes of the order it names; o is NoOrder if none rests.
Makes(m, o) ==
  CASE m.action = "Cancel" ->
         IF m.size = o.size THEN NoOrder ELSE [o EXCEPT !.size = @ - m.size]
    [] m.action = "Modify" /\ m.size = 0 -> NoOrder
    [] OTHER -> OrderOf(m)

Agrees(m, o) ==
  CASE m.action = "Add" -> o = NoOrder
    [] m.action = "Cancel" ->
         /\ o # NoOrder /\ o.side = m.side /\ o.price = m.price
         /\ m.size <= o.size
    [] m.action = "Modify" ->
         IF o = NoOrder THEN m.size # 0 ELSE o.side = m.side

Legal(m) ==
  /\ OrderFieldsOk(m, m.action = "Modify")
  /\ Agrees(m, orders[m.id])
  /\ Fits([orders EXCEPT ![m.id] = Makes(m, orders[m.id])])

Init ==
  /\ orders = [id \in OrderIds |-> NoOrder]
  /\ shown = Ladder(orders)
  /\ refused = FALSE

Take(m) ==
  /\ ~refused /\ m.action # "Clear" /\ Legal(m)
  /\ orders' = [orders EXCEPT ![m.id] = Makes(m, orders[m.id])]
  /\ shown' = Ladder(orders')
  /\ UNCHANGED refused

Clear ==
  /\ ~refused
  /\ orders' = [id \in OrderIds |-> NoOrder]
  /\ shown' = Ladder(orders')
  /\ UNCHANGED refused

Refuse(m) ==
  /\ ~refused /\ m.action # "Clear" /\ ~Legal(m)
  /\ refused' = TRUE
  /\ UNCHANGED <<orders, shown>>

Next == Clear \/ \E m \in Messages : Take(m) \/ Refuse(m)

Spec == Init /\ [][Next]_vars
=============================================================================
