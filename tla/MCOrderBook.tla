----------------------------- MODULE MCOrderBook -----------------------------
(* OrderBook on a few ids, prices and sizes, every message over them.      *)
EXTENDS OrderBook, TLC

CONSTANTS o1, o2, o3

MCPrices == 1 .. 3

Message(a, s, i, p, z) ==
  [action |-> a, side |-> s, id |-> i, price |-> p, size |-> z]

\* Every well-formed message, and each kind of malformed one.
MCMessages ==
  [action : BookActions, side : Sides, id : OrderIds, price : Prices,
   size : 0 .. MaxU32 - 1]
  \cup {Message("Clear", "None", NoId, UndefPrice, 0)}
  \cup UNION {{Message(a, "None", i, 1, 1), Message(a, "Bid", NoId, 1, 1),
               Message(a, "Bid", i, UndefPrice, 1), Message(a, "Bid", i, 1, UndefSize)} :
              a \in BookActions, i \in OrderIds}

\* No property tells one order id from another.
MCSymmetry == Permutations(OrderIds)
=============================================================================
