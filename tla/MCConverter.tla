----------------------------- MODULE MCConverter -----------------------------
(* Inputs for ConverterHistory: each set of messages asks one question.    *)
EXTENDS ConverterHistory

CONSTANTS b1, b2, o1, o2, o3

Message(b, a, s, i, p, z, flags, seq) ==
  [book |-> b, action |-> a, side |-> s, id |-> i, price |-> p, size |-> z,
   flags |-> flags, seq |-> seq]

\* A message about an order, and one that names none.
About(b, a, s, i, p, flags) == Message(b, a, s, i, p, 1, flags, 1)
Bare(b, a, flags) == Message(b, a, "None", NoId, UndefPrice, 0, flags, 1)

Reset(b) == Message(b, "Clear", "None", NoId, UndefPrice, 0, {"BadTsRecv"}, 0)

OpenOrLast == {{}, {"Last"}}

MCOnePrice == {1}
MCTwoPrices == 1 .. 2
MCThreePrices == 1 .. 3

\* Any order of changes to three bids, of which one moves between the top levels
\* and out of sight, or to two and an ask, of trades and clears.  The last record
\* of an event is a marker, a trade, or a change to the second order.
ChangeMessages ==
  {About(b1, a, "Bid", o1, p, {}) : a \in {"Add", "Modify"}, p \in Prices}
  \cup {About(b1, a, "Bid", o2, 2, {"Last"}) : a \in {"Add", "Cancel"}}
  \cup {About(b1, "Add", "Bid", o3, 3, {}), About(b1, "Add", "Ask", o2, 1, {})}
  \cup {About(b1, "Trade", "Ask", NoId, 1, f) : f \in OpenOrLast}
  \cup {Bare(b1, "Clear", {}), Bare(b1, "None", {"Last"})}

\* Snapshots, whole, empty, cut off and interrupted, after a reset and
\* without one, among ordinary events, which trade and change two bids in any
\* order; and the flags that are refused.
SnapshotMessages ==
  {Reset(b1)}
  \cup {Bare(b1, "Clear", f) : f \in {{}, {"Last"}, {"Snapshot"}, {"Snapshot", "Last"}}}
  \cup {Bare(b1, "None", f) : f \in {{}, {"Last"}, {"Snapshot"}, {"Snapshot", "Last"}}}
  \cup {About(b1, "Add", "Bid", i, p, f) : i \in {o1, o2}, p \in Prices,
          f \in {{}, {"Last"}, {"Snapshot"}, {"Snapshot", "Last"}}}
  \cup {About(b1, "Cancel", "Bid", o1, p, f) : p \in Prices,
          f \in {{"Last"}, {"Snapshot"}}}
  \cup {About(b1, "Modify", "Bid", o1, p, {}) : p \in Prices}
  \cup {About(b1, "Trade", "Bid", NoId, 1, f) : f \in OpenOrLast}
  \cup {About(b1, "Fill", "Bid", o1, 1, {"Last"}), Bare(b1, "Other", {"Last"}),
        Bare(b1, "None", {"Last", "MaybeBad"}), Bare(b1, "None", {"Last", "Tob"}),
        Bare(b1, "None", {"Last", "Mbp"})}

\* Two books whose events overlap in the queue.
InterleavedMessages ==
  UNION {{About(b, "Add", "Bid", o1, 1, {}), About(b, "Cancel", "Bid", o1, 1, {}),
          About(b, "Trade", "Bid", NoId, 1, {}), Bare(b, "Clear", {}),
          Bare(b, "None", {"Last"})} : b \in Books}
=============================================================================
