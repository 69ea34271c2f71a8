--------------------------- MODULE ConverterHistory ---------------------------
(***************************************************************************)
(* Converter with a memory of what a reader of its output knows: per book, *)
(* the levels on the newest record, whether an empty snapshot has emptied  *)
(* the book since then without a record, the newest change of its event,   *)
(* and the visible depths its event has touched since that record.         *)
(***************************************************************************)
EXTENDS Converter

VARIABLES shown, quiet, lastChange, touched

history == <<shown, quiet, lastChange, touched>>
hvars == <<vars, history>>

NothingShown == Projection(EmptyBook.levels)

HInit ==
  /\ Init
  /\ shown = [b \in Books |-> NothingShown]
  /\ quiet = [b \in Books |-> FALSE]
  /\ lastChange = [b \in Books |-> NoMessage]
  /\ touched = [b \in Books |-> {}]

ChangesBook(m) == m.action \in BookActions \cup {"Clear"}

\* The depths, with their sides, at which m changes what the book shows.
Touches(m) ==
  LET k == books[m.book]
      depth == IF m.action = "Clear" THEN 0 ELSE Reported(k, m)
  IN IF ~ChangesBook(m) THEN {}
     ELSE ({depth} \ {NoDepth}) \X TouchedSides(m.side)

\* The memory of an event is dropped when the next one begins.
Remember(m) ==
  LET opens == ~books[m.book].eventOpen
      k == After(m)
      recs == Outputs(k, m)
      emptied == k.snapshotEvent /\ IsLast(m) /\ recs = <<>>
  IN /\ shown' = IF recs = <<>> THEN shown
                 ELSE [shown EXCEPT ![m.book] = recs[Len(recs)].levels]
     /\ quiet' = [quiet EXCEPT ![m.book] = recs = <<>> /\ (@ \/ emptied)]
     /\ lastChange' = [lastChange EXCEPT ![m.book] =
          CASE ChangesBook(m) -> m
            [] ~ChangesBook(m) /\ opens -> NoMessage
            [] OTHER -> @]
     /\ touched' = [touched EXCEPT ![m.book] =
          IF k.snapshotEvent \/ m.action = "Trade" THEN {}
          ELSE Touches(m) \cup (IF opens THEN {} ELSE @)]

HNext ==
  \/ \E m \in Messages :
       \/ (SnapshotRecord(m) \/ SnapshotBoundary(m)) /\ Remember(m)
       \/ (EventRecord(m) \/ EventBoundary(m)) /\ Remember(m)
       \/ (Reject(m) \/ LimitExceeded(m)) /\ UNCHANGED history
  \/ (Finish \/ FinishIncomplete) /\ UNCHANGED history

HSpec == HInit /\ [][HNext]_hvars

-----------------------------------------------------------------------------
IsQuote(rec) == rec.source.action # "Trade"

\* What has been shown of a book that nothing was said about since it became
\* empty is nothing.
Base(b) == IF quiet[b] THEN NothingShown ELSE shown[b]

\* Between events a reader knows each book: its newest record shows the
\* book's ten levels, unless an empty snapshot has emptied it since.  No
\* change is lost to coalescing, to an invisible update or to a trade.
QuoteCurrent ==
  ~finished => \A b \in Books : ~books[b].eventOpen =>
    /\ shown[b] = Projection(books[b].levels) \/ quiet[b]
    /\ quiet[b] => NothingShown = Projection(books[b].levels)

\* The step's records, and the entries among them that it added to the queue.
Stream == emitted \o queue
Added(stream, waiting) == {i \in DOMAIN stream : i > Len(waiting)}

\* depth and side of a quote bound what differs from the record before it:
\* no level shallower than depth, and none at depth on the side not named.
QuoteDepthSound ==
  [][\A i \in Added(Stream', queue) :
       LET e == Stream'[i]
       IN IsQuote(e.rec) => \A side \in Sides, d \in 0 .. Depth - 1 :
            (\/ d < e.rec.depth
             \/ d = e.rec.depth /\ e.rec.side \in Sides \ {side})
            => e.rec.levels[side][d] = Base(e.book)[side][d]]_hvars

\* The depth of a quote is the shallowest its event has touched since the
\* record before it, and its side the one that touched that depth, or "None"
\* if both did: a trade within the event starts this afresh.
QuoteImpactExact ==
  [][\A i \in Added(Stream', queue) :
       LET e == Stream'[i]
           at == {t \in touched'[e.book] : t[1] = e.rec.depth}
       IN IsQuote(e.rec) /\ touched'[e.book] # {} =>
            /\ \A t \in touched'[e.book] : e.rec.depth <= t[1]
            /\ {t[2] : t \in at} =
                 IF e.rec.side = "None" THEN Sides ELSE {e.rec.side}]_hvars

\* A quote or a snapshot takes its other fields from the newest change of its
\* event, invisible ones included, never from a marker or an earlier change.
QuoteSource ==
  [][\A i \in Added(Stream', queue) :
       LET e == Stream'[i]
       IN IsQuote(e.rec) => e.rec.source = lastChange'[e.book]]_hvars

\* F_LAST is on every quote and snapshot, on a trade only if that trade was
\* the boundary and no quote follows it, and on nothing unfinished.
LastFlagExact ==
  \A i \in DOMAIN Stream :
    LET e == Stream[i]
    IN /\ IsQuote(e.rec) => e.last /\ e.ready
       /\ e.last => e.ready
       /\ ~IsQuote(e.rec) /\ e.last => IsLast(e.rec.source)
       /\ ~IsQuote(e.rec) /\ IsLast(e.rec.source) /\ ~e.last =>
            /\ i < Len(Stream) /\ Stream[i + 1].book = e.book
            /\ IsQuote(Stream[i + 1].rec)

-----------------------------------------------------------------------------
(* What the repository says and the code does not do.                      *)

\* "snapshot may contain only R, A, and final N records": in a snapshot an N
\* is accepted only if it is the final one.
SnapshotEndsAtNone ==
  \A m \in Messages :
    books[m.book].snapshotEvent /\ m.action = "None" /\ Admitted(m) => IsLast(m)

\* "If no record follows it, it is an empty initialization marker and is
\* safely suppressed at EOF": at the end of the input every book's newest
\* record shows its levels, suppressed reset or not.
FinishedCurrent ==
  finished => \A b \in Books :
    shown[b] = Projection(books[b].levels) \/ quiet[b]
=============================================================================
