------------------------------ MODULE Converter ------------------------------
(***************************************************************************)
(* Converter of src/converter.cpp: one call of Process per MBO record, the *)
(* books it rebuilds, the events it coalesces into MBP-10 records, and the *)
(* queue they leave through.  A call that throws ends the conversion: the  *)
(* converter is local to ConvertRecords, and nothing sees its books again. *)
(***************************************************************************)
EXTENDS BookOps, Sequences

CONSTANTS
  Books,                 \* the (publisher_id, instrument_id) pairs
  Messages,              \* the MBO records the input may hold
  NoMessage,             \* a source that has not been set
  NoCandidate,           \* book_candidate without a value
  MaxBuffered,           \* max_buffered_output_records
  RequireInitialClear, RejectMaybeBadBook, RejectAggregate   \* the options

Flags == {"Last", "Snapshot", "MaybeBad", "Tob", "Mbp", "BadTsRecv"}

MboMessage ==
  [book : Books, seq : {0, 1}, flags : SUBSET Flags,
   action : BookActions \cup {"Clear", "Trade", "Fill", "None", "Other"},
   side : Sides \cup {"None"}, id : OrderIds \cup {NoId},
   price : Prices \cup {UndefPrice}, size : U32]

ASSUME ConverterAssumption ==
  /\ Messages \subseteq MboMessage /\ NoMessage \notin MboMessage
  /\ {RequireInitialClear, RejectMaybeBadBook, RejectAggregate} \subseteq BOOLEAN

ASSUME BufferAssumption == MaxBuffered \in Nat \ {0}

\* sides stands for bid_at_depth and ask_at_depth.
Candidate == [source : Messages, depth : 0 .. Depth - 1, reset : BOOLEAN,
              sides : SUBSET Sides]

ASSUME CandidateAssumption == NoCandidate \notin Candidate

Book == [orders : OrderMap, levels : LevelMap,
         candidate : Candidate \cup {NoCandidate},
         snapshotSource : Messages \cup {NoMessage},
         initialized : BOOLEAN, eventOpen : BOOLEAN,
         snapshotEvent : BOOLEAN, seqZeroOnly : BOOLEAN]

\* An Mbp10Msg; its F_LAST is kept beside it, in the queue.
ShownLevel == [price : Prices, size : U32, count : U32]
Record == [source : Messages, side : Sides \cup {"None"}, depth : 0 .. Depth - 1,
           levels : [Sides -> [0 .. Depth - 1 -> ShownLevel \cup {NoLevel}]]]

VARIABLES books, queue, pending, emitted,
          finished,   \* finished_
          error       \* "none", or what a call threw: "input", "limit", "internal"

Q == INSTANCE OutputQueue WITH Records <- Record

vars == <<books, queue, pending, emitted, finished, error>>

TypeOk ==
  /\ books \in [Books -> Book]
  /\ Q!TypeOk
  /\ finished \in BOOLEAN
  /\ error \in {"none", "input", "limit", "internal"}

NewBook == [orders |-> EmptyBook.orders, levels |-> EmptyBook.levels,
            candidate |-> NoCandidate, snapshotSource |-> NoMessage,
            initialized |-> FALSE, eventOpen |-> FALSE,
            snapshotEvent |-> FALSE, seqZeroOnly |-> FALSE]

Init ==
  /\ books = [b \in Books |-> NewBook]
  /\ Q!Init
  /\ finished = FALSE /\ error = "none"

-----------------------------------------------------------------------------
(* What a message is, and whether a book accepts it.                       *)

IsLast(m) == "Last" \in m.flags
IsSnapshot(m) == "Snapshot" \in m.flags

IsSequenceZeroReset(m) ==
  /\ m.action = "Clear" /\ m.side = "None" /\ m.id = NoId
  /\ m.price = UndefPrice /\ m.size = 0 /\ m.seq = 0
  /\ m.flags = {"BadTsRecv"}

FlagsOk(m) ==
  /\ ~(RejectMaybeBadBook /\ "MaybeBad" \in m.flags)
  /\ ~(RejectAggregate /\ {"Tob", "Mbp"} \cap m.flags # {})

\* The reset that opened the event turns out to begin a snapshot.
ContinuesReset(k, m, unpublished) ==
  /\ ~k.snapshotEvent /\ IsSnapshot(m) /\ m.action = "Add"
  /\ k.seqZeroOnly /\ k.eventOpen /\ unpublished
  /\ k.candidate # NoCandidate /\ IsSequenceZeroReset(k.candidate.source)
  /\ IsEmptyBook(k)

\* Mutant: a snapshot may interrupt an event.
TransitionOkAnytime(k, m, unpublished) ==
  /\ k.snapshotEvent =>
       /\ IsSnapshot(m) \/ (m.action = "None" /\ IsLast(m))
       /\ m.action \in {"Add", "None"}
  /\ ~k.snapshotEvent /\ IsSnapshot(m) =>
       ContinuesReset(k, m, unpublished) \/ m.action = "Clear"

TransitionOk(k, m, unpublished) ==
  /\ k.snapshotEvent =>
       /\ IsSnapshot(m) \/ (m.action = "None" /\ IsLast(m))
       /\ m.action \in {"Add", "None"}
  /\ ~k.snapshotEvent /\ IsSnapshot(m) =>
       \/ ContinuesReset(k, m, unpublished)
       \/ m.action = "Clear" /\ ~k.eventOpen

\* EnsureInitialized is called for these.
Initializes(m) == m.action \in BookActions \cup {"Trade", "Fill"}

Admits(k, m, unpublished) ==
  /\ FlagsOk(m)
  /\ TransitionOk(k, m, unpublished)
  /\ ~(IsSequenceZeroReset(m) /\ k.eventOpen)
  /\ m.action # "Other"
  /\ Initializes(m) => k.initialized \/ ~RequireInitialClear
  /\ m.action \in BookActions => Accepted(k, m)

-----------------------------------------------------------------------------
(* The book after a message, up to the event boundary.                     *)

TouchedSides(side) == IF side \in Sides THEN {side} ELSE Sides

\* Mutants of TrackBookUpdate: std::nullopt taken for a depth; the last depth
\* instead of the shallowest; a trade that does not start it afresh; an
\* invisible change that leaves the source alone.
TrackedFrom(m, d) ==
  [source |-> m, depth |-> d, reset |-> FALSE, sides |-> TouchedSides(m.side)]
TrackedInvisible(c, m, d) ==
  IF c = NoCandidate THEN TrackedFrom(m, d)
  ELSE IF d < c.depth THEN TrackedFrom(m, d) ELSE [c EXCEPT !.source = m]
TrackedNewest(c, m, d) ==
  IF d = NoDepth THEN IF c = NoCandidate THEN c ELSE [c EXCEPT !.source = m]
  ELSE TrackedFrom(m, d)
TrackedThroughTrade(c, m, d) ==
  IF c = NoCandidate THEN IF d = NoDepth THEN c ELSE TrackedFrom(m, d)
  ELSE IF d < c.depth THEN TrackedFrom(m, d)
  ELSE [c EXCEPT !.source = m,
                 !.sides = IF d = c.depth THEN @ \cup TouchedSides(m.side) ELSE @]
TrackedVisibleSource(c, m, d) ==
  IF d = NoDepth THEN c
  ELSE IF (IF c = NoCandidate THEN TRUE ELSE c.reset \/ d < c.depth) THEN TrackedFrom(m, d)
  ELSE [c EXCEPT !.source = m,
                 !.sides = IF d = c.depth THEN @ \cup TouchedSides(m.side) ELSE @]

\* TrackBookUpdate, where d is the depth the operation returned.
Tracked(c, m, d) ==
  CASE d = NoDepth -> IF c = NoCandidate THEN c ELSE [c EXCEPT !.source = m]
    [] d # NoDepth /\ (IF c = NoCandidate THEN TRUE ELSE c.reset \/ d < c.depth) ->
         [source |-> m, depth |-> d, reset |-> FALSE, sides |-> TouchedSides(m.side)]
    [] OTHER ->
         [c EXCEPT !.source = m,
                   !.sides = IF d = c.depth THEN @ \cup TouchedSides(m.side) ELSE @]

\* Mutant: once a reset, always a reset.
EnteredSticky(k, m, unpublished) ==
  LET began == ContinuesReset(k, m, unpublished)
  IN [k EXCEPT !.candidate = IF began THEN NoCandidate ELSE @,
               !.snapshotEvent = @ \/ began,
               !.seqZeroOnly = @ \/ IsSequenceZeroReset(m)]

\* ValidateSnapshotTransition and the reset flag.
Entered(k, m, unpublished) ==
  LET began == ContinuesReset(k, m, unpublished)
  IN [k EXCEPT !.candidate = IF began THEN NoCandidate ELSE @,
               !.snapshotEvent = @ \/ began,
               !.seqZeroOnly = IsSequenceZeroReset(m)]

\* The switch, the snapshot source, and the tracking of the change.
Received(before, m, unpublished) ==
  LET k == Entered(before, m, unpublished)
      snapshot == k.snapshotEvent \/ (m.action = "Clear" /\ IsSnapshot(m))
      changed == CASE m.action = "Clear" -> EmptyBook
                   [] m.action \in BookActions -> Applied(k, m)
                   [] OTHER -> [orders |-> k.orders, levels |-> k.levels]
      tracked ==
        CASE snapshot -> k.candidate
          [] ~snapshot /\ m.action = "Clear" -> Tracked(k.candidate, m, 0)
          [] ~snapshot /\ m.action \in BookActions ->
               Tracked(k.candidate, m, Reported(k, m))
          [] ~snapshot /\ m.action = "Trade" /\ k.candidate # NoCandidate ->
               [k.candidate EXCEPT !.reset = TRUE]
          [] OTHER -> k.candidate
  IN [k EXCEPT !.orders = changed.orders, !.levels = changed.levels,
               !.candidate = tracked,
               !.snapshotSource =
                  IF snapshot /\ m.action \in {"Clear", "Add"} THEN m ELSE @,
               !.initialized = @ \/ m.action = "Clear" \/ Initializes(m),
               !.eventOpen = TRUE,
               !.snapshotEvent = snapshot]

MakeOutput(m, k, d) ==
  [source |-> m, side |-> m.side, depth |-> d, levels |-> Projection(k.levels)]

AffectedSide(c) == IF c.sides \in {{"Bid"}, {"Ask"}} THEN CHOOSE s \in c.sides : TRUE
                   ELSE "None"

\* The quote an event boundary makes of everything the event changed.
Quote(k) ==
  IF k.candidate = NoCandidate THEN <<>>
  ELSE <<[MakeOutput(k.candidate.source, k, k.candidate.depth)
            EXCEPT !.side = AffectedSide(k.candidate)]>>

SnapshotQuote(k) ==
  IF k.levels = EmptyBook.levels THEN <<>>
  ELSE <<[MakeOutput(k.snapshotSource, k, 0) EXCEPT !.side = "None"]>>

\* The records that message m itself adds to the queue, k being the book
\* after it.
Outputs(k, m) ==
  IF k.snapshotEvent THEN IF IsLast(m) THEN SnapshotQuote(k) ELSE <<>>
  ELSE (IF m.action = "Trade" THEN <<MakeOutput(m, k, 0)>> ELSE <<>>)
       \o (IF IsLast(m) THEN Quote(k) ELSE <<>>)

\* Mutant: the snapshot stays open.
SnapshotClosedPartly(k) == [k EXCEPT !.eventOpen = FALSE]

\* What the boundary leaves: of a snapshot, and of any other event.
SnapshotClosed(k) == [k EXCEPT !.snapshotEvent = FALSE, !.eventOpen = FALSE]
EventClosed(k) == [k EXCEPT !.candidate = NoCandidate, !.eventOpen = FALSE]

-----------------------------------------------------------------------------
(* Process.                                                                *)

Running == ~finished /\ error = "none"
Unpublished(b) == pending[b] = {}
Admitted(m) == Admits(books[m.book], m, Unpublished(m.book))
BookSound(m) == m.action \in BookActions => Sound(books[m.book], m)
After(m) == Received(books[m.book], m, Unpublished(m.book))

Processes(m) ==
  /\ Running /\ Admitted(m) /\ BookSound(m)
  /\ UNCHANGED <<finished, error>>

\* A message that leaves its snapshot, or its event, open; k is the book after it.
KeepsOpen(m, k) ==
  /\ Q!Buffer(m.book, Outputs(k, m))
  /\ books' = [books EXCEPT ![m.book] = k]

SnapshotRecord(m) ==
  /\ ~IsLast(m) /\ Processes(m)
  /\ LET k == After(m) IN k.snapshotEvent /\ KeepsOpen(m, k)

EventRecord(m) ==
  /\ ~IsLast(m) /\ Processes(m)
  /\ LET k == After(m) IN ~k.snapshotEvent /\ KeepsOpen(m, k)

\* Mutant: every boundary flags the newest record.
CompletesMarked(m, k) == Q!BufferAndComplete(m.book, Outputs(k, m), TRUE)

\* A message with F_LAST: F_LAST goes out on the event's newest record if the
\* boundary itself produced one, a quote, a snapshot or a trade.
Completes(m, k) ==
  LET recs == Outputs(k, m)
  IN Q!BufferAndComplete(m.book, recs, recs # <<>>)

SnapshotBoundary(m) ==
  /\ IsLast(m) /\ Processes(m)
  /\ LET k == After(m)
     IN /\ k.snapshotEvent /\ Completes(m, k)
        /\ books' = [books EXCEPT ![m.book] = SnapshotClosed(k)]

EventBoundary(m) ==
  /\ IsLast(m) /\ Processes(m)
  /\ LET k == After(m)
     IN /\ ~k.snapshotEvent /\ Completes(m, k)
        /\ books' = [books EXCEPT ![m.book] = EventClosed(k)]

Throw(kind) ==
  error' = kind /\ emitted' = <<>> /\ UNCHANGED <<books, queue, pending, finished>>

\* Fail: for what the message is, or for levels at odds with the orders.
Reject(m) ==
  /\ Running /\ ~(Admitted(m) /\ BookSound(m))
  /\ Throw(IF Admitted(m) THEN "internal" ELSE "input")

LimitExceeded(m) ==
  /\ Running /\ Admitted(m) /\ BookSound(m)
  /\ ~Q!Fits(Outputs(After(m), m))
  /\ Throw("limit")

-----------------------------------------------------------------------------
(* Finish, at whatever point the input ends.                               *)

\* A sequence-zero reset that nothing followed is dropped.
Suppressed(b) ==
  LET k == books[b]
  IN /\ k.eventOpen /\ k.seqZeroOnly /\ Unpublished(b)
     /\ k.candidate # NoCandidate /\ IsSequenceZeroReset(k.candidate.source)

Finish ==
  /\ Running
  /\ \A b \in Books : books[b].eventOpen => Suppressed(b)
  /\ books' = [b \in Books |->
       IF Suppressed(b) THEN [EventClosed(books[b]) EXCEPT !.seqZeroOnly = FALSE]
       ELSE books[b]]
  /\ Q!Flush
  /\ finished' = (queue' = <<>>)
  /\ error' = IF queue' = <<>> THEN "none" ELSE "internal"

FinishIncomplete ==
  /\ Running
  /\ \E b \in Books : books[b].eventOpen /\ ~Suppressed(b)
  /\ Throw("input")

Process(m) ==
  \/ SnapshotRecord(m) \/ SnapshotBoundary(m)
  \/ EventRecord(m) \/ EventBoundary(m)
  \/ Reject(m) \/ LimitExceeded(m)

Next == (\E m \in Messages : Process(m)) \/ Finish \/ FinishIncomplete

Spec == Init /\ [][Next]_vars

-----------------------------------------------------------------------------

\* While a snapshot is being read, nothing of an ordinary event is under way
\* in its book: no candidate to overwrite, no record to complete with it.
\* And a snapshot that has a level to show takes its fields from an Add.
SnapshotExclusive ==
  \A b \in Books : LET k == books[b] IN k.snapshotEvent =>
    /\ k.eventOpen /\ k.initialized /\ ~k.seqZeroOnly
    /\ k.candidate = NoCandidate /\ Unpublished(b)
    /\ IsEmptyBook(k) \/ k.snapshotSource.action = "Add"

\* The flag sequence_zero_reset_only stands for everything that the snapshot
\* transition and Finish check beside it before they drop the reset: between
\* a reset and the next message of its book, its candidate is the reset, the
\* book is empty and no record waits.
ResetPristine ==
  \A b \in Books : LET k == books[b] IN k.seqZeroOnly =>
    /\ k.eventOpen /\ Unpublished(b) /\ IsEmptyBook(k)
    /\ k.candidate # NoCandidate /\ IsSequenceZeroReset(k.candidate.source)

\* Nothing of an event outlives its boundary.
ClosedIsClean ==
  \A b \in Books : LET k == books[b] IN ~k.eventOpen =>
    /\ k.candidate = NoCandidate /\ Unpublished(b)
    /\ ~k.snapshotEvent /\ ~k.seqZeroOnly

\* Whatever holds up the queue is an event still open, in its own book's eyes.
HeadIsOpen ==
  queue # <<>> => books[queue[1].book].eventOpen /\ ~queue[1].ready

\* The records of all books reach the sink in the order Process buffered them.
DeliveryInOrder == Q!FifoDelivery

\* Neither the aggregate checks of a book nor the check of Finish that the
\* queue has drained ever fails.
NoInternalError == error # "internal"
=============================================================================
