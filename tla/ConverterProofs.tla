--------------------------- MODULE ConverterProofs ---------------------------
(***************************************************************************)
(* That the converter's events never mix: snapshots, sequence-zero resets  *)
(* and ordinary events of a book exclude each other, nothing outlives its  *)
(* boundary, no check called internal fails, and the queue keeps its       *)
(* promises under what Process and Finish do with it: seen from the sink,  *)
(* a converter is an OutputQueue.                                          *)
(*                                                                         *)
(* What a message makes of a book is a matter of that book alone, so the   *)
(* first half has no state: BookOk says of one book what CInv says of      *)
(* all.  BookOpsProofs gives the levels, OutputQueueProofs the queue.      *)
(***************************************************************************)
EXTENDS Converter, BookOpsProofs, SequenceTheorems, TLAPS

QP == INSTANCE OutputQueueProofs WITH Records <- Record

\* What holds of a book between calls; free says that no record of its waits.
SnapshotOk(k, free) ==
  k.snapshotEvent =>
    /\ k.eventOpen /\ k.initialized /\ ~k.seqZeroOnly
    /\ k.candidate = NoCandidate /\ free
    /\ IsEmptyBook(k) \/ (k.snapshotSource \in Messages /\ k.snapshotSource.action = "Add")

ResetOk(k, free) ==
  k.seqZeroOnly =>
    /\ k.eventOpen /\ free /\ IsEmptyBook(k)
    /\ k.candidate # NoCandidate /\ IsSequenceZeroReset(k.candidate.source)

ClosedOk(k, free) ==
  ~k.eventOpen =>
    k.candidate = NoCandidate /\ free /\ ~k.snapshotEvent /\ ~k.seqZeroOnly

BookOk(k, free) ==
  /\ k \in Book /\ Matches(k)
  /\ SnapshotOk(k, free) /\ ResetOk(k, free) /\ ClosedOk(k, free)

-----------------------------------------------------------------------------
(* Types.                                                                  *)

LEMMA MessageTyped ==
  ASSUME NEW m \in Messages
  PROVE  /\ CarriesOrder(m) /\ m.book \in Books /\ m # NoMessage
         /\ m.side \in Sides \cup {"None"} /\ m.flags \in SUBSET Flags
BY ConverterAssumption DEF MboMessage, CarriesOrder

LEMMA BookTyped ==
  ASSUME NEW k \in Book
  PROVE  /\ HoldsBook(k)
         /\ k.candidate \in Candidate \cup {NoCandidate}
         /\ k.snapshotSource \in Messages \cup {NoMessage}
         /\ k.initialized \in BOOLEAN /\ k.eventOpen \in BOOLEAN
         /\ k.snapshotEvent \in BOOLEAN /\ k.seqZeroOnly \in BOOLEAN
BY DEF Book, HoldsBook

\* An F_LAST message is no reset, and a reset is no snapshot record.
LEMMA ResetFlags ==
  ASSUME NEW m \in Messages, IsSequenceZeroReset(m)
  PROVE  /\ m.action = "Clear" /\ ~IsLast(m) /\ ~IsSnapshot(m)
         /\ m.side = "None"
BY DEF IsSequenceZeroReset, IsLast, IsSnapshot

LEMMA TouchedType ==
  ASSUME NEW side \in Sides \cup {"None"}
  PROVE  TouchedSides(side) \in SUBSET Sides
BY DEF TouchedSides

LEMMA TrackedType ==
  ASSUME NEW c \in Candidate \cup {NoCandidate}, NEW m \in Messages,
         NEW d \in 0 .. NoDepth
  PROVE  Tracked(c, m, d) \in Candidate \cup {NoCandidate}
<1>1. TouchedSides(m.side) \in SUBSET Sides
  BY MessageTyped, TouchedType
<1>2. d # NoDepth => d \in 0 .. Depth - 1
  BY DepthAssumption DEF NoDepth
<1>3. CASE d = NoDepth
  <2>1. Tracked(c, m, d) = IF c = NoCandidate THEN c ELSE [c EXCEPT !.source = m]
    BY <1>3 DEF Tracked
  <2> QED
    BY <2>1 DEF Candidate
<1>4. CASE d # NoDepth /\ (IF c = NoCandidate THEN TRUE ELSE c.reset \/ d < c.depth)
  <2>1. Tracked(c, m, d) = [source |-> m, depth |-> d, reset |-> FALSE,
                            sides |-> TouchedSides(m.side)]
    BY <1>4 DEF Tracked
  <2> QED
    BY <2>1, <1>1, <1>2, <1>4 DEF Candidate
<1>5. CASE d # NoDepth /\ ~(IF c = NoCandidate THEN TRUE ELSE c.reset \/ d < c.depth)
  <2> DEFINE touched == IF d = c.depth THEN c.sides \cup TouchedSides(m.side) ELSE c.sides
  <2>1. c \in Candidate
    BY <1>5
  <2>2. touched \in SUBSET Sides
    BY <1>1, <2>1 DEF Candidate
  <2>3. Tracked(c, m, d) = [c EXCEPT !.source = m, !.sides = touched]
    BY <1>5, <2>1 DEF Tracked, Candidate
  <2> HIDE DEF touched
  <2> QED
    BY <2>1, <2>2, <2>3 DEF Candidate
<1> QED
  BY <1>3, <1>4, <1>5

\* What starts from no candidate at the top of the book is the message's own.
LEMMA TrackedAtTop ==
  ASSUME NEW m \in Messages
  PROVE  /\ Tracked(NoCandidate, m, 0) # NoCandidate
         /\ Tracked(NoCandidate, m, 0).source = m
<1>1. 0 # NoDepth /\ 0 \in 0 .. Depth - 1
  BY DepthAssumption DEF NoDepth
<1>2. Tracked(NoCandidate, m, 0) = [source |-> m, depth |-> 0, reset |-> FALSE,
                                    sides |-> TouchedSides(m.side)]
  BY <1>1 DEF Tracked
<1>3. TouchedSides(m.side) \in SUBSET Sides
  BY MessageTyped, TouchedType
<1>4. Tracked(NoCandidate, m, 0) \in Candidate
  <2>1. [source |-> m, depth |-> 0, reset |-> FALSE, sides |-> TouchedSides(m.side)]
          \in Candidate
    BY <1>1, <1>3 DEF Candidate
  <2> QED
    BY <1>2, <2>1
<1> QED
  BY <1>2, <1>4, CandidateAssumption

LEMMA ProjectionType ==
  ASSUME NEW levels \in LevelMap
  PROVE  Projection(levels) \in [Sides -> [0 .. Depth - 1 -> ShownLevel \cup {NoLevel}]]
<1> DEFINE Shown(side, d) ==
      LET here == {p \in Occupied(levels, side) : Rank(levels, side, p) = d}
      IN IF here = {} THEN NoLevel
         ELSE LET p == CHOOSE p \in here : TRUE
              IN [price |-> p, size |-> levels[side][p].size,
                  count |-> levels[side][p].count]
<1>1. ASSUME NEW side \in Sides, NEW d \in 0 .. Depth - 1
      PROVE  Shown(side, d) \in ShownLevel \cup {NoLevel}
  <2> DEFINE here == {p \in Occupied(levels, side) : Rank(levels, side, p) = d}
             p == CHOOSE p \in here : TRUE
  <2>1. CASE here = {}
    BY <2>1
  <2>2. CASE here # {}
    <3>1. p \in here
      BY <2>2
    <3>2. p \in Prices /\ levels[side][p] # NoLevel
      BY <3>1 DEF Occupied
    <3> HIDE DEF p
    <3>3. levels[side][p] \in Level
      BY <3>2 DEF LevelMap
    <3>4. [price |-> p, size |-> levels[side][p].size,
           count |-> levels[side][p].count] \in ShownLevel
      BY <3>2, <3>3 DEF Level, ShownLevel
    <3> QED
      BY <2>2, <3>4 DEF p
  <2> QED
    BY <2>1, <2>2
<1>2. Projection(levels) = [side \in Sides |-> [d \in 0 .. Depth - 1 |-> Shown(side, d)]]
  BY DEF Projection
<1> HIDE DEF Shown
<1> QED
  BY <1>1, <1>2

LEMMA MakeOutputType ==
  ASSUME NEW m \in Messages, NEW k, k.levels \in LevelMap, NEW d \in 0 .. Depth - 1,
         NEW side \in Sides \cup {"None"}
  PROVE  /\ MakeOutput(m, k, d) \in Record
         /\ [MakeOutput(m, k, d) EXCEPT !.side = side] \in Record
<1>1. Projection(k.levels) \in [Sides -> [0 .. Depth - 1 -> ShownLevel \cup {NoLevel}]]
  BY ProjectionType
<1>2. MakeOutput(m, k, d) \in Record
  BY <1>1, MessageTyped DEF MakeOutput, Record
<1> QED
  BY <1>2 DEF Record

LEMMA OneRecord ==
  ASSUME NEW r \in Record
  PROVE  <<r>> \in Seq(Record) /\ <<r>> # <<>>
OBVIOUS

LEMMA QuoteType ==
  ASSUME NEW k \in Book
  PROVE  Quote(k) \in Seq(Record)
<1>1. CASE k.candidate = NoCandidate
  BY <1>1 DEF Quote
<1>2. CASE k.candidate # NoCandidate
  <2> DEFINE c == k.candidate
             side == AffectedSide(c)
  <2>1. c \in Candidate /\ k.levels \in LevelMap
    BY <1>2 DEF Book
  <2>2. side \in Sides \cup {"None"}
    <3>1. CASE c.sides \in {{"Bid"}, {"Ask"}}
      BY <3>1 DEF AffectedSide, Sides
    <3>2. CASE c.sides \notin {{"Bid"}, {"Ask"}}
      BY <3>2 DEF AffectedSide
    <3> QED
      BY <3>1, <3>2
  <2>3. c.source \in Messages /\ c.depth \in 0 .. Depth - 1
    BY <2>1 DEF Candidate
  <2>4. [MakeOutput(c.source, k, c.depth) EXCEPT !.side = side] \in Record
    <3> HIDE DEF side, c
    <3> QED
      BY <2>1, <2>2, <2>3, MakeOutputType
  <2>5. Quote(k) = <<[MakeOutput(c.source, k, c.depth) EXCEPT !.side = side]>>
    BY <1>2 DEF Quote
  <2> HIDE DEF side, c
  <2> QED
    BY <2>4, <2>5, OneRecord
<1> QED
  BY <1>1, <1>2

LEMMA SnapshotQuoteType ==
  ASSUME NEW k \in Book, IsEmptyBook(k) \/ k.snapshotSource \in Messages
  PROVE  SnapshotQuote(k) \in Seq(Record)
<1>1. CASE k.levels = EmptyBook.levels
  BY <1>1 DEF SnapshotQuote
<1>2. CASE k.levels # EmptyBook.levels
  <2>1. k.snapshotSource \in Messages /\ k.levels \in LevelMap
    BY <1>2 DEF IsEmptyBook, Book
  <2>2. 0 \in 0 .. Depth - 1 /\ "None" \in Sides \cup {"None"}
    BY DepthAssumption
  <2>3. [MakeOutput(k.snapshotSource, k, 0) EXCEPT !.side = "None"] \in Record
    BY <2>1, <2>2, MakeOutputType
  <2>4. SnapshotQuote(k) = <<[MakeOutput(k.snapshotSource, k, 0) EXCEPT !.side = "None"]>>
    BY <1>2 DEF SnapshotQuote
  <2> QED
    BY <2>3, <2>4, OneRecord
<1> QED
  BY <1>1, <1>2

LEMMA OutputsType ==
  ASSUME NEW k \in Book, NEW m \in Messages,
         k.snapshotEvent => IsEmptyBook(k) \/ k.snapshotSource \in Messages
  PROVE  Outputs(k, m) \in Seq(Record)
<1>1. <<>> \in Seq(Record)
  OBVIOUS
<1>2. CASE k.snapshotEvent
  BY <1>1, <1>2, SnapshotQuoteType DEF Outputs
<1>3. CASE ~k.snapshotEvent
  <2> DEFINE trade == IF m.action = "Trade" THEN <<MakeOutput(m, k, 0)>> ELSE <<>>
             quote == IF IsLast(m) THEN Quote(k) ELSE <<>>
  <2>1. 0 \in 0 .. Depth - 1 /\ "None" \in Sides \cup {"None"} /\ k.levels \in LevelMap
    BY DepthAssumption DEF Book
  <2>2. trade \in Seq(Record)
    BY <1>1, <2>1, MakeOutputType, OneRecord
  <2>3. quote \in Seq(Record)
    BY <1>1, QuoteType
  <2>4. Outputs(k, m) = trade \o quote
    BY <1>3 DEF Outputs
  <2> HIDE DEF trade, quote
  <2> QED
    BY <2>2, <2>3, <2>4
<1> QED
  BY <1>2, <1>3

-----------------------------------------------------------------------------
(* A message arrives at a book.                                            *)

LEMMA EnteredIs ==
  ASSUME NEW k \in Book, NEW m, NEW free
  PROVE  LET e == Entered(k, m, free)
             began == ContinuesReset(k, m, free)
         IN /\ e \in Book
            /\ e.orders = k.orders /\ e.levels = k.levels
            /\ e.candidate = (IF began THEN NoCandidate ELSE k.candidate)
            /\ e.snapshotSource = k.snapshotSource
            /\ e.initialized = k.initialized
            /\ e.snapshotEvent = (k.snapshotEvent \/ began)
            /\ e.seqZeroOnly = IsSequenceZeroReset(m)
<1> DEFINE began == ContinuesReset(k, m, free)
           reset == IsSequenceZeroReset(m)
           candidate == IF began THEN NoCandidate ELSE k.candidate
           snapshot == k.snapshotEvent \/ began
           e == [k EXCEPT !.candidate = candidate, !.snapshotEvent = snapshot,
                          !.seqZeroOnly = reset]
<1>1. began \in BOOLEAN /\ reset \in BOOLEAN
  BY DEF ContinuesReset, IsSequenceZeroReset
<1> HIDE DEF began, reset
<1>2. candidate \in Candidate \cup {NoCandidate} /\ snapshot \in BOOLEAN
  BY <1>1, BookTyped
<1>3. Entered(k, m, free) = e
  BY DEF Entered, began, reset, Book
<1> HIDE DEF candidate, snapshot
<1>4. e \in Book /\ e.candidate = candidate /\ e.snapshotEvent = snapshot
      /\ e.seqZeroOnly = reset
  BY <1>1, <1>2 DEF Book
<1>5. /\ e.orders = k.orders /\ e.levels = k.levels
      /\ e.snapshotSource = k.snapshotSource /\ e.initialized = k.initialized
  BY DEF Book
<1> HIDE DEF e
<1> QED
  BY <1>3, <1>4, <1>5 DEF candidate, snapshot, began, reset

\* What the switch in Process makes of the book's orders and levels.
Changed(k, m) ==
  CASE m.action = "Clear" -> EmptyBook
    [] m.action \in BookActions -> Applied(k, m)
    [] OTHER -> [orders |-> k.orders, levels |-> k.levels]

LEMMA ChangedKeeps ==
  ASSUME NEW k, HoldsBook(k), Matches(k), NEW m \in Messages,
         m.action \in BookActions => Accepted(k, m)
  PROVE  Changed(k, m) \in BookStates /\ Matches(Changed(k, m))
<1>1. CASE m.action = "Clear"
  BY <1>1, EmptyMatches DEF Changed, BookActions
<1>2. CASE m.action \in BookActions
  <2>1. Changed(k, m) = Applied(k, m)
    BY <1>2 DEF Changed, BookActions
  <2> QED
    BY <1>2, <2>1, MessageTyped, OperationKeeps
<1>3. CASE m.action # "Clear" /\ m.action \notin BookActions
  <2>1. Changed(k, m) = [orders |-> k.orders, levels |-> k.levels]
    BY <1>3 DEF Changed
  <2> QED
    BY <2>1 DEF HoldsBook, BookStates, Matches
<1> QED
  BY <1>1, <1>2, <1>3

\* What becomes of the candidate, snapshot being whether the message belongs
\* to a snapshot.
Candidacy(k, m, snapshot) ==
  CASE snapshot -> k.candidate
    [] ~snapshot /\ m.action = "Clear" -> Tracked(k.candidate, m, 0)
    [] ~snapshot /\ m.action \in BookActions ->
         Tracked(k.candidate, m, Reported(k, m))
    [] ~snapshot /\ m.action = "Trade" /\ k.candidate # NoCandidate ->
         [k.candidate EXCEPT !.reset = TRUE]
    [] OTHER -> k.candidate

LEMMA CandidacyType ==
  ASSUME NEW k, k.candidate \in Candidate \cup {NoCandidate}, NEW m \in Messages,
         NEW snapshot \in BOOLEAN
  PROVE  Candidacy(k, m, snapshot) \in Candidate \cup {NoCandidate}
<1>1. CASE snapshot
  <2>1. Candidacy(k, m, snapshot) = k.candidate
    BY <1>1 DEF Candidacy
  <2> QED
    BY <2>1
<1>2. CASE ~snapshot /\ m.action = "Clear"
  <2>1. Candidacy(k, m, snapshot) = Tracked(k.candidate, m, 0)
    BY <1>2 DEF Candidacy, BookActions
  <2>2. 0 \in 0 .. NoDepth
    BY DepthAssumption DEF NoDepth
  <2> QED
    BY <2>1, <2>2, TrackedType
<1>3. CASE ~snapshot /\ m.action \in BookActions
  <2>1. Candidacy(k, m, snapshot) = Tracked(k.candidate, m, Reported(k, m))
    BY <1>3 DEF Candidacy, BookActions
  <2> QED
    BY <1>3, <2>1, ReportedType, TrackedType
<1>4. CASE ~snapshot /\ m.action = "Trade" /\ k.candidate # NoCandidate
  <2>1. Candidacy(k, m, snapshot) = [k.candidate EXCEPT !.reset = TRUE]
    BY <1>4 DEF Candidacy, BookActions
  <2> QED
    BY <1>4, <2>1 DEF Candidate
<1>5. CASE /\ ~snapshot /\ m.action # "Clear" /\ m.action \notin BookActions
           /\ ~(m.action = "Trade" /\ k.candidate # NoCandidate)
  <2>1. Candidacy(k, m, snapshot) = k.candidate
    BY <1>5 DEF Candidacy
  <2> QED
    BY <2>1
<1> QED
  BY <1>1, <1>2, <1>3, <1>4, <1>5

\* The checks look at nothing but orders and levels.
LEMMA SameAccepted ==
  ASSUME NEW k, NEW l, NEW m, k.orders = l.orders, k.levels = l.levels,
         m.action \in BookActions, Accepted(l, m)
  PROVE  Accepted(k, m)
<1>1. AddAccepted(l, m) => AddAccepted(k, m)
  BY DEF AddAccepted
<1>2. CancelAccepted(l, m) => CancelAccepted(k, m)
  BY DEF CancelAccepted
<1>3. ModifyAccepted(l, m) => ModifyAccepted(k, m)
  BY DEF ModifyAccepted, IsPlacing, IsMoving, IsResizing
<1> QED
  BY <1>1, <1>2, <1>3 DEF Accepted, BookActions

Snapshotting(k, m) == k.snapshotEvent \/ (m.action = "Clear" /\ IsSnapshot(m))

LEMMA ReceivedIs ==
  ASSUME NEW k \in Book, Matches(k), NEW m \in Messages, NEW free,
         m.action \in BookActions => Accepted(k, m)
  PROVE  LET e == Entered(k, m, free)
             snapshot == Snapshotting(e, m)
             r == Received(k, m, free)
         IN /\ r \in Book /\ Matches(r)
            /\ r.orders = Changed(e, m).orders /\ r.levels = Changed(e, m).levels
            /\ r.candidate = Candidacy(e, m, snapshot)
            /\ r.snapshotSource = (IF snapshot /\ m.action \in {"Clear", "Add"}
                                   THEN m ELSE k.snapshotSource)
            /\ r.initialized = (k.initialized \/ m.action = "Clear" \/ Initializes(m))
            /\ r.eventOpen /\ r.snapshotEvent = snapshot
            /\ r.seqZeroOnly = IsSequenceZeroReset(m)
<1> DEFINE e == Entered(k, m, free)
           snapshot == Snapshotting(e, m)
           changed == Changed(e, m)
           candidate == Candidacy(e, m, snapshot)
           source == IF snapshot /\ m.action \in {"Clear", "Add"} THEN m
                     ELSE k.snapshotSource
           known == k.initialized \/ m.action = "Clear" \/ Initializes(m)
           r == [e EXCEPT !.orders = changed.orders, !.levels = changed.levels,
                          !.candidate = candidate, !.snapshotSource = source,
                          !.initialized = known, !.eventOpen = TRUE,
                          !.snapshotEvent = snapshot]
<1>1. /\ e \in Book /\ e.orders = k.orders /\ e.levels = k.levels
      /\ e.snapshotSource = k.snapshotSource /\ e.initialized = k.initialized
      /\ e.seqZeroOnly = IsSequenceZeroReset(m)
  BY EnteredIs
<1>2. Received(k, m, free) = r
  <2> HIDE DEF e
  <2>1. /\ Received(k, m, free) =
             [e EXCEPT !.orders = changed.orders, !.levels = changed.levels,
                !.candidate = candidate,
                !.snapshotSource =
                   IF snapshot /\ m.action \in {"Clear", "Add"} THEN m ELSE @,
                !.initialized = @ \/ m.action = "Clear" \/ Initializes(m),
                !.eventOpen = TRUE,
                !.snapshotEvent = snapshot]
    BY DEF Received, Changed, Candidacy, Snapshotting, e
  <2> HIDE DEF changed, candidate, snapshot
  <2> QED
    BY <2>1, <1>1 DEF Book
<1> HIDE DEF e
<1>3. changed \in BookStates /\ Matches(changed)
  <2>1. HoldsBook(e) /\ Matches(e)
    BY <1>1, BookTyped DEF Matches
  <2>2. m.action \in BookActions => Accepted(e, m)
    BY <1>1, SameAccepted
  <2> QED
    BY <2>1, <2>2, ChangedKeeps
<1>4. snapshot \in BOOLEAN
  BY <1>1, BookTyped DEF Snapshotting
<1>5. candidate \in Candidate \cup {NoCandidate}
  <2> HIDE DEF snapshot
  <2> QED
    BY <1>1, <1>4, BookTyped, CandidacyType
<1>6. source \in Messages \cup {NoMessage} /\ known \in BOOLEAN
  BY BookTyped
<1> HIDE DEF snapshot, changed, candidate, source, known
<1>7. /\ r \in Book
      /\ r.orders = changed.orders /\ r.levels = changed.levels
      /\ r.candidate = candidate /\ r.snapshotSource = source
      /\ r.initialized = known /\ r.eventOpen /\ r.snapshotEvent = snapshot
      /\ r.seqZeroOnly = e.seqZeroOnly
  BY <1>1, <1>3, <1>4, <1>5, <1>6 DEF Book, BookStates
<1> HIDE DEF r
<1>8. Matches(r)
  BY <1>3, <1>7 DEF Matches
<1> QED
  BY <1>1, <1>2, <1>7, <1>8 DEF e, snapshot, changed, candidate, source, known

\* What the transitions guarantee of the book after a message that belongs to
\* a snapshot: nothing of an ordinary event is left in it.
LEMMA SnapshotReceived ==
  ASSUME NEW free \in BOOLEAN, NEW k, BookOk(k, free), NEW m \in Messages,
         Admits(k, m, free), Received(k, m, free).snapshotEvent
  PROVE  LET r == Received(k, m, free)
         IN /\ SnapshotOk(r, free) /\ ~r.seqZeroOnly
            /\ r.candidate = NoCandidate /\ free
<1> DEFINE e == Entered(k, m, free)
           r == Received(k, m, free)
           began == ContinuesReset(k, m, free)
<1>1. k \in Book /\ Matches(k)
  BY DEF BookOk
<1>2. /\ e.candidate = (IF began THEN NoCandidate ELSE k.candidate)
      /\ e.snapshotEvent = (k.snapshotEvent \/ began)
      /\ e.orders = k.orders /\ e.levels = k.levels
  BY <1>1, EnteredIs
<1>3. /\ r.orders = Changed(e, m).orders /\ r.levels = Changed(e, m).levels
      /\ r.candidate = Candidacy(e, m, Snapshotting(e, m))
      /\ r.snapshotSource = (IF Snapshotting(e, m) /\ m.action \in {"Clear", "Add"}
                             THEN m ELSE k.snapshotSource)
      /\ r.initialized = (k.initialized \/ m.action = "Clear" \/ Initializes(m))
      /\ r.eventOpen /\ r.snapshotEvent = Snapshotting(e, m)
      /\ r.seqZeroOnly = IsSequenceZeroReset(m)
  <2>1. m.action \in BookActions => Accepted(k, m)
    BY DEF Admits
  <2>2. /\ r.orders = Changed(e, m).orders /\ r.levels = Changed(e, m).levels
        /\ r.candidate = Candidacy(e, m, Snapshotting(e, m))
        /\ r.eventOpen /\ r.snapshotEvent = Snapshotting(e, m)
        /\ r.seqZeroOnly = IsSequenceZeroReset(m)
    BY <1>1, <2>1, ReceivedIs
  <2>3. r.snapshotSource = (IF Snapshotting(e, m) /\ m.action \in {"Clear", "Add"}
                            THEN m ELSE k.snapshotSource)
    BY <1>1, <2>1, ReceivedIs
  <2>4. r.initialized = (k.initialized \/ m.action = "Clear" \/ Initializes(m))
    BY <1>1, <2>1, ReceivedIs
  <2> QED
    BY <2>2, <2>3, <2>4
<1> HIDE DEF e, r, began
<1>4. Snapshotting(e, m)
  BY <1>3 DEF r
<1>5. r.candidate = e.candidate
  BY <1>3, <1>4 DEF Candidacy
<1>6. k.snapshotEvent \in BOOLEAN /\ k.initialized \in BOOLEAN /\ k.eventOpen \in BOOLEAN
  BY <1>1, BookTyped
<1>7. CASE k.snapshotEvent
  <2>1. m.action \in {"Add", "None"} /\ ~IsSequenceZeroReset(m)
    BY <1>7, ResetFlags DEF Admits, TransitionOk
  <2>2. /\ k.initialized /\ k.candidate = NoCandidate /\ free
        /\ IsEmptyBook(k) \/ (k.snapshotSource \in Messages /\ k.snapshotSource.action = "Add")
    BY <1>7 DEF BookOk, SnapshotOk
  <2>3. IsEmptyBook(r) \/ (r.snapshotSource \in Messages /\ r.snapshotSource.action = "Add")
    <3>1. CASE m.action = "Add"
      BY <3>1, <1>3, <1>4
    <3>2. CASE m.action = "None"
      <4>1. Changed(e, m) = [orders |-> e.orders, levels |-> e.levels]
        BY <3>2 DEF Changed, BookActions
      <4> QED
        BY <3>2, <4>1, <1>2, <1>3, <2>2 DEF IsEmptyBook
    <3> QED
      BY <2>1, <3>1, <3>2
  <2> QED
    BY <1>2, <1>3, <1>5, <2>1, <2>2, <2>3 DEF SnapshotOk, r
<1>8. CASE ~k.snapshotEvent /\ began
  <2>1. m.action = "Add" /\ IsSnapshot(m) /\ free
    BY <1>8 DEF began, ContinuesReset
  <2>2. ~IsSequenceZeroReset(m) /\ Initializes(m)
    BY <2>1, ResetFlags DEF Initializes, BookActions
  <2>3. r.snapshotSource = m
    BY <2>1, <1>3, <1>4
  <2> QED
    BY <1>2, <1>3, <1>5, <1>8, <2>1, <2>2, <2>3 DEF SnapshotOk, r
<1>9. CASE ~k.snapshotEvent /\ ~began
  <2>1. m.action = "Clear" /\ IsSnapshot(m)
    BY <1>2, <1>4, <1>9 DEF Snapshotting
  <2>2. ~k.eventOpen
    BY <1>9, <2>1 DEF Admits, TransitionOk, began
  <2>3. k.candidate = NoCandidate /\ free
    BY <2>2 DEF BookOk, ClosedOk
  <2>4. ~IsSequenceZeroReset(m)
    BY <2>1, ResetFlags
  <2>5. Changed(e, m) = EmptyBook
    BY <2>1 DEF Changed, BookActions
  <2>6. IsEmptyBook(r)
    BY <2>5, <1>3 DEF IsEmptyBook
  <2> QED
    BY <1>2, <1>3, <1>5, <1>9, <2>1, <2>3, <2>4, <2>6 DEF SnapshotOk, r
<1> QED
  BY <1>6, <1>7, <1>8, <1>9

\* A sequence-zero reset leaves the book as the transition to a snapshot and
\* Finish take it to be, and adds no record.
LEMMA ResetReceived ==
  ASSUME NEW free \in BOOLEAN, NEW k, BookOk(k, free), NEW m \in Messages,
         Admits(k, m, free), Received(k, m, free).seqZeroOnly
  PROVE  LET r == Received(k, m, free)
         IN /\ ResetOk(r, free) /\ ~IsLast(m) /\ ~r.snapshotEvent
            /\ Outputs(r, m) = <<>>
<1> DEFINE e == Entered(k, m, free)
           r == Received(k, m, free)
           began == ContinuesReset(k, m, free)
<1>1. k \in Book /\ Matches(k)
  BY DEF BookOk
<1>2. /\ e.candidate = (IF began THEN NoCandidate ELSE k.candidate)
      /\ e.snapshotEvent = (k.snapshotEvent \/ began)
  BY <1>1, EnteredIs
<1>3. /\ r.orders = Changed(e, m).orders /\ r.levels = Changed(e, m).levels
      /\ r.candidate = Candidacy(e, m, Snapshotting(e, m))
      /\ r.eventOpen /\ r.snapshotEvent = Snapshotting(e, m)
      /\ r.seqZeroOnly = IsSequenceZeroReset(m)
  <2>1. m.action \in BookActions => Accepted(k, m)
    BY DEF Admits
  <2> QED
    BY <1>1, <2>1, ReceivedIs
<1> HIDE DEF e, r
<1>4. IsSequenceZeroReset(m)
  BY <1>3 DEF r
<1>5. m.action = "Clear" /\ ~IsLast(m) /\ ~IsSnapshot(m)
  BY <1>4, ResetFlags
<1>6. ~k.eventOpen
  BY <1>4 DEF Admits
<1>7. k.candidate = NoCandidate /\ free /\ ~k.snapshotEvent
  BY <1>6 DEF BookOk, ClosedOk
<1>8. ~began
  BY <1>5 DEF ContinuesReset
<1>9. ~Snapshotting(e, m) /\ e.candidate = NoCandidate
  BY <1>2, <1>5, <1>7, <1>8 DEF Snapshotting
<1>10. r.candidate = Tracked(NoCandidate, m, 0)
  BY <1>3, <1>5, <1>9 DEF Candidacy, BookActions
<1>11. r.candidate # NoCandidate /\ IsSequenceZeroReset(r.candidate.source)
  BY <1>4, <1>10, TrackedAtTop
<1>12. IsEmptyBook(r)
  <2>1. Changed(e, m) = EmptyBook
    BY <1>5 DEF Changed, BookActions
  <2> QED
    BY <1>3, <2>1 DEF IsEmptyBook
<1>13. Outputs(r, m) = <<>>
  <2>1. Outputs(r, m) = (IF m.action = "Trade" THEN <<MakeOutput(m, r, 0)>> ELSE <<>>)
                          \o (IF IsLast(m) THEN Quote(r) ELSE <<>>)
    BY <1>3, <1>9 DEF Outputs
  <2>2. Outputs(r, m) = <<>> \o <<>>
    BY <2>1, <1>5
  <2> QED
    BY <2>2
<1> QED
  BY <1>3, <1>5, <1>7, <1>9, <1>11, <1>12, <1>13 DEF ResetOk, r

LEMMA ReceivedKeeps ==
  ASSUME NEW free \in BOOLEAN, NEW k, BookOk(k, free), NEW m \in Messages,
         Admits(k, m, free)
  PROVE  LET r == Received(k, m, free)
         IN /\ r \in Book /\ Matches(r) /\ r.eventOpen
            /\ Outputs(r, m) \in Seq(Record)
            /\ BookOk(r, free) \/ (~r.snapshotEvent /\ ~r.seqZeroOnly)
<1> DEFINE r == Received(k, m, free)
<1>1. m.action \in BookActions => Accepted(k, m)
  BY DEF Admits
<1>2. k \in Book /\ Matches(k)
  BY DEF BookOk
<1>3. r \in Book /\ Matches(r) /\ r.eventOpen
  BY <1>1, <1>2, ReceivedIs
<1>4. r.snapshotEvent \in BOOLEAN /\ r.seqZeroOnly \in BOOLEAN
  BY <1>3, BookTyped
<1>5. r.snapshotEvent => SnapshotOk(r, free) /\ ~r.seqZeroOnly
  BY SnapshotReceived
<1>6. r.seqZeroOnly => ResetOk(r, free) /\ ~r.snapshotEvent
  BY ResetReceived
<1> HIDE DEF r
<1>7. Outputs(r, m) \in Seq(Record)
  BY <1>3, <1>5, OutputsType DEF SnapshotOk
<1>8. BookOk(r, free) \/ (~r.snapshotEvent /\ ~r.seqZeroOnly)
  BY <1>3, <1>4, <1>5, <1>6 DEF BookOk, SnapshotOk, ResetOk, ClosedOk
<1> QED
  BY <1>3, <1>7, <1>8 DEF r

-----------------------------------------------------------------------------
(* What each way out of Process leaves of the book.                        *)

LEMMA OpenKeeps ==
  ASSUME NEW free \in BOOLEAN, NEW k, BookOk(k, free), NEW m \in Messages,
         Admits(k, m, free), ~IsLast(m),
         NEW r, r = Received(k, m, free),
         NEW after \in BOOLEAN, Outputs(r, m) = <<>> => after = free
  PROVE  BookOk(r, after)
<1>1. r \in Book /\ Matches(r) /\ r.eventOpen
  BY ReceivedKeeps
<1>2. SnapshotOk(r, after)
  <2> SUFFICES ASSUME r.snapshotEvent PROVE SnapshotOk(r, after)
    BY DEF SnapshotOk
  <2>1. SnapshotOk(r, free) /\ free
    BY SnapshotReceived
  <2>2. Outputs(r, m) = <<>>
    BY DEF Outputs
  <2> QED
    BY <2>1, <2>2 DEF SnapshotOk
<1>3. ResetOk(r, after)
  <2> SUFFICES ASSUME r.seqZeroOnly PROVE ResetOk(r, after)
    BY DEF ResetOk
  <2>1. ResetOk(r, free) /\ Outputs(r, m) = <<>>
    BY ResetReceived
  <2> QED
    BY <2>1 DEF ResetOk
<1> QED
  BY <1>1, <1>2, <1>3 DEF BookOk, ClosedOk

LEMMA SnapshotCloses ==
  ASSUME NEW free \in BOOLEAN, NEW k, BookOk(k, free), NEW m \in Messages,
         Admits(k, m, free), NEW r, r = Received(k, m, free), r.snapshotEvent
  PROVE  BookOk(SnapshotClosed(r), TRUE)
<1> DEFINE c == [r EXCEPT !.snapshotEvent = FALSE, !.eventOpen = FALSE]
<1>1. r \in Book /\ Matches(r) /\ ~r.seqZeroOnly /\ r.candidate = NoCandidate
  BY ReceivedKeeps, SnapshotReceived
<1>2. /\ c \in Book /\ c.orders = r.orders /\ c.levels = r.levels
      /\ c.candidate = r.candidate /\ c.seqZeroOnly = r.seqZeroOnly
      /\ ~c.snapshotEvent /\ ~c.eventOpen
  BY <1>1 DEF Book
<1>3. SnapshotClosed(r) = c
  BY DEF SnapshotClosed
<1> HIDE DEF c
<1> QED
  BY <1>1, <1>2, <1>3 DEF BookOk, SnapshotOk, ResetOk, ClosedOk, Matches

LEMMA EventCloses ==
  ASSUME NEW r \in Book, Matches(r), ~r.snapshotEvent, ~r.seqZeroOnly
  PROVE  BookOk(EventClosed(r), TRUE)
<1> DEFINE c == [r EXCEPT !.candidate = NoCandidate, !.eventOpen = FALSE]
<1>1. /\ c \in Book /\ c.orders = r.orders /\ c.levels = r.levels
      /\ c.candidate = NoCandidate /\ c.seqZeroOnly = r.seqZeroOnly
      /\ c.snapshotEvent = r.snapshotEvent /\ ~c.eventOpen
  BY DEF Book
<1>2. EventClosed(r) = c
  BY DEF EventClosed
<1> HIDE DEF c
<1> QED
  BY <1>1, <1>2 DEF BookOk, SnapshotOk, ResetOk, ClosedOk, Matches

LEMMA ResetDropped ==
  ASSUME NEW r \in Book, Matches(r), ~r.snapshotEvent
  PROVE  BookOk([EventClosed(r) EXCEPT !.seqZeroOnly = FALSE], TRUE)
<1> DEFINE c == [[r EXCEPT !.candidate = NoCandidate, !.eventOpen = FALSE]
                   EXCEPT !.seqZeroOnly = FALSE]
<1>1. /\ c \in Book /\ c.orders = r.orders /\ c.levels = r.levels
      /\ c.candidate = NoCandidate /\ ~c.seqZeroOnly
      /\ c.snapshotEvent = r.snapshotEvent /\ ~c.eventOpen
  BY DEF Book
<1>2. [EventClosed(r) EXCEPT !.seqZeroOnly = FALSE] = c
  BY DEF EventClosed
<1> HIDE DEF c
<1> QED
  BY <1>1, <1>2 DEF BookOk, SnapshotOk, ResetOk, ClosedOk, Matches

-----------------------------------------------------------------------------
(* The queue: what Q does is what the queue's theorems are about.          *)

LEMMA SameQueue ==
  /\ Q!Init => QP!Init
  /\ \A b, recs : Q!Buffer(b, recs) => QP!Buffer(b, recs)
  /\ \A b, recs, mark : Q!BufferAndComplete(b, recs, mark) => QP!BufferAndComplete(b, recs, mark)
  /\ Q!Flush => QP!Flush
<1>1. Q!Init => QP!Init
  BY DEF Q!Init, QP!Init
<1>2. ASSUME NEW b, NEW recs, Q!Buffer(b, recs) PROVE QP!Buffer(b, recs)
  BY <1>2 DEF Q!Buffer, QP!Buffer, Q!Fits, QP!Fits, Q!Pushed, QP!Pushed,
     Q!PointedAt, QP!PointedAt
<1>3. ASSUME NEW b, NEW recs, NEW mark, Q!BufferAndComplete(b, recs, mark)
      PROVE  QP!BufferAndComplete(b, recs, mark)
  BY <1>3 DEF Q!BufferAndComplete, QP!BufferAndComplete, Q!Fits, QP!Fits,
     Q!Pushed, QP!Pushed, Q!PointedAt, QP!PointedAt, Q!Readied, QP!Readied,
     Q!IsReadyPrefix, QP!IsReadyPrefix
<1>4. Q!Flush => QP!Flush
  BY DEF Q!Flush, QP!Flush, Q!IsReadyPrefix, QP!IsReadyPrefix
<1> QED
  BY <1>1, <1>2, <1>3, <1>4

LEMMA QueueTyped ==
  ASSUME QP!QInv
  PROVE  /\ queue \in Seq(QP!Entry) /\ Len(queue) \in Nat
         /\ pending \in [Books -> SUBSET DOMAIN queue]
         /\ emitted \in Seq(QP!Entry)
BY DEF QP!QInv, QP!TypeOk

\* The pointers of the other books go nowhere, nor do a book's own when it
\* adds no record.
LEMMA BufferPending ==
  ASSUME QP!QInv, NEW b \in Books, NEW recs \in Seq(Record), Q!Buffer(b, recs)
  PROVE  /\ \A c \in Books : c # b => pending'[c] = pending[c]
         /\ recs = <<>> => pending'[b] = pending[b]
<1>1. /\ pending' = [pending EXCEPT ![b] = pending[b] \cup (Len(queue) + 1 .. Len(queue) + Len(recs))]
      /\ pending \in [Books -> SUBSET DOMAIN queue] /\ Len(queue) \in Nat
  BY QueueTyped DEF Q!Buffer, Q!PointedAt
<1>2. recs = <<>> => Len(queue) + 1 .. Len(queue) + Len(recs) = {}
  <2>1. \A n \in Nat : n + 1 .. n + 0 = {}
    OBVIOUS
  <2>2. Len(<<>>) = 0
    OBVIOUS
  <2> QED
    BY <1>1, <2>1, <2>2
<1>3. \A c \in Books : c # b => pending'[c] = pending[c]
  BY <1>1
<1>4. pending'[b] = pending[b] \cup (Len(queue) + 1 .. Len(queue) + Len(recs))
  BY <1>1
<1> QED
  BY <1>2, <1>3, <1>4

LEMMA CompletePending ==
  ASSUME NEW b \in Books, NEW recs, NEW mark, Q!BufferAndComplete(b, recs, mark)
  PROVE  /\ \A c \in Books : c # b => (pending'[c] = {} <=> pending[c] = {})
         /\ pending'[b] = {}
<1>1. PICK n \in 0 .. Len(queue) + Len(recs) :
        pending' = [c \in Books |-> IF c = b THEN {} ELSE {i - n : i \in pending[c]}]
  BY DEF Q!BufferAndComplete
<1> QED
  BY <1>1

LEMMA FlushPending ==
  ASSUME Q!Flush
  PROVE  \A c \in Books : pending'[c] = {} <=> pending[c] = {}
<1>1. PICK n \in 0 .. Len(queue) :
        pending' = [c \in Books |-> {i - n : i \in pending[c]}]
  BY DEF Q!Flush
<1> QED
  BY <1>1

\* An unready record in front belongs to a book that points at it.
LEMMA FrontPending ==
  ASSUME QP!QInv, queue # <<>>
  PROVE  /\ ~queue[1].ready /\ queue[1].book \in Books
         /\ pending[queue[1].book] # {}
<1>1. 1 \in DOMAIN queue /\ queue[1] \in QP!Entry /\ ~queue[1].ready
  BY QueueTyped DEF QP!QInv, QP!FrontIsOpen
<1>2. queue[1].book \in Books
  BY <1>1 DEF QP!Entry
<1>3. 1 \in pending[queue[1].book]
  BY <1>1, <1>2 DEF QP!QInv, QP!PendingExact
<1> QED
  BY <1>1, <1>2, <1>3

-----------------------------------------------------------------------------
(* The invariant.                                                          *)

CInv ==
  /\ books \in [Books -> Book] /\ QP!QInv
  /\ finished \in BOOLEAN /\ error \in {"none", "input", "limit"}
  /\ \A b \in Books : BookOk(books[b], Unpublished(b))

LEMMA InitCInv == Init => CInv
<1> SUFFICES ASSUME Init PROVE CInv
  OBVIOUS
<1>1. QP!QInv
  BY SameQueue, QP!InitHasInv, BufferAssumption DEF Init
<1>2. NewBook \in Book /\ NewBook.orders = EmptyBook.orders
      /\ NewBook.levels = EmptyBook.levels
  BY EmptyMatches DEF NewBook, Book, BookStates
<1>3. BookOk(NewBook, TRUE)
  <2>1. Matches(NewBook)
    BY <1>2, EmptyMatches DEF Matches
  <2> QED
    BY <1>2, <2>1 DEF NewBook, BookOk, SnapshotOk, ResetOk, ClosedOk
<1>4. \A b \in Books : books[b] = NewBook /\ (pending[b] = {}) = TRUE
  BY DEF Init, Q!Init
<1>5. books \in [Books -> Book] /\ finished \in BOOLEAN /\ error \in {"none", "input", "limit"}
  BY <1>2 DEF Init
<1> QED
  BY <1>1, <1>3, <1>4, <1>5 DEF CInv, Unpublished

LEMMA OpenStep ==
  ASSUME CInv, NEW m \in Messages, ~IsLast(m), Processes(m), KeepsOpen(m, After(m))
  PROVE  CInv'
<1> DEFINE b == m.book
           r == After(m)
           free == Unpublished(b)
           recs == Outputs(r, m)
<1>1. /\ b \in Books /\ books[b] \in Book /\ BookOk(books[b], free) /\ free \in BOOLEAN
      /\ QP!QInv /\ books \in [Books -> Book]
      /\ Admits(books[b], m, free) /\ r = Received(books[b], m, free)
  BY MessageTyped DEF CInv, Processes, Admitted, After, Unpublished
<1>2. Q!Buffer(b, recs) /\ books' = [books EXCEPT ![b] = r]
      /\ UNCHANGED <<finished, error>>
  BY DEF KeepsOpen, Processes
<1> HIDE DEF b, r, free, recs
<1>3. r \in Book /\ recs \in Seq(Record)
  BY <1>1, ReceivedKeeps DEF recs
<1>4. /\ \A c \in Books : c # b => pending'[c] = pending[c]
      /\ recs = <<>> => pending'[b] = pending[b]
  BY <1>1, <1>2, <1>3, BufferPending
<1>5. QP!QInv'
  BY <1>1, <1>2, <1>3, SameQueue, QP!BufferKeeps, BufferAssumption
<1>6. BookOk(r, pending'[b] = {})
  <2>1. (pending'[b] = {}) \in BOOLEAN /\ (recs = <<>> => (pending'[b] = {}) = free)
    BY <1>4 DEF free, Unpublished
  <2> QED
    BY <1>1, <2>1, OpenKeeps DEF recs
<1>7. \A c \in Books : BookOk(books'[c], pending'[c] = {})
  BY <1>1, <1>2, <1>4, <1>6 DEF CInv, Unpublished
<1>8. books' \in [Books -> Book]
  BY <1>1, <1>2, <1>3
<1> QED
  BY <1>2, <1>5, <1>7, <1>8 DEF CInv, Unpublished

LEMMA CloseStep ==
  ASSUME CInv, NEW m \in Messages, Processes(m), Completes(m, After(m)),
         NEW closed, BookOk(closed, TRUE), books' = [books EXCEPT ![m.book] = closed]
  PROVE  CInv'
<1> DEFINE b == m.book
           r == After(m)
           free == Unpublished(b)
           recs == Outputs(r, m)
<1>1. /\ b \in Books /\ books[b] \in Book /\ BookOk(books[b], free) /\ free \in BOOLEAN
      /\ QP!QInv /\ books \in [Books -> Book]
      /\ Admits(books[b], m, free) /\ r = Received(books[b], m, free)
  BY MessageTyped DEF CInv, Processes, Admitted, After, Unpublished
<1>2. Q!BufferAndComplete(b, recs, recs # <<>>)
      /\ books' = [books EXCEPT ![b] = closed] /\ UNCHANGED <<finished, error>>
  BY DEF Completes, Processes
<1> HIDE DEF b, r, free, recs
<1>3. recs \in Seq(Record) /\ closed \in Book
  BY <1>1, ReceivedKeeps DEF recs, BookOk
<1>4. /\ \A c \in Books : c # b => (pending'[c] = {} <=> pending[c] = {})
      /\ pending'[b] = {}
  BY <1>1, <1>2, CompletePending
<1>5. QP!QInv'
  <2>1. QP!BufferAndComplete(b, recs, recs # <<>>) /\ (recs # <<>>) \in BOOLEAN
    BY <1>2, SameQueue
  <2> QED
    BY <1>1, <1>3, <2>1, QP!CompleteKeeps, BufferAssumption
<1>6. ASSUME NEW c \in Books PROVE BookOk(books'[c], pending'[c] = {})
  <2>1. CASE c = b
    <3>1. books'[c] = closed /\ (pending'[c] = {}) = TRUE
      BY <1>1, <1>2, <1>4, <2>1
    <3> QED
      BY <3>1
  <2>2. CASE c # b
    <3>1. books'[c] = books[c] /\ (pending'[c] = {}) = (pending[c] = {})
      BY <1>1, <1>2, <1>4, <2>2
    <3> QED
      BY <3>1 DEF CInv, Unpublished
  <2> QED
    BY <2>1, <2>2
<1>7. books' \in [Books -> Book]
  BY <1>1, <1>2, <1>3
<1> QED
  BY <1>2, <1>5, <1>6, <1>7 DEF CInv, Unpublished

LEMMA SnapshotBoundaryKeeps ==
  ASSUME CInv, NEW m \in Messages, SnapshotBoundary(m)
  PROVE  CInv'
<1> DEFINE r == After(m)
           free == Unpublished(m.book)
<1>1. /\ BookOk(books[m.book], free) /\ free \in BOOLEAN
      /\ Admits(books[m.book], m, free) /\ r = Received(books[m.book], m, free)
      /\ r.snapshotEvent /\ Processes(m) /\ Completes(m, r)
      /\ books' = [books EXCEPT ![m.book] = SnapshotClosed(r)]
  BY MessageTyped DEF CInv, SnapshotBoundary, Processes, Admitted, After, Unpublished
<1> HIDE DEF r, free
<1>2. BookOk(SnapshotClosed(r), TRUE)
  BY <1>1, SnapshotCloses
<1> QED
  BY <1>1, <1>2, CloseStep DEF r

LEMMA EventBoundaryKeeps ==
  ASSUME CInv, NEW m \in Messages, EventBoundary(m)
  PROVE  CInv'
<1> DEFINE r == After(m)
           free == Unpublished(m.book)
<1>1. /\ BookOk(books[m.book], free) /\ free \in BOOLEAN
      /\ Admits(books[m.book], m, free) /\ r = Received(books[m.book], m, free)
      /\ ~r.snapshotEvent /\ Processes(m) /\ Completes(m, r) /\ IsLast(m)
      /\ books' = [books EXCEPT ![m.book] = EventClosed(r)]
  BY MessageTyped DEF CInv, EventBoundary, Processes, Admitted, After, Unpublished
<1> HIDE DEF r, free
<1>2. r \in Book /\ Matches(r)
  BY <1>1, ReceivedKeeps
<1>3. ~r.seqZeroOnly
  BY <1>1, ResetReceived
<1>4. BookOk(EventClosed(r), TRUE)
  BY <1>1, <1>2, <1>3, EventCloses
<1> QED
  BY <1>1, <1>4, CloseStep DEF r

LEMMA NothingEmitted ==
  ASSUME QP!QInv, emitted' = <<>>, UNCHANGED <<queue, pending>>
  PROVE  QP!QInv'
<1>1. <<>> \in Seq(QP!Entry)
  OBVIOUS
<1> QED
  BY <1>1 DEF QP!QInv, QP!TypeOk, QP!PendingExact, QP!FrontIsOpen

LEMMA ThrowKeeps ==
  ASSUME CInv, NEW kind \in {"input", "limit"}, Throw(kind)
  PROVE  CInv'
<1>1. QP!QInv'
  BY NothingEmitted DEF CInv, Throw
<1> QED
  BY <1>1 DEF CInv, Throw, Unpublished

\* What a book accepts is sound: its levels match its orders.
LEMMA AdmittedIsSound ==
  ASSUME CInv, NEW m \in Messages, Admitted(m)
  PROVE  BookSound(m)
<1>1. m.book \in Books /\ CarriesOrder(m)
  BY MessageTyped
<1>2. HoldsBook(books[m.book]) /\ Matches(books[m.book])
  BY <1>1, BookTyped DEF CInv, BookOk
<1> QED
  BY <1>1, <1>2, OperationKeeps DEF BookSound, Admitted, Admits

LEMMA RejectKeeps ==
  ASSUME CInv, NEW m \in Messages, Reject(m)
  PROVE  CInv'
<1>1. ~Admitted(m)
  BY AdmittedIsSound DEF Reject
<1>2. Throw("input")
  BY <1>1 DEF Reject
<1> QED
  BY <1>2, ThrowKeeps

\* With every book free, nothing is left in the queue.
LEMMA FreeIsDrained ==
  ASSUME QP!QInv, \A b \in Books : pending[b] = {}
  PROVE  queue = <<>>
BY FrontPending

LEMMA FinishKeeps ==
  ASSUME CInv, Finish
  PROVE  CInv' /\ queue = <<>> /\ queue' = <<>>
<1>1. ASSUME NEW b \in Books
      PROVE  /\ BookOk(books'[b], pending'[b] = {}) /\ pending[b] = {}
             /\ books'[b] \in Book
  <2> DEFINE k == books[b]
  <2>1. BookOk(k, Unpublished(b))
    BY DEF CInv
  <2>2. pending'[b] = {} <=> pending[b] = {}
    BY FlushPending DEF Finish
  <2>3. CASE Suppressed(b)
    <3>1. Unpublished(b) /\ k.seqZeroOnly
      BY <2>3 DEF Suppressed
    <3>2. k \in Book /\ Matches(k) /\ ~k.snapshotEvent
      BY <2>1, <3>1 DEF BookOk, SnapshotOk
    <3>3. books'[b] = [EventClosed(k) EXCEPT !.seqZeroOnly = FALSE]
      BY <2>3 DEF Finish
    <3>4. BookOk(books'[b], TRUE)
      BY <3>2, <3>3, ResetDropped
    <3>5. pending[b] = {} /\ (pending'[b] = {}) = TRUE
      BY <2>2, <3>1 DEF Unpublished
    <3> QED
      BY <3>4, <3>5 DEF BookOk
  <2>4. CASE ~Suppressed(b)
    <3>1. ~k.eventOpen /\ books'[b] = k
      BY <2>4 DEF Finish
    <3>2. Unpublished(b)
      BY <2>1, <3>1 DEF BookOk, ClosedOk
    <3>3. pending[b] = {} /\ (pending'[b] = {}) = Unpublished(b)
      BY <2>2, <3>2 DEF Unpublished
    <3> QED
      BY <2>1, <3>1, <3>3 DEF BookOk
  <2> QED
    BY <2>3, <2>4
<1>2. queue = <<>>
  BY <1>1, FreeIsDrained DEF CInv
<1>3. QP!QInv'
  BY SameQueue, QP!FlushKeeps, BufferAssumption DEF CInv, Finish
<1>4. queue' = <<>>
  <2>1. PICK n \in 0 .. Len(queue) : queue' = SubSeq(queue, n + 1, Len(queue))
    BY DEF Finish, Q!Flush
  <2>2. n = 0 /\ Len(queue) = 0
    BY <1>2
  <2> QED
    BY <1>2, <2>1, <2>2
<1>5. finished' \in BOOLEAN /\ error' \in {"none", "input", "limit"}
  BY <1>4 DEF Finish
<1>6. books' \in [Books -> Book]
  <2>1. books' = [b \in Books |-> books'[b]]
    BY DEF Finish
  <2> QED
    BY <1>1, <2>1
<1> QED
  BY <1>1, <1>2, <1>3, <1>4, <1>5, <1>6 DEF CInv, Unpublished

LEMMA StepKeepsCInv == CInv /\ [Next]_vars => CInv'
<1> SUFFICES ASSUME CInv, [Next]_vars PROVE CInv'
  OBVIOUS
<1>1. ASSUME NEW m \in Messages, SnapshotRecord(m) PROVE CInv'
  BY <1>1, OpenStep DEF SnapshotRecord
<1>2. ASSUME NEW m \in Messages, EventRecord(m) PROVE CInv'
  BY <1>2, OpenStep DEF EventRecord
<1>3. ASSUME NEW m \in Messages, SnapshotBoundary(m) PROVE CInv'
  BY <1>3, SnapshotBoundaryKeeps
<1>4. ASSUME NEW m \in Messages, EventBoundary(m) PROVE CInv'
  BY <1>4, EventBoundaryKeeps
<1>5. ASSUME NEW m \in Messages, Reject(m) PROVE CInv'
  BY <1>5, RejectKeeps
<1>6. ASSUME NEW m \in Messages, LimitExceeded(m) PROVE CInv'
  BY <1>6, ThrowKeeps DEF LimitExceeded
<1>7. CASE Finish
  BY <1>7, FinishKeeps
<1>8. CASE FinishIncomplete
  BY <1>8, ThrowKeeps DEF FinishIncomplete
<1>9. CASE UNCHANGED vars
  <2>1. QP!QInv'
    BY <1>9 DEF CInv, vars, QP!QInv, QP!TypeOk, QP!PendingExact, QP!FrontIsOpen
  <2> QED
    BY <1>9, <2>1 DEF CInv, vars, Unpublished
<1> QED
  BY <1>1, <1>2, <1>3, <1>4, <1>5, <1>6, <1>7, <1>8, <1>9 DEF Next, Process

\* The queue is in order, and of each book the levels are the aggregates of its
\* orders and the flags exclude each other, whatever messages arrive.
THEOREM Invariance == Spec => []CInv
BY InitCInv, StepKeepsCInv, PTL DEF Spec

-----------------------------------------------------------------------------
(* What the converter promises.                                            *)

\* Books, queue and flags have their types: no uint32 of a level wraps, and a
\* candidate's depth is one that is shown.
THEOREM TypeCorrect == Spec => []TypeOk
<1>1. CInv => TypeOk
  BY DEF CInv, TypeOk, QP!QInv, QP!TypeOk, Q!TypeOk, QP!Entry, Q!Entry
<1> QED
  BY <1>1, Invariance, PTL

\* A snapshot is opened only between events and keeps all others out, until
\* its F_LAST: it never overwrites or completes what an ordinary event left.
THEOREM SnapshotsAreExclusive == Spec => []SnapshotExclusive
<1>1. CInv => SnapshotExclusive
  BY DEF CInv, BookOk, SnapshotOk, SnapshotExclusive
<1> QED
  BY <1>1, Invariance, PTL

\* sequence_zero_reset_only implies what is checked, and what is not checked,
\* beside it where the reset is dropped.
THEOREM ResetsArePristine == Spec => []ResetPristine
<1>1. CInv => ResetPristine
  BY DEF CInv, BookOk, ResetOk, ResetPristine
<1> QED
  BY <1>1, Invariance, PTL

\* An event boundary leaves no candidate, no pending record and no flag.
THEOREM BoundariesAreClean == Spec => []ClosedIsClean
<1>1. CInv => ClosedIsClean
  BY DEF CInv, BookOk, ClosedOk, ClosedIsClean
<1> QED
  BY <1>1, Invariance, PTL

\* What holds up the queue is a record of an event still open in its book.
THEOREM HeadsAreOpen == Spec => []HeadIsOpen
<1>1. CInv => HeadIsOpen
  <2> SUFFICES ASSUME CInv, queue # <<>>
               PROVE  books[queue[1].book].eventOpen /\ ~queue[1].ready
    BY DEF HeadIsOpen
  <2>1. ~queue[1].ready /\ queue[1].book \in Books /\ pending[queue[1].book] # {}
    BY FrontPending DEF CInv
  <2> QED
    BY <2>1 DEF CInv, BookOk, ClosedOk, Unpublished
<1> QED
  BY <1>1, Invariance, PTL

\* No input makes the converter report an error of its own: levels at odds
\* with the orders, or a record left unready when the input ends.
THEOREM NeverInternal == Spec => []NoInternalError
<1>1. CInv => NoInternalError
  BY DEF CInv, NoInternalError
<1> QED
  BY <1>1, Invariance, PTL

-----------------------------------------------------------------------------
(* Delivery.                                                               *)

LEMMA SameDelivered == QP!FifoStep <=>
  LET after == Q!Delivered(emitted') \o Q!Delivered(queue')
  IN /\ Len(after) >= Len(queue)
     /\ SubSeq(after, 1, Len(queue)) = Q!Delivered(queue)
BY DEF QP!FifoStep, QP!Delivered, Q!Delivered

LEMMA ThrowDelivers ==
  ASSUME CInv, emitted' = <<>>, UNCHANGED <<queue, pending>>
  PROVE  QP!FifoStep
<1>1. queue \in Seq(QP!Entry) /\ DOMAIN queue = 1 .. Len(queue) /\ Len(queue) \in Nat
  BY QueueTyped DEF CInv
<1>2. QP!Delivered(<<>>) = <<>>
  BY DEF QP!Delivered
<1> DEFINE d == QP!Delivered(queue)
<1>3. d \in Seq(QP!Handed) /\ Len(d) = Len(queue)
  BY <1>1, QP!DeliveredIs, BufferAssumption
<1> HIDE DEF d
<1>4. <<>> \o d = d /\ SubSeq(d, 1, Len(d)) = d
  BY <1>3
<1> QED
  BY <1>1, <1>2, <1>3, <1>4 DEF QP!FifoStep, d

LEMMA ProcessDelivers ==
  ASSUME CInv, NEW m \in Messages, Processes(m),
         KeepsOpen(m, After(m)) \/ Completes(m, After(m))
  PROVE  QP!FifoStep
<1> DEFINE b == m.book
           r == After(m)
           free == Unpublished(b)
           recs == Outputs(r, m)
<1>1. /\ b \in Books /\ BookOk(books[b], free) /\ free \in BOOLEAN /\ QP!QInv
      /\ Admits(books[b], m, free) /\ r = Received(books[b], m, free)
  BY MessageTyped DEF CInv, Processes, Admitted, After, Unpublished
<1>2. Q!Buffer(b, recs) \/ Q!BufferAndComplete(b, recs, recs # <<>>)
  BY DEF KeepsOpen, Completes
<1> HIDE DEF b, r, free, recs
<1>3. recs \in Seq(Record)
  BY <1>1, ReceivedKeeps DEF recs
<1>4. CASE Q!Buffer(b, recs)
  BY <1>1, <1>3, <1>4, SameQueue, QP!BufferDelivers, BufferAssumption
<1>5. CASE Q!BufferAndComplete(b, recs, recs # <<>>)
  <2>1. QP!BufferAndComplete(b, recs, recs # <<>>) /\ (recs # <<>>) \in BOOLEAN
    BY <1>5, SameQueue
  <2> QED
    BY <1>1, <1>3, <2>1, QP!CompleteDelivers, BufferAssumption
<1> QED
  BY <1>2, <1>4, <1>5

LEMMA StepDelivers == CInv /\ Next => QP!FifoStep
<1> SUFFICES ASSUME CInv, Next PROVE QP!FifoStep
  OBVIOUS
<1>1. ASSUME NEW m \in Messages, Process(m) PROVE QP!FifoStep
  <2>1. CASE SnapshotRecord(m)
    BY <2>1, ProcessDelivers DEF SnapshotRecord
  <2>2. CASE EventRecord(m)
    BY <2>2, ProcessDelivers DEF EventRecord
  <2>3. CASE SnapshotBoundary(m)
    BY <2>3, ProcessDelivers DEF SnapshotBoundary
  <2>4. CASE EventBoundary(m)
    BY <2>4, ProcessDelivers DEF EventBoundary
  <2>5. CASE Reject(m) \/ LimitExceeded(m)
    BY <2>5, ThrowDelivers DEF Reject, LimitExceeded, Throw
  <2> QED
    BY <1>1, <2>1, <2>2, <2>3, <2>4, <2>5 DEF Process
<1>2. CASE Finish
  BY <1>2, SameQueue, QP!FlushDelivers, BufferAssumption DEF CInv, Finish
<1>3. CASE FinishIncomplete
  BY <1>3, ThrowDelivers DEF FinishIncomplete, Throw
<1> QED
  BY <1>1, <1>2, <1>3 DEF Next

\* The sink gets the records of all books in the order in which Process
\* buffered them, whatever the order in which their events end.
THEOREM DeliveredInOrder == Spec => DeliveryInOrder
<1> DEFINE Step == LET after == Q!Delivered(emitted') \o Q!Delivered(queue')
                   IN /\ Len(after) >= Len(queue)
                      /\ SubSeq(after, 1, Len(queue)) = Q!Delivered(queue)
<1>1. CInv /\ [Next]_vars => [Step]_(Q!vars)
  BY StepDelivers, SameDelivered DEF vars, Q!vars
<1> QED
  BY <1>1, Invariance, PTL DEF Spec, DeliveryInOrder, Q!FifoDelivery

-----------------------------------------------------------------------------
(* The refinement: with books, flags and errors taken away, a converter is *)
(* an OutputQueue.                                                         *)

\* A sequence of at most two records is a batch of the queue.
LEMMA ShortIsBatch ==
  ASSUME NEW recs \in Seq(Record), Len(recs) <= 2
  PROVE  recs \in Q!Batches
<1>0. recs \in [1 .. Len(recs) -> Record]
  BY LenProperties
<1>1. Len(recs) \in Nat /\ Len(recs) <= 2
  OBVIOUS
<1>2. CASE Len(recs) = 0
  <2>1. recs = <<>>
    BY <1>2
  <2> QED
    BY <2>1 DEF Q!Batches
<1>3. CASE Len(recs) = 1
  BY <1>0, <1>3 DEF Q!Batches
<1>4. CASE Len(recs) = 2
  BY <1>0, <1>4 DEF Q!Batches
<1>5. \A n \in Nat : n <= 2 => n = 0 \/ n = 1 \/ n = 2
  OBVIOUS
<1> QED
  BY <1>1, <1>2, <1>3, <1>4, <1>5

LEMMA ShortConcat ==
  ASSUME NEW s \in Seq(Record), NEW t \in Seq(Record), Len(s) <= 1, Len(t) <= 1
  PROVE  s \o t \in Seq(Record) /\ Len(s \o t) <= 2
OBVIOUS

LEMMA ShortQuotes ==
  ASSUME NEW k
  PROVE  Len(Quote(k)) <= 1 /\ Len(SnapshotQuote(k)) <= 1
<1>1. Len(<<>>) = 0 /\ \A r : Len(<<r>>) = 1
  OBVIOUS
<1>2. Len(Quote(k)) <= 1
  BY <1>1 DEF Quote
<1>3. Len(SnapshotQuote(k)) <= 1
  BY <1>1 DEF SnapshotQuote
<1> QED
  BY <1>2, <1>3

\* A message makes at most a trade and a quote.
LEMMA OutputsAreBatches ==
  ASSUME NEW k \in Book, NEW m \in Messages, Outputs(k, m) \in Seq(Record)
  PROVE  Outputs(k, m) \in Q!Batches
<1>1. Len(<<>>) = 0 /\ <<>> \in Seq(Record)
  OBVIOUS
<1>2. CASE k.snapshotEvent
  <2>1. Len(Outputs(k, m)) <= 1
    BY <1>1, <1>2, ShortQuotes DEF Outputs
  <2>2. Len(Outputs(k, m)) <= 2
    BY <2>1
  <2> QED
    BY <2>2, ShortIsBatch
<1>3. CASE ~k.snapshotEvent
  <2> DEFINE trade == IF m.action = "Trade" THEN <<MakeOutput(m, k, 0)>> ELSE <<>>
             quote == IF IsLast(m) THEN Quote(k) ELSE <<>>
  <2>1. 0 \in 0 .. Depth - 1 /\ "None" \in Sides \cup {"None"} /\ k.levels \in LevelMap
    BY DepthAssumption DEF Book
  <2>2. trade \in Seq(Record)
    BY <1>1, <2>1, MakeOutputType, OneRecord
  <2>3. quote \in Seq(Record)
    BY <1>1, QuoteType
  <2>4. Len(trade) <= 1 /\ Len(quote) <= 1
    <3>1. \A r : Len(<<r>>) = 1
      OBVIOUS
    <3> QED
      BY <1>1, <3>1, ShortQuotes
  <2>5. Outputs(k, m) = trade \o quote
    BY <1>3 DEF Outputs
  <2> HIDE DEF trade, quote
  <2> QED
    BY <2>2, <2>3, <2>4, <2>5, ShortConcat, ShortIsBatch
<1> QED
  BY <1>2, <1>3

\* A call that throws delivers nothing: a flush that finds nothing ready.
LEMMA ThrowFlushes ==
  ASSUME CInv, emitted' = <<>>, UNCHANGED <<queue, pending>>
  PROVE  Q!Flush
<1>1. /\ queue \in Seq(QP!Entry) /\ Len(queue) \in Nat
      /\ pending \in [Books -> SUBSET DOMAIN queue]
  BY QueueTyped DEF CInv
<1>2. Q!IsReadyPrefix(queue, 0)
  <2>1. 0 < Len(queue) => ~queue[0 + 1].ready
    BY <1>1, FrontPending DEF CInv
  <2> QED
    BY <2>1 DEF Q!IsReadyPrefix
<1>3. queue' = SubSeq(queue, 0 + 1, Len(queue)) /\ emitted' = SubSeq(queue, 1, 0)
  BY <1>1
<1>4. pending' = [c \in Books |-> {i - 0 : i \in pending[c]}]
  <2>1. ASSUME NEW c \in Books PROVE {i - 0 : i \in pending[c]} = pending[c]
    <3>1. \A i \in pending[c] : i \in Int /\ i - 0 = i
      BY <1>1
    <3> QED
      BY <3>1
  <2> QED
    BY <1>1, <2>1
<1>5. 0 \in 0 .. Len(queue)
  BY <1>1
<1> QED
  BY <1>2, <1>3, <1>4, <1>5 DEF Q!Flush

\* What a message does to the queue is one batch, and at an event boundary
\* the completion that follows it.
LEMMA ProcessIsQueued ==
  ASSUME CInv, NEW m \in Messages, Processes(m),
         KeepsOpen(m, After(m)) \/ Completes(m, After(m))
  PROVE  Q!Next
<1> DEFINE b == m.book
           r == After(m)
           free == Unpublished(b)
           recs == Outputs(r, m)
<1>1. /\ b \in Books /\ BookOk(books[b], free) /\ free \in BOOLEAN
      /\ Admits(books[b], m, free) /\ r = Received(books[b], m, free)
  BY MessageTyped DEF CInv, Processes, Admitted, After, Unpublished
<1>2. Q!Buffer(b, recs) \/ Q!BufferAndComplete(b, recs, recs # <<>>)
  BY DEF KeepsOpen, Completes
<1> HIDE DEF b, r, free, recs
<1>3. recs \in Q!Batches
  BY <1>1, ReceivedKeeps, OutputsAreBatches DEF recs
<1>4. (recs # <<>>) \in BOOLEAN
  OBVIOUS
<1> QED
  BY <1>1, <1>2, <1>3, <1>4 DEF Q!Next

LEMMA StepIsQueued == CInv /\ Next => Q!Next
<1> SUFFICES ASSUME CInv, Next PROVE Q!Next
  OBVIOUS
<1>1. ASSUME NEW m \in Messages, Process(m) PROVE Q!Next
  <2>1. CASE SnapshotRecord(m)
    BY <2>1, ProcessIsQueued DEF SnapshotRecord
  <2>2. CASE EventRecord(m)
    BY <2>2, ProcessIsQueued DEF EventRecord
  <2>3. CASE SnapshotBoundary(m)
    BY <2>3, ProcessIsQueued DEF SnapshotBoundary
  <2>4. CASE EventBoundary(m)
    BY <2>4, ProcessIsQueued DEF EventBoundary
  <2>5. CASE Reject(m) \/ LimitExceeded(m)
    BY <2>5, ThrowFlushes DEF Reject, LimitExceeded, Throw, Q!Next
  <2> QED
    BY <1>1, <2>1, <2>2, <2>3, <2>4, <2>5 DEF Process
<1>2. CASE Finish
  BY <1>2 DEF Finish, Q!Next
<1>3. CASE FinishIncomplete
  BY <1>3, ThrowFlushes DEF FinishIncomplete, Throw, Q!Next
<1> QED
  BY <1>1, <1>2, <1>3 DEF Next

\* Seen from the sink, the converter is an OutputQueue: a call of Process puts
\* in at most a trade and a quote of one book, and a boundary completes that
\* book's event and no other.  A call that throws changes nothing in the queue.
THEOREM ConverterImplementsQueue == Spec => Q!Spec
<1>1. Init => Q!Init
  BY DEF Init
<1>2. CInv /\ [Next]_vars => [Q!Next]_(Q!vars)
  BY StepIsQueued DEF vars, Q!vars
<1> QED
  BY <1>1, <1>2, Invariance, PTL DEF Spec, Q!Spec

LEMMA SameNext == Q!Next => QP!Next
<1> SUFFICES ASSUME Q!Next PROVE QP!Next
  OBVIOUS
<1>1. Q!Batches = QP!Batches
  BY DEF Q!Batches, QP!Batches
<1>2. CASE Q!Flush
  BY <1>2, SameQueue DEF QP!Next
<1>3. ASSUME NEW b \in Books, NEW recs \in Q!Batches, Q!Buffer(b, recs)
      PROVE  QP!Next
  BY <1>1, <1>3, SameQueue DEF QP!Next
<1>4. ASSUME NEW b \in Books, NEW recs \in Q!Batches, NEW mark \in BOOLEAN,
             Q!BufferAndComplete(b, recs, mark)
      PROVE  QP!Next
  <2>1. QP!BufferAndComplete(b, recs, mark)
    BY <1>4, SameQueue
  <2> QED
    BY <1>1, <2>1 DEF QP!Next
<1> QED
  BY <1>2, <1>3, <1>4 DEF Q!Next

\* No call of the converter hands over a record of an event that stays open:
\* what the queue promises of its books holds of the books of the converter.
THEOREM OpenEventsStayQueued == Spec => Q!OpenStaysQueued
<1> DEFINE Step == \A b \in Books : pending'[b] # {} =>
                     \A i \in DOMAIN emitted' : emitted'[i].book = b => queue[i].ready
<1>1. CInv /\ Q!Next => QP!OpenStaysStep
  BY SameNext, QP!StepDelivers, BufferAssumption DEF CInv
<1>2. QP!OpenStaysStep => Step
  BY DEF QP!OpenStaysStep
<1>3. CInv /\ [Next]_vars => [Step]_(Q!vars)
  BY <1>1, <1>2, StepIsQueued DEF vars, Q!vars
<1> QED
  BY <1>3, Invariance, PTL DEF Spec, Q!OpenStaysQueued

=============================================================================
