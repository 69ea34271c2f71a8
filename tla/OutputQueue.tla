----------------------------- MODULE OutputQueue -----------------------------
(***************************************************************************)
(* The output queue of src/converter.cpp: one bounded deque for all books, *)
(* each record waiting until its own event completes, and the ready prefix *)
(* going to the sink.  Each book keeps pointers to the records of its open *)
(* event; a pointer into the deque is a position in queue, which moves     *)
(* down when records in front of it are popped.                            *)
(***************************************************************************)
EXTENDS Integers, Sequences

CONSTANTS Books,        \* the (publisher_id, instrument_id) pairs
          Records,      \* what MakeOutput may build
          MaxBuffered   \* max_buffered_output_records

ASSUME MaxBufferedAssumption == MaxBuffered \in Nat \ {0}

VARIABLES queue,     \* output_queue_
          pending,   \* per book, the positions its pending vector points at
          emitted    \* what the last step handed to the sink, in order

vars == <<queue, pending, emitted>>

\* last is the F_LAST flag of the record, ready the flag of PendingOutput.
Entry == [book : Books, rec : Records, last : BOOLEAN, ready : BOOLEAN]

TypeOk ==
  /\ queue \in Seq(Entry)
  /\ pending \in [Books -> SUBSET DOMAIN queue]
  /\ emitted \in Seq(Entry)

Init == queue = <<>> /\ pending = [b \in Books |-> {}] /\ emitted = <<>>

\* BufferOutput, once for each of recs (at most a trade and a quote).
Fits(recs) == Len(queue) + Len(recs) <= MaxBuffered

\* Mutant: new records go to the front.
PushedInFront(b, recs) ==
  [i \in DOMAIN recs |->
     [book |-> b, rec |-> recs[i], last |-> FALSE, ready |-> FALSE]] \o queue

Pushed(b, recs) ==
  queue \o [i \in DOMAIN recs |->
              [book |-> b, rec |-> recs[i], last |-> FALSE, ready |-> FALSE]]

\* Mutant: each pointer is one record short.
PointedAtShort(b, recs) ==
  pending[b] \cup {i - 1 : i \in Len(queue) + 1 .. Len(queue) + Len(recs)}

PointedAt(b, recs) == pending[b] \cup (Len(queue) + 1 .. Len(queue) + Len(recs))

\* Mutant: only the newest record becomes ready.
ReadiedNewest(q, mine, mark) ==
  [i \in DOMAIN q |->
     IF i \in mine /\ \A j \in mine : j <= i
     THEN [q[i] EXCEPT !.ready = TRUE, !.last = @ \/ mark] ELSE q[i]]

\* CompleteEvent: every pending record becomes ready, and the newest one,
\* pending.back(), is flagged F_LAST if mark.
Readied(q, mine, mark) ==
  [i \in DOMAIN q |->
     IF i \in mine
     THEN [q[i] EXCEPT !.ready = TRUE,
                       !.last = @ \/ (mark /\ \A j \in mine : j <= i)]
     ELSE q[i]]

\* Mutants: a flush stops after one record; a flush looks only at where it stops.
IsReadyPrefixOfOne(q, n) ==
  n = IF q # <<>> THEN IF q[1].ready THEN 1 ELSE 0 ELSE 0
IsUnreadyFrom(q, n) == n < Len(q) => ~q[n + 1].ready

\* FlushReady pops n records: all those in front of the first unready one.
IsReadyPrefix(q, n) ==
  /\ \A i \in 1 .. n : q[i].ready
  /\ n < Len(q) => ~q[n + 1].ready

\* The records, if any, of a message that leaves its event open.
Buffer(b, recs) ==
  /\ Fits(recs)
  /\ queue' = Pushed(b, recs)
  /\ pending' = [pending EXCEPT ![b] = PointedAt(b, recs)]
  /\ emitted' = <<>>

\* Mutant: the pointers of the other books do not move with the records.
BufferAndCompleteStale(b, recs, mark) ==
  /\ Fits(recs)
  /\ \E n \in 0 .. Len(queue) + Len(recs) :
       LET all == Readied(Pushed(b, recs), PointedAt(b, recs), mark)
       IN /\ IsReadyPrefix(all, n)
          /\ queue' = SubSeq(all, n + 1, Len(all))
          /\ emitted' = SubSeq(all, 1, n)
          /\ pending' = [pending EXCEPT ![b] = {}]

\* The records of the message that completes the event, if any, then
\* CompleteEvent and FlushReady.
BufferAndComplete(b, recs, mark) ==
  /\ Fits(recs)
  /\ \E n \in 0 .. Len(queue) + Len(recs) :
       LET all == Readied(Pushed(b, recs), PointedAt(b, recs), mark)
       IN /\ IsReadyPrefix(all, n)
          /\ queue' = SubSeq(all, n + 1, Len(all))
          /\ emitted' = SubSeq(all, 1, n)
          /\ pending' = [c \in Books |->
               IF c = b THEN {} ELSE {i - n : i \in pending[c]}]

\* FlushReady on its own, as Finish calls it.
Flush ==
  \E n \in 0 .. Len(queue) :
    /\ IsReadyPrefix(queue, n)
    /\ queue' = SubSeq(queue, n + 1, Len(queue))
    /\ emitted' = SubSeq(queue, 1, n)
    /\ pending' = [c \in Books |-> {i - n : i \in pending[c]}]

\* At most a trade and the quote that follows it.
Batches == {<<>>} \cup [1 .. 1 -> Records] \cup [1 .. 2 -> Records]

Next ==
  \/ Flush
  \/ \E b \in Books, recs \in Batches :
       \/ Buffer(b, recs)
       \/ \E mark \in BOOLEAN : BufferAndComplete(b, recs, mark)

Spec == Init /\ [][Next]_vars

-----------------------------------------------------------------------------

\* The pending pointers are exactly the unready records, each pointed at by
\* its own book: popping in FlushReady leaves no pointer dangling, no record
\* without an owner to make it ready, and none with two.
PendingExact ==
  \A b \in Books :
    pending[b] = {i \in DOMAIN queue : queue[i].book = b /\ ~queue[i].ready}

\* Nothing that could be delivered waits: between calls, a record at the
\* front of the queue belongs to an event that is still open.
FrontIsOpen == queue # <<>> => ~queue[1].ready

\* With no event open there is nothing left to deliver, so the check in
\* Finish that the queue is empty never fails.
DrainedWhenClosed == (\A b \in Books : pending[b] = {}) => queue = <<>>

Delivered(entries) == [i \in DOMAIN entries |-> [book |-> entries[i].book, rec |-> entries[i].rec]]

\* Whatever the order in which events complete, records reach the sink in the
\* order they were buffered: none is lost, repeated, or overtaken.
FifoDelivery ==
  [][LET after == Delivered(emitted') \o Delivered(queue')
     IN /\ Len(after) >= Len(queue)
        /\ SubSeq(after, 1, Len(queue)) = Delivered(queue)]_vars

\* If every event that is opened is closed at some time, however the events of
\* the books overlap, what is buffered is delivered: the queue never comes to
\* rest with a record in it.  No fairness is needed, for FlushReady is part of
\* the call that closes the event.
ClosedEventsDeliver ==
  (\A b \in Books : []<>(pending[b] = {})) => [](queue # <<>> => <>(emitted # <<>>))

\* A step delivers only records whose event is complete: whatever a book that
\* does not complete its event had pending stays in the queue.
OpenStaysQueued ==
  [][\A b \in Books : pending'[b] # {} =>
       \A i \in DOMAIN emitted' : emitted'[i].book = b => queue[i].ready]_vars
=============================================================================
