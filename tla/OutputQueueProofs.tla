-------------------------- MODULE OutputQueueProofs --------------------------
(***************************************************************************)
(* That OutputQueue keeps its pointers exact and its records in order, for *)
(* any books, records and bound.  A step appends records, marks some ready *)
(* and drops a ready prefix; each of the three is a lemma about sequences. *)
(***************************************************************************)
EXTENDS OutputQueue, SequenceTheorems, TLAPS

Unready(q, b) == {i \in DOMAIN q : q[i].book = b /\ ~q[i].ready}

QInv == TypeOk /\ PendingExact /\ FrontIsOpen

New(b, recs) ==
  [i \in DOMAIN recs |->
     [book |-> b, rec |-> recs[i], last |-> FALSE, ready |-> FALSE]]

LEMMA NewType ==
  ASSUME NEW b \in Books, NEW recs \in Seq(Records)
  PROVE  /\ New(b, recs) \in Seq(Entry) /\ Len(New(b, recs)) = Len(recs)
         /\ \A i \in 1 .. Len(recs) :
              New(b, recs)[i].book = b /\ ~New(b, recs)[i].ready
<1> DEFINE f == New(b, recs)
<1>1. DOMAIN recs = 1 .. Len(recs) /\ Len(recs) \in Nat
  OBVIOUS
<1>2. f \in [1 .. Len(recs) -> Entry]
  BY <1>1 DEF New, Entry
<1>3. f \in Seq(Entry) /\ Len(f) = Len(recs)
  BY <1>1, <1>2
<1> QED
  BY <1>1, <1>3 DEF New

LEMMA BatchesAreSequences == Batches \subseteq Seq(Records)
<1>1. \A n \in Nat : [1 .. n -> Records] \subseteq Seq(Records)
  OBVIOUS
<1>2. [1 .. 1 -> Records] \subseteq Seq(Records) /\ [1 .. 2 -> Records] \subseteq Seq(Records)
  BY <1>1
<1>3. <<>> \in Seq(Records)
  OBVIOUS
<1> QED
  BY <1>2, <1>3 DEF Batches

LEMMA ConcatSeq ==
  ASSUME NEW s \in Seq(Entry), NEW t \in Seq(Entry)
  PROVE  /\ s \o t \in Seq(Entry) /\ Len(s \o t) = Len(s) + Len(t)
         /\ \A i \in 1 .. Len(s) + Len(t) :
              (s \o t)[i] = IF i <= Len(s) THEN s[i] ELSE t[i - Len(s)]
OBVIOUS

\* Appending: the positions already pointed at do not move.
LEMMA PushedIs ==
  ASSUME QInv, NEW b \in Books, NEW recs \in Seq(Records)
  PROVE  /\ Pushed(b, recs) \in Seq(Entry)
         /\ Len(Pushed(b, recs)) = Len(queue) + Len(recs)
         /\ \A i \in 1 .. Len(queue) : Pushed(b, recs)[i] = queue[i]
         /\ \A i \in Len(queue) + 1 .. Len(queue) + Len(recs) :
              Pushed(b, recs)[i].book = b /\ ~Pushed(b, recs)[i].ready
<1>1. queue \in Seq(Entry)
  BY DEF QInv, TypeOk
<1>2. Pushed(b, recs) = queue \o New(b, recs)
  BY DEF Pushed, New
<1> DEFINE new == New(b, recs)
<1>3. /\ new \in Seq(Entry) /\ Len(new) = Len(recs)
      /\ \A i \in 1 .. Len(recs) : new[i].book = b /\ ~new[i].ready
  BY NewType
<1> HIDE DEF new
<1>4. /\ queue \o new \in Seq(Entry)
      /\ Len(queue \o new) = Len(queue) + Len(new)
      /\ \A i \in 1 .. Len(queue) + Len(new) :
           (queue \o new)[i] = IF i <= Len(queue) THEN queue[i] ELSE new[i - Len(queue)]
  BY <1>1, <1>3, ConcatSeq
<1>5. Len(queue) \in Nat /\ Len(recs) \in Nat
  BY <1>1
<1>6. Pushed(b, recs) = queue \o new
  BY <1>2 DEF new
<1>7. \A i \in 1 .. Len(queue) : Pushed(b, recs)[i] = queue[i]
  BY <1>3, <1>4, <1>5, <1>6
<1>8. \A i \in Len(queue) + 1 .. Len(queue) + Len(recs) :
        Pushed(b, recs)[i].book = b /\ ~Pushed(b, recs)[i].ready
  BY <1>3, <1>4, <1>5, <1>6
<1> QED
  BY <1>3, <1>4, <1>6, <1>7, <1>8

LEMMA PushedPoints ==
  ASSUME QInv, NEW b \in Books, NEW recs \in Seq(Records), NEW c \in Books
  PROVE  Unready(Pushed(b, recs), c) = IF c = b THEN PointedAt(b, recs) ELSE pending[c]
<1> DEFINE q == Pushed(b, recs)
<1>1. queue \in Seq(Entry) /\ pending[c] = Unready(queue, c)
  BY DEF QInv, TypeOk, PendingExact, Unready
<1>2. /\ q \in Seq(Entry) /\ Len(q) = Len(queue) + Len(recs)
      /\ \A i \in 1 .. Len(queue) : q[i] = queue[i]
      /\ \A i \in Len(queue) + 1 .. Len(queue) + Len(recs) : q[i].book = b /\ ~q[i].ready
  BY PushedIs
<1> HIDE DEF q
<1>3. DOMAIN q = DOMAIN queue \cup (Len(queue) + 1 .. Len(queue) + Len(recs))
  BY <1>1, <1>2
<1>4. Len(queue) \in Nat /\ Len(recs) \in Nat /\ DOMAIN queue = 1 .. Len(queue)
  BY <1>1
<1> DEFINE added == Len(queue) + 1 .. Len(queue) + Len(recs)
<1>5. \A i \in added : (q[i].book = c /\ ~q[i].ready) <=> c = b
  BY <1>2
<1>6. \A i \in DOMAIN queue :
        (q[i].book = c /\ ~q[i].ready) <=> (queue[i].book = c /\ ~queue[i].ready)
  BY <1>2, <1>4
<1> HIDE DEF added
<1>7. DOMAIN q = DOMAIN queue \cup added
  BY <1>3 DEF added
<1>8. Unready(q, c) = Unready(queue, c) \cup {i \in added : c = b}
  BY <1>5, <1>6, <1>7 DEF Unready
<1>9. CASE c = b
  BY <1>1, <1>8, <1>9 DEF PointedAt, added, q
<1>10. CASE c # b
  BY <1>1, <1>8, <1>10 DEF q
<1> QED
  BY <1>9, <1>10

\* Marking ready: only the marked records change, and only in their flags.
LEMMA ReadiedIs ==
  ASSUME NEW q \in Seq(Entry), NEW mine \in SUBSET DOMAIN q, NEW mark \in BOOLEAN
  PROVE  /\ Readied(q, mine, mark) \in Seq(Entry)
         /\ Len(Readied(q, mine, mark)) = Len(q)
         /\ \A i \in 1 .. Len(q) :
              /\ Readied(q, mine, mark)[i].book = q[i].book
              /\ Readied(q, mine, mark)[i].rec = q[i].rec
              /\ Readied(q, mine, mark)[i].ready = (q[i].ready \/ i \in mine)
<1> DEFINE r == Readied(q, mine, mark)
<1>1. DOMAIN q = 1 .. Len(q) /\ Len(q) \in Nat
  OBVIOUS
<1>2. ASSUME NEW i \in 1 .. Len(q)
      PROVE  /\ r[i] \in Entry /\ r[i].book = q[i].book /\ r[i].rec = q[i].rec
             /\ r[i].ready = (q[i].ready \/ i \in mine)
  <2>1. q[i] \in Entry
    BY <1>1
  <2>2. CASE i \in mine
    <3> DEFINE flag == q[i].last \/ (mark /\ \A j \in mine : j <= i)
    <3>1. r[i] = [q[i] EXCEPT !.ready = TRUE, !.last = flag]
      BY <1>1, <2>2 DEF Readied
    <3>2. flag \in BOOLEAN
      OBVIOUS
    <3> HIDE DEF flag
    <3> QED
      BY <2>1, <2>2, <3>1, <3>2 DEF Entry
  <2>3. CASE i \notin mine
    BY <1>1, <2>1, <2>3 DEF Readied, Entry
  <2> QED
    BY <2>2, <2>3
<1>3. r \in [1 .. Len(q) -> Entry]
  <2>1. r = [i \in 1 .. Len(q) |-> r[i]]
    BY <1>1 DEF Readied
  <2> QED
    BY <1>2, <2>1
<1>4. r \in Seq(Entry) /\ Len(r) = Len(q)
  BY <1>1, <1>3
<1> QED
  BY <1>2, <1>4

\* Popping a ready prefix: every unready record keeps its pointer.
LEMMA PoppedIs ==
  ASSUME NEW q \in Seq(Entry), NEW n \in 0 .. Len(q), IsReadyPrefix(q, n)
  PROVE  LET r == SubSeq(q, n + 1, Len(q))
             e == SubSeq(q, 1, n)
         IN /\ r \in Seq(Entry) /\ Len(r) = Len(q) - n
            /\ e \in Seq(Entry) /\ Len(e) = n
            /\ \A i \in 1 .. Len(r) : r[i] = q[n + i]
            /\ \A i \in 1 .. n : e[i] = q[i]
            /\ r # <<>> => ~r[1].ready
            /\ \A c : Unready(r, c) = {i - n : i \in Unready(q, c)}
<1> DEFINE r == SubSeq(q, n + 1, Len(q))
           e == SubSeq(q, 1, n)
<1>1. /\ r \in Seq(Entry) /\ Len(r) = Len(q) - n
      /\ \A i \in 1 .. Len(r) : r[i] = q[n + i]
  OBVIOUS
<1>2. e \in Seq(Entry) /\ Len(e) = n /\ \A i \in 1 .. n : e[i] = q[i]
  OBVIOUS
<1> HIDE DEF r, e
<1>3. r # <<>> => ~r[1].ready
  BY <1>1 DEF IsReadyPrefix
<1>4. ASSUME NEW c PROVE Unready(r, c) = {i - n : i \in Unready(q, c)}
  <2>1. DOMAIN r = 1 .. Len(q) - n /\ DOMAIN q = 1 .. Len(q)
    BY <1>1
  <2>2. \A i \in Unready(q, c) : i - n \in Unready(r, c)
    BY <1>1, <2>1 DEF Unready, IsReadyPrefix
  <2>3. \A i \in Unready(r, c) : n + i \in Unready(q, c) /\ i = (n + i) - n
    BY <1>1, <2>1 DEF Unready
  <2> QED
    BY <2>2, <2>3
<1> QED
  BY <1>1, <1>2, <1>3, <1>4 DEF r, e
-----------------------------------------------------------------------------
(* The steps.                                                              *)

\* What a completing step leaves, all being the queue with its records
\* appended and marked.
LEMMA CompletedIs ==
  ASSUME QInv, NEW b \in Books, NEW recs \in Seq(Records), NEW mark \in BOOLEAN,
         NEW all, all = Readied(Pushed(b, recs), PointedAt(b, recs), mark)
  PROVE  /\ all \in Seq(Entry) /\ Len(all) = Len(queue) + Len(recs)
         /\ \A i \in 1 .. Len(queue) :
              /\ all[i].book = queue[i].book /\ all[i].rec = queue[i].rec
              /\ queue[i].book # b => all[i].ready = queue[i].ready
         /\ \A i \in Len(queue) + 1 .. Len(all) : all[i].book = b
         /\ \A c \in Books : Unready(all, c) = IF c = b THEN {} ELSE pending[c]
<1> DEFINE q == Pushed(b, recs)
           mine == PointedAt(b, recs)
<1>1. /\ q \in Seq(Entry) /\ Len(q) = Len(queue) + Len(recs)
      /\ \A i \in 1 .. Len(queue) : q[i] = queue[i]
      /\ \A i \in Len(queue) + 1 .. Len(queue) + Len(recs) : q[i].book = b
  BY PushedIs
<1>2. mine = Unready(q, b) /\ \A c \in Books : c # b => Unready(q, c) = pending[c]
  BY PushedPoints
<1> HIDE DEF q, mine
<1>3. mine \in SUBSET DOMAIN q
  BY <1>2 DEF Unready
<1>4. /\ all \in Seq(Entry) /\ Len(all) = Len(q)
      /\ \A i \in 1 .. Len(q) :
           /\ all[i].book = q[i].book /\ all[i].rec = q[i].rec
           /\ all[i].ready = (q[i].ready \/ i \in mine)
  BY <1>1, <1>3, ReadiedIs DEF q, mine
<1>5. Len(queue) \in Nat /\ Len(recs) \in Nat /\ Len(q) = Len(queue) + Len(recs)
  BY <1>1 DEF QInv, TypeOk
<1>6. \A i \in 1 .. Len(queue) :
        /\ all[i].book = queue[i].book /\ all[i].rec = queue[i].rec
        /\ queue[i].book # b => all[i].ready = queue[i].ready
  <2> SUFFICES ASSUME NEW i \in 1 .. Len(queue)
               PROVE  /\ all[i].book = queue[i].book /\ all[i].rec = queue[i].rec
                      /\ queue[i].book # b => all[i].ready = queue[i].ready
    OBVIOUS
  <2>1. i \in 1 .. Len(q) /\ q[i] = queue[i]
    BY <1>1, <1>5
  <2>2. i \in mine => queue[i].book = b
    BY <1>2, <2>1 DEF Unready
  <2>3. queue[i] \in Entry
    BY DEF QInv, TypeOk
  <2>4. queue[i].ready \in BOOLEAN
    BY <2>3 DEF Entry
  <2> QED
    BY <1>4, <2>1, <2>2, <2>4
<1>7. \A i \in Len(queue) + 1 .. Len(all) : all[i].book = b
  BY <1>1, <1>4, <1>5
<1>8. ASSUME NEW c \in Books
      PROVE  Unready(all, c) = IF c = b THEN {} ELSE pending[c]
  <2>1. DOMAIN all = DOMAIN q /\ DOMAIN q = 1 .. Len(q)
    BY <1>1, <1>4
  <2>2. Unready(all, c) = Unready(q, c) \ mine
    BY <1>4, <2>1 DEF Unready
  <2>3. c # b => Unready(q, c) \cap mine = {}
    BY <1>2 DEF Unready
  <2> QED
    BY <1>2, <2>2, <2>3
<1> QED
  BY <1>4, <1>5, <1>6, <1>7, <1>8

LEMMA InvFromUnready ==
  ASSUME NEW q \in Seq(Entry), NEW p, NEW e \in Seq(Entry),
         p = [c \in Books |-> Unready(q, c)], q # <<>> => ~q[1].ready,
         queue' = q, pending' = p, emitted' = e
  PROVE  QInv'
<1>1. TypeOk'
  BY DEF TypeOk, Unready
<1>2. PendingExact'
  BY DEF PendingExact, Unready
<1>3. FrontIsOpen'
  BY DEF FrontIsOpen
<1> QED
  BY <1>1, <1>2, <1>3 DEF QInv

LEMMA BufferKeeps ==
  ASSUME QInv, NEW b \in Books, NEW recs \in Seq(Records), Buffer(b, recs)
  PROVE  QInv'
<1> DEFINE q == Pushed(b, recs)
<1>1. /\ q \in Seq(Entry) /\ Len(q) = Len(queue) + Len(recs)
      /\ \A i \in 1 .. Len(queue) : q[i] = queue[i]
      /\ \A i \in Len(queue) + 1 .. Len(queue) + Len(recs) : ~q[i].ready
  BY PushedIs
<1>2. \A c \in Books : Unready(q, c) = IF c = b THEN PointedAt(b, recs) ELSE pending[c]
  BY PushedPoints
<1>3. queue' = q /\ emitted' = <<>>
      /\ pending' = [pending EXCEPT ![b] = PointedAt(b, recs)]
  BY DEF Buffer
<1> HIDE DEF q
<1>4. pending' = [c \in Books |-> Unready(q, c)]
  BY <1>2, <1>3 DEF QInv, TypeOk
<1>5. q # <<>> => ~q[1].ready
  <2>1. queue \in Seq(Entry) /\ (queue # <<>> => ~queue[1].ready)
    BY DEF QInv, TypeOk, FrontIsOpen
  <2>2. CASE queue = <<>>
    BY <1>1, <2>2
  <2>3. CASE queue # <<>>
    BY <1>1, <2>1, <2>3
  <2> QED
    BY <2>2, <2>3
<1>6. <<>> \in Seq(Entry)
  OBVIOUS
<1> QED
  BY <1>1, <1>3, <1>4, <1>5, <1>6, InvFromUnready

LEMMA CompleteKeeps ==
  ASSUME QInv, NEW b \in Books, NEW recs \in Seq(Records), NEW mark \in BOOLEAN,
         BufferAndComplete(b, recs, mark)
  PROVE  QInv'
<1> DEFINE all == Readied(Pushed(b, recs), PointedAt(b, recs), mark)
<1>1. PICK n \in 0 .. Len(queue) + Len(recs) :
        /\ IsReadyPrefix(all, n)
        /\ queue' = SubSeq(all, n + 1, Len(all))
        /\ emitted' = SubSeq(all, 1, n)
        /\ pending' = [c \in Books |-> IF c = b THEN {} ELSE {i - n : i \in pending[c]}]
  BY DEF BufferAndComplete
<1>2. /\ all \in Seq(Entry) /\ Len(all) = Len(queue) + Len(recs)
      /\ \A c \in Books : Unready(all, c) = IF c = b THEN {} ELSE pending[c]
  BY CompletedIs
<1> HIDE DEF all
<1>3. n \in 0 .. Len(all)
  BY <1>2
<1>4. /\ queue' \in Seq(Entry) /\ emitted' \in Seq(Entry)
      /\ queue' # <<>> => ~queue'[1].ready
      /\ \A c : Unready(queue', c) = {i - n : i \in Unready(all, c)}
  BY <1>1, <1>2, <1>3, PoppedIs
<1>5. pending' = [c \in Books |-> Unready(queue', c)]
  BY <1>1, <1>2, <1>4
<1> QED
  BY <1>4, <1>5, InvFromUnready

LEMMA FlushKeeps ==
  ASSUME QInv, Flush
  PROVE  QInv'
<1>1. PICK n \in 0 .. Len(queue) :
        /\ IsReadyPrefix(queue, n)
        /\ queue' = SubSeq(queue, n + 1, Len(queue))
        /\ emitted' = SubSeq(queue, 1, n)
        /\ pending' = [c \in Books |-> {i - n : i \in pending[c]}]
  BY DEF Flush
<1>2. queue \in Seq(Entry) /\ \A c \in Books : Unready(queue, c) = pending[c]
  BY DEF QInv, TypeOk, PendingExact, Unready
<1>3. /\ queue' \in Seq(Entry) /\ emitted' \in Seq(Entry)
      /\ queue' # <<>> => ~queue'[1].ready
      /\ \A c : Unready(queue', c) = {i - n : i \in Unready(queue, c)}
  BY <1>1, <1>2, PoppedIs
<1>4. pending' = [c \in Books |-> Unready(queue', c)]
  BY <1>1, <1>2, <1>3
<1> QED
  BY <1>3, <1>4, InvFromUnready
LEMMA StepKeepsInv == QInv /\ [Next]_vars => QInv'
<1> SUFFICES ASSUME QInv, [Next]_vars PROVE QInv'
  OBVIOUS
<1>1. CASE Flush
  BY <1>1, FlushKeeps
<1>2. ASSUME NEW b \in Books, NEW recs \in Batches, Buffer(b, recs) PROVE QInv'
  BY <1>2, BatchesAreSequences, BufferKeeps
<1>3. ASSUME NEW b \in Books, NEW recs \in Batches, NEW mark \in BOOLEAN,
             BufferAndComplete(b, recs, mark)
      PROVE  QInv'
  BY <1>3, BatchesAreSequences, CompleteKeeps
<1>4. CASE UNCHANGED vars
  BY <1>4 DEF vars, QInv, TypeOk, PendingExact, FrontIsOpen
<1> QED
  BY <1>1, <1>2, <1>3, <1>4 DEF Next

LEMMA InitHasInv == Init => QInv
<1> SUFFICES ASSUME Init PROVE QInv
  OBVIOUS
<1>1. queue \in Seq(Entry) /\ emitted \in Seq(Entry) /\ DOMAIN queue = {}
  BY DEF Init
<1> QED
  BY <1>1 DEF Init, QInv, TypeOk, PendingExact, FrontIsOpen

\* The pointers are exact and the front record is open, after any calls.
THEOREM Invariance == Spec => []QInv
BY InitHasInv, StepKeepsInv, PTL DEF Spec

\* The queue and what is delivered are entries, and each book's pointers stay
\* within the queue: none is left behind by a record that has been popped.
THEOREM TypeCorrect == Spec => []TypeOk
BY Invariance, PTL DEF QInv

\* FlushReady leaves each book's pending pointers pointing at exactly the
\* records its event still has to make ready.
THEOREM PointersExact == Spec => []PendingExact
BY Invariance, PTL DEF QInv

\* No record at the front of the queue is ready: what can go has gone.
THEOREM NothingDeliverableWaits == Spec => []FrontIsOpen
BY Invariance, PTL DEF QInv

\* Once no event is open the queue is empty, so "internal output queue
\* contains an unready event" is never thrown.
THEOREM QueueDrains == Spec => []DrainedWhenClosed
<1>1. QInv => DrainedWhenClosed
  <2> SUFFICES ASSUME QInv, \A b \in Books : pending[b] = {}, queue # <<>>
               PROVE  FALSE
    BY DEF DrainedWhenClosed
  <2>1. 1 \in DOMAIN queue /\ queue[1] \in Entry /\ ~queue[1].ready
    BY DEF QInv, TypeOk, FrontIsOpen
  <2>2. queue[1].book \in Books
    BY <2>1 DEF Entry
  <2>3. 1 \in pending[queue[1].book]
    BY <2>1, <2>2 DEF QInv, PendingExact
  <2> QED
    BY <2>2, <2>3
<1> QED
  BY <1>1, Invariance, PTL

-----------------------------------------------------------------------------
(* What a step delivers.                                                   *)

Handed == [book : Books, rec : Records]

LEMMA DeliveredIs ==
  ASSUME NEW q \in Seq(Entry)
  PROVE  /\ Delivered(q) \in Seq(Handed)
         /\ Len(Delivered(q)) = Len(q)
         /\ \A i \in 1 .. Len(q) : Delivered(q)[i] = [book |-> q[i].book, rec |-> q[i].rec]
<1>1. DOMAIN q = 1 .. Len(q) /\ Len(q) \in Nat
  OBVIOUS
<1>2. \A i \in 1 .. Len(q) : [book |-> q[i].book, rec |-> q[i].rec] \in Handed
  <2>1. \A i \in 1 .. Len(q) : q[i] \in Entry
    OBVIOUS
  <2> QED
    BY <2>1 DEF Entry, Handed
<1>3. Delivered(q) \in [1 .. Len(q) -> Handed]
  BY <1>1, <1>2 DEF Delivered
<1> QED
  BY <1>1, <1>3 DEF Delivered

LEMMA ConcatHanded ==
  ASSUME NEW s \in Seq(Handed), NEW t \in Seq(Handed)
  PROVE  /\ s \o t \in Seq(Handed) /\ Len(s \o t) = Len(s) + Len(t)
         /\ \A i \in 1 .. Len(s) + Len(t) :
              (s \o t)[i] = IF i <= Len(s) THEN s[i] ELSE t[i - Len(s)]
OBVIOUS

\* A prefix of one sequence that agrees with another, element by element.
LEMMA PrefixIs ==
  ASSUME NEW s \in Seq(Handed), NEW t \in Seq(Handed), Len(t) <= Len(s),
         \A i \in 1 .. Len(t) : s[i] = t[i]
  PROVE  SubSeq(s, 1, Len(t)) = t
<1> DEFINE p == SubSeq(s, 1, Len(t))
<1>1. p \in Seq(Handed) /\ Len(p) = Len(t) /\ \A i \in 1 .. Len(t) : p[i] = s[i]
  OBVIOUS
<1> HIDE DEF p
<1>2. \A i \in 1 .. Len(p) : p[i] = t[i]
  BY <1>1
<1>3. p = t
  BY <1>1, <1>2, SeqEqual
<1> QED
  BY <1>3 DEF p

\* If a step turns the queue into all, and all into what it delivers and what
\* remains, then the records of the queue are still the first ones.
LEMMA InOrder ==
  ASSUME QInv, NEW all \in Seq(Entry), Len(all) >= Len(queue),
         \A i \in 1 .. Len(queue) : all[i].book = queue[i].book /\ all[i].rec = queue[i].rec,
         NEW e \in Seq(Entry), NEW r \in Seq(Entry), Len(e) + Len(r) = Len(all),
         \A i \in 1 .. Len(e) : e[i] = all[i],
         \A i \in 1 .. Len(r) : r[i] = all[Len(e) + i]
  PROVE  LET after == Delivered(e) \o Delivered(r)
         IN /\ Len(after) >= Len(queue)
            /\ SubSeq(after, 1, Len(queue)) = Delivered(queue)
<1> DEFINE de == Delivered(e)
           dr == Delivered(r)
           dq == Delivered(queue)
<1>0. queue \in Seq(Entry)
  BY DEF QInv, TypeOk
<1>1. /\ de \in Seq(Handed) /\ Len(de) = Len(e)
      /\ \A i \in 1 .. Len(e) : de[i] = [book |-> e[i].book, rec |-> e[i].rec]
  BY DeliveredIs
<1>2. /\ dr \in Seq(Handed) /\ Len(dr) = Len(r)
      /\ \A i \in 1 .. Len(r) : dr[i] = [book |-> r[i].book, rec |-> r[i].rec]
  BY DeliveredIs
<1>3. /\ dq \in Seq(Handed) /\ Len(dq) = Len(queue)
      /\ \A i \in 1 .. Len(queue) : dq[i] = [book |-> queue[i].book, rec |-> queue[i].rec]
  BY <1>0, DeliveredIs
<1>4. Len(e) \in Nat /\ Len(r) \in Nat /\ Len(queue) \in Nat /\ Len(all) \in Nat
  BY <1>0
<1> HIDE DEF de, dr, dq
<1> DEFINE d == de \o dr
<1>5. /\ d \in Seq(Handed) /\ Len(d) = Len(e) + Len(r)
      /\ \A i \in 1 .. Len(e) + Len(r) :
           d[i] = IF i <= Len(e) THEN de[i] ELSE dr[i - Len(e)]
  <2>1. de \in Seq(Handed) /\ dr \in Seq(Handed) /\ Len(de) = Len(e) /\ Len(dr) = Len(r)
    BY <1>1, <1>2
  <2>2. /\ d \in Seq(Handed) /\ Len(d) = Len(de) + Len(dr)
        /\ \A i \in 1 .. Len(de) + Len(dr) :
             d[i] = IF i <= Len(de) THEN de[i] ELSE dr[i - Len(de)]
    BY <2>1, ConcatHanded
  <2> QED
    BY <2>1, <2>2
<1> HIDE DEF d
<1>6. ASSUME NEW i \in 1 .. Len(queue) PROVE d[i] = dq[i]
  <2>1. i \in Int /\ 1 <= i /\ i <= Len(queue) /\ i <= Len(e) + Len(r)
    BY <1>4
  <2>2. dq[i] = [book |-> all[i].book, rec |-> all[i].rec]
    BY <1>3
  <2>3. CASE i <= Len(e)
    <3>1. i \in 1 .. Len(e) /\ d[i] = de[i]
      BY <1>4, <1>5, <2>1, <2>3
    <3>2. de[i] = [book |-> e[i].book, rec |-> e[i].rec] /\ e[i] = all[i]
      BY <1>1, <3>1
    <3> QED
      BY <2>2, <3>1, <3>2
  <2>4. CASE ~(i <= Len(e))
    <3> DEFINE j == i - Len(e)
    <3>1. j \in 1 .. Len(r) /\ Len(e) + j = i /\ d[i] = dr[j]
      BY <1>4, <1>5, <2>1, <2>4
    <3> HIDE DEF j
    <3>2. dr[j] = [book |-> r[j].book, rec |-> r[j].rec] /\ r[j] = all[Len(e) + j]
      BY <1>2, <3>1
    <3> QED
      BY <2>2, <3>1, <3>2
  <2> QED
    BY <2>3, <2>4
<1>7. SubSeq(d, 1, Len(dq)) = dq
  BY <1>3, <1>4, <1>5, <1>6, PrefixIs
<1>8. Len(d) >= Len(queue)
  BY <1>4, <1>5
<1> QED
  BY <1>3, <1>7, <1>8 DEF de, dr, dq, d

FifoStep ==
  LET after == Delivered(emitted') \o Delivered(queue')
  IN /\ Len(after) >= Len(queue)
     /\ SubSeq(after, 1, Len(queue)) = Delivered(queue)

OpenStaysStep ==
  \A b \in Books : pending'[b] # {} =>
    \A i \in DOMAIN emitted' : emitted'[i].book = b => queue[i].ready

LEMMA BufferDelivers ==
  ASSUME QInv, NEW b \in Books, NEW recs \in Seq(Records), Buffer(b, recs)
  PROVE  FifoStep /\ OpenStaysStep
<1> DEFINE all == Pushed(b, recs)
<1>1. /\ all \in Seq(Entry) /\ Len(all) = Len(queue) + Len(recs)
      /\ \A i \in 1 .. Len(queue) : all[i] = queue[i]
  BY PushedIs
<1>2. queue' = all /\ emitted' = <<>>
  BY DEF Buffer
<1> HIDE DEF all
<1>3. /\ Len(recs) \in Nat /\ Len(queue) \in Nat
      /\ <<>> \in Seq(Entry) /\ Len(<<>>) = 0 /\ DOMAIN <<>> = {}
  BY DEF QInv, TypeOk
<1>4. OpenStaysStep
  BY <1>2, <1>3 DEF OpenStaysStep
<1> DEFINE e == <<>>
<1>5. /\ e \in Seq(Entry) /\ Len(e) = 0 /\ emitted' = e
      /\ \A i \in 1 .. Len(e) : e[i] = all[i]
  BY <1>2, <1>3
<1> HIDE DEF e
<1>6. /\ Len(all) >= Len(queue) /\ Len(e) + Len(all) = Len(all)
      /\ \A i \in 1 .. Len(queue) : all[i].book = queue[i].book /\ all[i].rec = queue[i].rec
      /\ \A i \in 1 .. Len(all) : all[i] = all[Len(e) + i]
  BY <1>1, <1>3, <1>5
<1>7. /\ Len(Delivered(e) \o Delivered(all)) >= Len(queue)
      /\ SubSeq(Delivered(e) \o Delivered(all), 1, Len(queue)) = Delivered(queue)
  BY <1>1, <1>5, <1>6, InOrder
<1>8. FifoStep
  BY <1>2, <1>5, <1>7 DEF FifoStep
<1> QED
  BY <1>4, <1>8

\* What a step that takes all apart delivers, the records of all that the
\* queue already held being unchanged but for their flags.
LEMMA PoppingDelivers ==
  ASSUME QInv, NEW all \in Seq(Entry), NEW n \in 0 .. Len(all), Len(all) >= Len(queue),
         \A i \in 1 .. Len(queue) : all[i].book = queue[i].book /\ all[i].rec = queue[i].rec,
         IsReadyPrefix(all, n),
         queue' = SubSeq(all, n + 1, Len(all)), emitted' = SubSeq(all, 1, n)
  PROVE  FifoStep
<1> DEFINE e == SubSeq(all, 1, n)
           r == SubSeq(all, n + 1, Len(all))
<1>1. /\ r \in Seq(Entry) /\ Len(r) = Len(all) - n
      /\ e \in Seq(Entry) /\ Len(e) = n
      /\ \A i \in 1 .. Len(r) : r[i] = all[n + i]
      /\ \A i \in 1 .. n : e[i] = all[i]
  BY PoppedIs
<1>2. queue' = r /\ emitted' = e
  OBVIOUS
<1> HIDE DEF e, r
<1>3. /\ Len(e) + Len(r) = Len(all)
      /\ \A i \in 1 .. Len(e) : e[i] = all[i]
      /\ \A i \in 1 .. Len(r) : r[i] = all[Len(e) + i]
  BY <1>1
<1>4. /\ Len(Delivered(e) \o Delivered(r)) >= Len(queue)
      /\ SubSeq(Delivered(e) \o Delivered(r), 1, Len(queue)) = Delivered(queue)
  BY <1>1, <1>3, InOrder
<1> QED
  BY <1>2, <1>4 DEF FifoStep

LEMMA CompleteDelivers ==
  ASSUME QInv, NEW b \in Books, NEW recs \in Seq(Records), NEW mark \in BOOLEAN,
         BufferAndComplete(b, recs, mark)
  PROVE  FifoStep /\ OpenStaysStep
<1> DEFINE all == Readied(Pushed(b, recs), PointedAt(b, recs), mark)
<1>1. PICK n \in 0 .. Len(queue) + Len(recs) :
        /\ IsReadyPrefix(all, n)
        /\ queue' = SubSeq(all, n + 1, Len(all))
        /\ emitted' = SubSeq(all, 1, n)
        /\ pending' = [c \in Books |-> IF c = b THEN {} ELSE {i - n : i \in pending[c]}]
  BY DEF BufferAndComplete
<1>2. /\ all \in Seq(Entry) /\ Len(all) = Len(queue) + Len(recs)
      /\ \A i \in 1 .. Len(queue) :
           /\ all[i].book = queue[i].book /\ all[i].rec = queue[i].rec
           /\ queue[i].book # b => all[i].ready = queue[i].ready
      /\ \A i \in Len(queue) + 1 .. Len(all) : all[i].book = b
  BY CompletedIs
<1> HIDE DEF all
<1>3. Len(queue) \in Nat /\ Len(recs) \in Nat
  BY DEF QInv, TypeOk
<1>4. n \in 0 .. Len(all) /\ Len(all) >= Len(queue)
  BY <1>2, <1>3
<1>5. FifoStep
  BY <1>1, <1>2, <1>4, PoppingDelivers
<1>6. /\ Len(emitted') = n /\ emitted' \in Seq(Entry)
      /\ \A i \in 1 .. n : emitted'[i] = all[i]
  BY <1>1, <1>2, <1>4, PoppedIs
<1>7. ASSUME NEW c \in Books, pending'[c] # {},
             NEW i \in DOMAIN emitted', emitted'[i].book = c
      PROVE  queue[i].ready
  <2>1. c # b
    BY <1>1, <1>7
  <2>2. i \in 1 .. n /\ emitted'[i] = all[i]
    BY <1>6
  <2>3. all[i].book = c /\ all[i].ready
    BY <1>1, <1>7, <2>2 DEF IsReadyPrefix
  <2>4. i \in 1 .. Len(queue)
    BY <1>2, <1>3, <1>4, <2>1, <2>2, <2>3
  <2> QED
    BY <1>2, <2>1, <2>3, <2>4
<1>8. OpenStaysStep
  BY <1>7 DEF OpenStaysStep
<1> QED
  BY <1>5, <1>8

LEMMA FlushDelivers ==
  ASSUME QInv, Flush
  PROVE  FifoStep /\ OpenStaysStep
<1>1. PICK n \in 0 .. Len(queue) :
        /\ IsReadyPrefix(queue, n)
        /\ queue' = SubSeq(queue, n + 1, Len(queue))
        /\ emitted' = SubSeq(queue, 1, n)
  BY DEF Flush
<1>2. queue \in Seq(Entry)
  BY DEF QInv, TypeOk
<1>3. FifoStep
  BY <1>1, <1>2, PoppingDelivers
<1>4. Len(emitted') = n /\ emitted' \in Seq(Entry)
  BY <1>1, <1>2, PoppedIs
<1>5. \A i \in DOMAIN emitted' : queue[i].ready
  BY <1>1, <1>4 DEF IsReadyPrefix
<1> QED
  BY <1>3, <1>5 DEF OpenStaysStep

\* A step that leaves the queue alone delivers nothing new.
LEMMA StepDelivers == QInv /\ Next => FifoStep /\ OpenStaysStep
<1> SUFFICES ASSUME QInv, Next PROVE FifoStep /\ OpenStaysStep
  OBVIOUS
<1>1. CASE Flush
  BY <1>1, FlushDelivers
<1>2. ASSUME NEW b \in Books, NEW recs \in Batches, Buffer(b, recs)
      PROVE  FifoStep /\ OpenStaysStep
  BY <1>2, BatchesAreSequences, BufferDelivers
<1>3. ASSUME NEW b \in Books, NEW recs \in Batches, NEW mark \in BOOLEAN,
             BufferAndComplete(b, recs, mark)
      PROVE  FifoStep /\ OpenStaysStep
  BY <1>3, BatchesAreSequences, CompleteDelivers
<1> QED
  BY <1>1, <1>2, <1>3 DEF Next

\* Records reach the sink in the order they were buffered, whatever the order
\* in which the events of the books complete.
THEOREM DeliveryIsFifo == Spec => FifoDelivery
<1>1. QInv /\ [Next]_vars => [FifoStep]_vars
  BY StepDelivers
<1> QED
  BY <1>1, Invariance, PTL DEF Spec, FifoDelivery, FifoStep

\* FlushReady never hands over a record of an event that is still open.
THEOREM OpenEventsWait == Spec => OpenStaysQueued
<1>1. QInv /\ [Next]_vars => [OpenStaysStep]_vars
  BY StepDelivers
<1> QED
  BY <1>1, Invariance, PTL DEF Spec, OpenStaysQueued, OpenStaysStep

-----------------------------------------------------------------------------
(* The whole stream: what a step delivers, and what waits after it.        *)

LEMMA PushedEntries ==
  ASSUME QInv, NEW b \in Books, NEW recs \in Seq(Records)
  PROVE  \A i \in 1 .. Len(recs) :
           Pushed(b, recs)[Len(queue) + i] =
             [book |-> b, rec |-> recs[i], last |-> FALSE, ready |-> FALSE]
<1> DEFINE new == New(b, recs)
<1>1. queue \in Seq(Entry) /\ new \in Seq(Entry) /\ Len(new) = Len(recs)
  BY NewType DEF QInv, TypeOk
<1>2. \A i \in 1 .. Len(recs) :
        new[i] = [book |-> b, rec |-> recs[i], last |-> FALSE, ready |-> FALSE]
  <2>1. DOMAIN recs = 1 .. Len(recs)
    OBVIOUS
  <2> QED
    BY <2>1 DEF New
<1>3. Pushed(b, recs) = queue \o new
  BY DEF Pushed, New
<1> HIDE DEF new
<1>4. \A i \in 1 .. Len(queue) + Len(new) :
        (queue \o new)[i] = IF i <= Len(queue) THEN queue[i] ELSE new[i - Len(queue)]
  BY <1>1, ConcatSeq
<1>5. ASSUME NEW i \in 1 .. Len(recs)
      PROVE  (queue \o new)[Len(queue) + i] = new[i]
  <2> DEFINE j == Len(queue) + i
  <2>1. /\ Len(queue) \in Nat /\ j \in 1 .. Len(queue) + Len(new) /\ ~(j <= Len(queue))
        /\ j - Len(queue) = i
    BY <1>1
  <2> HIDE DEF j
  <2>2. (queue \o new)[j] = new[i]
    BY <1>4, <2>1
  <2> QED
    BY <2>2 DEF j
<1> QED
  BY <1>2, <1>3, <1>5

\* A prefix that is delivered and the rest that stays are the whole again.
LEMMA SplitSeq ==
  ASSUME NEW q \in Seq(Entry), NEW n \in 0 .. Len(q)
  PROVE  SubSeq(q, 1, n) \o SubSeq(q, n + 1, Len(q)) = q
<1> DEFINE e == SubSeq(q, 1, n)
           r == SubSeq(q, n + 1, Len(q))
<1>1. /\ e \in Seq(Entry) /\ Len(e) = n /\ \A i \in 1 .. n : e[i] = q[i]
  OBVIOUS
<1>2. /\ r \in Seq(Entry) /\ Len(r) = Len(q) - n
      /\ \A i \in 1 .. Len(r) : r[i] = q[n + i]
  OBVIOUS
<1>3. Len(q) \in Nat
  OBVIOUS
<1> HIDE DEF e, r
<1> DEFINE s == e \o r
<1>4. /\ s \in Seq(Entry) /\ Len(s) = Len(e) + Len(r)
      /\ \A i \in 1 .. Len(e) + Len(r) : s[i] = IF i <= Len(e) THEN e[i] ELSE r[i - Len(e)]
  BY <1>1, <1>2, ConcatSeq
<1> HIDE DEF s
<1>5. ASSUME NEW i \in 1 .. Len(q) PROVE s[i] = q[i]
  <2>1. CASE i <= n
    <3>1. i \in 1 .. n /\ i \in 1 .. Len(e) + Len(r) /\ i <= Len(e)
      BY <1>1, <1>2, <1>3, <2>1
    <3> QED
      BY <1>1, <1>4, <3>1
  <2>2. CASE ~(i <= n)
    <3> DEFINE j == i - n
    <3>1. j \in 1 .. Len(r) /\ n + j = i /\ s[i] = r[j]
      BY <1>1, <1>2, <1>3, <1>4, <2>2
    <3> HIDE DEF j
    <3> QED
      BY <1>2, <3>1
  <2> QED
    BY <2>1, <2>2
<1>6. Len(s) = Len(q)
  BY <1>1, <1>2, <1>3, <1>4
<1>7. s = q
  BY <1>4, <1>5, <1>6, SeqEqual
<1> QED
  BY <1>7 DEF s, e, r

\* A step that leaves its event open appends its records, unready.
LEMMA BufferStream ==
  ASSUME QInv, NEW b \in Books, NEW recs \in Seq(Records), Buffer(b, recs)
  PROVE  LET s == emitted' \o queue'
         IN /\ s \in Seq(Entry) /\ s = queue' /\ Len(s) = Len(queue) + Len(recs)
            /\ \A i \in 1 .. Len(queue) : s[i] = queue[i]
            /\ \A i \in 1 .. Len(recs) :
                 s[Len(queue) + i] =
                   [book |-> b, rec |-> recs[i], last |-> FALSE, ready |-> FALSE]
<1> DEFINE q == Pushed(b, recs)
<1>1. /\ q \in Seq(Entry) /\ Len(q) = Len(queue) + Len(recs)
      /\ \A i \in 1 .. Len(queue) : q[i] = queue[i]
  BY PushedIs
<1>2. queue' = q /\ emitted' = <<>>
  BY DEF Buffer
<1>3. \A i \in 1 .. Len(recs) :
        q[Len(queue) + i] = [book |-> b, rec |-> recs[i], last |-> FALSE, ready |-> FALSE]
  BY PushedEntries
<1> HIDE DEF q
<1>4. emitted' \o queue' = q
  BY <1>1, <1>2
<1> QED
  BY <1>1, <1>2, <1>3, <1>4

\* A step that completes its event appends its records and makes ready every
\* record of the event.  Only the newest of the appended ones is flagged last.
LEMMA CompleteStream ==
  ASSUME QInv, NEW b \in Books, NEW recs \in Seq(Records), NEW mark \in BOOLEAN,
         mark => recs # <<>>, BufferAndComplete(b, recs, mark)
  PROVE  LET s == emitted' \o queue'
         IN /\ s \in Seq(Entry) /\ Len(s) = Len(queue) + Len(recs)
            /\ \A i \in 1 .. Len(queue) :
                 /\ s[i].book = queue[i].book /\ s[i].rec = queue[i].rec
                 /\ s[i].last = queue[i].last /\ (queue[i].ready => s[i].ready)
            /\ \A i \in 1 .. Len(recs) :
                 s[Len(queue) + i] = [book |-> b, rec |-> recs[i],
                                      last |-> mark /\ i = Len(recs), ready |-> TRUE]
<1> DEFINE q == Pushed(b, recs)
           mine == PointedAt(b, recs)
           all == Readied(q, mine, mark)
<1>0. PICK n \in 0 .. Len(queue) + Len(recs) :
        /\ queue' = SubSeq(all, n + 1, Len(all))
        /\ emitted' = SubSeq(all, 1, n)
  BY DEF BufferAndComplete
<1>1. queue' = SubSeq(all, n + 1, Len(all)) /\ emitted' = SubSeq(all, 1, n)
  BY <1>0
<1>2. /\ q \in Seq(Entry) /\ Len(q) = Len(queue) + Len(recs)
      /\ \A i \in 1 .. Len(queue) : q[i] = queue[i]
  BY PushedIs
<1>3. \A i \in 1 .. Len(recs) :
        q[Len(queue) + i] = [book |-> b, rec |-> recs[i], last |-> FALSE, ready |-> FALSE]
  BY PushedEntries
<1>4. mine = Unready(q, b)
  BY PushedPoints
<1>5. /\ queue \in Seq(Entry) /\ Len(queue) \in Nat /\ DOMAIN queue = 1 .. Len(queue)
      /\ Len(recs) \in Nat /\ pending[b] \subseteq DOMAIN queue
  BY DEF QInv, TypeOk
<1>6. /\ mine = pending[b] \cup (Len(queue) + 1 .. Len(queue) + Len(recs))
      /\ mine \in SUBSET DOMAIN q /\ DOMAIN q = 1 .. Len(q)
  BY <1>2, <1>4 DEF Unready, PointedAt
<1>7. ASSUME NEW i \in mine PROVE i \in Int /\ i <= Len(q)
  BY <1>2, <1>5, <1>6
<1> HIDE DEF q, mine
<1>8. /\ all \in Seq(Entry) /\ Len(all) = Len(q)
      /\ \A i \in 1 .. Len(q) :
           /\ all[i].book = q[i].book /\ all[i].rec = q[i].rec
           /\ all[i].ready = (q[i].ready \/ i \in mine)
  <2>1. q \in Seq(Entry) /\ mine \in SUBSET DOMAIN q
    BY <1>2, <1>6
  <2> QED
    BY <2>1, ReadiedIs
<1>9. recs # <<>> => Len(q) \in mine /\ Len(recs) > 0
  BY <1>2, <1>5, <1>6
<1>10. ASSUME NEW i \in 1 .. Len(q)
       PROVE  all[i].last = (q[i].last \/ (mark /\ i = Len(q)))
  <2> DEFINE flag == q[i].last \/ (mark /\ \A j \in mine : j <= i)
  <2>1. q[i] \in Entry /\ i \in DOMAIN q
    BY <1>2, <1>6
  <2>2. flag \in BOOLEAN /\ q[i].last \in BOOLEAN
    BY <2>1 DEF Entry
  <2>3. mark => ((\A j \in mine : j <= i) <=> i = Len(q))
    BY <1>2, <1>5, <1>7, <1>9
  <2>4. CASE i \in mine
    <3>1. all[i] = [q[i] EXCEPT !.ready = TRUE, !.last = flag]
      BY <2>1, <2>4 DEF Readied
    <3>2. all[i].last = flag
      <4> HIDE DEF flag, all
      <4> QED
        BY <2>1, <2>2, <3>1 DEF Entry
    <3> QED
      BY <2>2, <2>3, <3>2
  <2>5. CASE i \notin mine
    <3>1. all[i] = q[i]
      BY <2>1, <2>5 DEF Readied
    <3>2. ~(mark /\ i = Len(q))
      BY <1>9, <2>5
    <3> QED
      BY <2>2, <3>1, <3>2
  <2> QED
    BY <2>4, <2>5
<1> HIDE DEF all
<1>11. emitted' \o queue' = all
  <2>1. n \in 0 .. Len(all)
    BY <1>2, <1>8
  <2> QED
    BY <1>1, <1>8, <2>1, SplitSeq
<1>12. ASSUME NEW i \in 1 .. Len(queue)
       PROVE  /\ all[i].book = queue[i].book /\ all[i].rec = queue[i].rec
              /\ all[i].last = queue[i].last /\ (queue[i].ready => all[i].ready)
  <2>1. i \in 1 .. Len(q) /\ q[i] = queue[i] /\ queue[i] \in Entry
    BY <1>2, <1>5
  <2>2. ~(mark /\ i = Len(q))
    BY <1>2, <1>5, <1>9
  <2>3. queue[i].last \in BOOLEAN
    BY <2>1 DEF Entry
  <2>4. all[i].last = queue[i].last
    BY <1>10, <2>1, <2>2, <2>3
  <2> QED
    BY <1>8, <2>1, <2>4
<1>13. ASSUME NEW i \in 1 .. Len(recs)
       PROVE  all[Len(queue) + i] = [book |-> b, rec |-> recs[i],
                                     last |-> mark /\ i = Len(recs), ready |-> TRUE]
  <2> DEFINE j == Len(queue) + i
  <2>1. j \in 1 .. Len(q) /\ j \in mine /\ (j = Len(q) <=> i = Len(recs))
    BY <1>2, <1>5, <1>6
  <2>2. q[j] = [book |-> b, rec |-> recs[i], last |-> FALSE, ready |-> FALSE]
    BY <1>3
  <2> HIDE DEF j
  <2>3. /\ all[j].book = q[j].book /\ all[j].rec = q[j].rec
        /\ all[j].ready = (q[j].ready \/ j \in mine)
    BY <1>8, <2>1
  <2>7. all[j].last = (q[j].last \/ (mark /\ j = Len(q)))
    BY <1>10, <2>1
  <2>8. all[j].book = b /\ all[j].rec = recs[i] /\ all[j].ready = TRUE
    <3>1. all[j].book = b /\ all[j].rec = recs[i]
      BY <2>2, <2>3
    <3>2. (q[j].ready \/ j \in mine) = TRUE
      BY <2>1
    <3> QED
      BY <2>3, <3>1, <3>2
  <2>9. all[j].last = (mark /\ i = Len(recs))
    BY <2>1, <2>2, <2>7
  <2>4. all[j] \in Entry
    BY <1>8, <2>1
  <2>5. all[j] = [book |-> all[j].book, rec |-> all[j].rec, last |-> all[j].last,
                  ready |-> all[j].ready]
    BY <2>4 DEF Entry
  <2>6. all[j] = [book |-> b, rec |-> recs[i], last |-> mark /\ i = Len(recs),
                  ready |-> TRUE]
    BY <2>5, <2>8, <2>9
  <2> QED
    BY <2>6 DEF j
<1> QED
  BY <1>2, <1>8, <1>11, <1>12, <1>13
=============================================================================
