----------------------- MODULE ConverterHistoryProofs -----------------------
(***************************************************************************)
(* That a reader of the output knows the books: what it has been shown is  *)
(* current between events, and depth, side, source and F_LAST of each      *)
(* record say what its event did.                                          *)
(*                                                                         *)
(* The converter keeps, per book, one candidate; the memory of             *)
(* ConverterHistory keeps what the candidate stands for.  Known relates    *)
(* the two: the candidate bounds what differs from the newest record, and  *)
(* its depth and sides are those of the shallowest spots touched since.    *)
(* Again the first half has no state: it follows one message through one   *)
(* book, from the lemma that a reported depth bounds what its operation    *)
(* changes (ReportedBounds), and the second half lifts it to all books.    *)
(***************************************************************************)
EXTENDS ConverterHistory, ConverterProofs

\* The DBN schema gives a Clear no side.  The converter takes it as it comes:
\* a Clear that named one would yield a quote of that side, though it empties
\* both.
SidelessClears == \A m \in Messages : m.action = "Clear" => m.side = "None"

-----------------------------------------------------------------------------
(* What a candidate says of the book, base being the levels on the newest  *)
(* record and p the levels now.                                            *)

\* No visible change has been tracked since the newest record.
Fresh(c) == IF c = NoCandidate THEN TRUE ELSE c.reset

Bounded(c, base, p) ==
  \A side \in Sides, d \in 0 .. Depth - 1 :
    d < c.depth \/ (d = c.depth /\ side \notin c.sides) => p[side][d] = base[side][d]

Bounds(c, base, p) == IF Fresh(c) THEN p = base
                      ELSE SidelessClears => Bounded(c, base, p)

\* touches: the visible depths, with their sides, touched since that record.
Spots == (0 .. Depth - 1) \X Sides
SidesAt(touches, d) == {t[2] : t \in {u \in touches : u[1] = d}}

Touching(c, touches) ==
  IF Fresh(c) THEN touches = {}
  ELSE /\ \A t \in touches : c.depth <= t[1]
       /\ SidesAt(touches, c.depth) = c.sides
       /\ c.sides # {}

LEMMA SameProjection ==
  ASSUME NEW levels, NEW new,
         \A side \in Sides, d \in 0 .. Depth - 1 :
           Projection(new)[side][d] = Projection(levels)[side][d]
  PROVE  Projection(new) = Projection(levels)
<1>1. \A l : Projection(l) =
        [side \in Sides |-> [d \in 0 .. Depth - 1 |-> Projection(l)[side][d]]]
  BY DEF Projection
<1> DEFINE shows(l) == [side \in Sides |-> [d \in 0 .. Depth - 1 |-> Projection(l)[side][d]]]
<1>2. shows(new) = shows(levels)
  OBVIOUS
<1>3. Projection(new) = shows(new) /\ Projection(levels) = shows(levels)
  BY <1>1
<1> HIDE DEF shows
<1> QED
  BY <1>2, <1>3

\* t is what TrackBookUpdate makes of c.
IsTracked(t, c, m, d) ==
  /\ t \in Candidate \cup {NoCandidate}
  /\ c = NoCandidate => (t = NoCandidate <=> d = NoDepth)
  /\ c # NoCandidate => t # NoCandidate
  /\ t # NoCandidate => t.source = m
  /\ d = NoDepth /\ c # NoCandidate =>
       t.depth = c.depth /\ t.reset = c.reset /\ t.sides = c.sides
  /\ d # NoDepth /\ (Fresh(c) \/ d < c.depth) =>
       t.depth = d /\ t.reset = FALSE /\ t.sides = TouchedSides(m.side)
  /\ d # NoDepth /\ ~Fresh(c) /\ ~(d < c.depth) =>
       /\ t.depth = c.depth /\ t.reset = FALSE
       /\ t.sides = IF d = c.depth THEN c.sides \cup TouchedSides(m.side) ELSE c.sides

LEMMA TrackedIs ==
  ASSUME NEW c \in Candidate \cup {NoCandidate}, NEW m \in Messages,
         NEW d \in 0 .. NoDepth
  PROVE  IsTracked(Tracked(c, m, d), c, m, d)
<1> SUFFICES ASSUME NEW t, t = Tracked(c, m, d) PROVE IsTracked(t, c, m, d)
  OBVIOUS
<1>1. t \in Candidate \cup {NoCandidate}
  BY TrackedType
<1>2. TouchedSides(m.side) \in SUBSET Sides
  BY MessageTyped, TouchedType
<1>3. d # NoDepth => d \in 0 .. Depth - 1
  BY DepthAssumption DEF NoDepth
<1>4. CASE d = NoDepth
  <2>1. t = IF c = NoCandidate THEN c ELSE [c EXCEPT !.source = m]
    BY <1>4 DEF Tracked
  <2>2. CASE c = NoCandidate
    BY <1>1, <1>4, <2>1, <2>2 DEF IsTracked
  <2>3. CASE c # NoCandidate
    <3>1. c \in Candidate /\ t = [c EXCEPT !.source = m]
      BY <2>1, <2>3
    <3>2. /\ t \in Candidate /\ t.source = m
          /\ t.depth = c.depth /\ t.reset = c.reset /\ t.sides = c.sides
      BY <3>1 DEF Candidate
    <3> QED
      BY <1>4, <2>3, <3>2, CandidateAssumption DEF IsTracked
  <2> QED
    BY <2>2, <2>3
<1>5. CASE d # NoDepth /\ (Fresh(c) \/ d < c.depth)
  <2>1. t = [source |-> m, depth |-> d, reset |-> FALSE, sides |-> TouchedSides(m.side)]
    BY <1>5 DEF Tracked, Fresh
  <2>2. t \in Candidate
    BY <1>2, <1>3, <1>5, <2>1 DEF Candidate
  <2> QED
    <3>1. t # NoCandidate
      BY <2>2, CandidateAssumption
    <3>2. t.source = m /\ t.depth = d /\ t.reset = FALSE /\ t.sides = TouchedSides(m.side)
      BY <2>1
    <3> QED
      BY <1>5, <2>2, <3>1, <3>2 DEF IsTracked
<1>6. CASE d # NoDepth /\ ~Fresh(c) /\ ~(d < c.depth)
  <2> DEFINE sides == IF d = c.depth THEN c.sides \cup TouchedSides(m.side) ELSE c.sides
  <2>1. c \in Candidate /\ c # NoCandidate /\ c.reset = FALSE
    BY <1>6, CandidateAssumption DEF Fresh, Candidate
  <2>2. t = [c EXCEPT !.source = m, !.sides = sides]
    BY <1>6, <2>1 DEF Tracked, Candidate
  <2>3. sides \in SUBSET Sides
    BY <1>2, <2>1 DEF Candidate
  <2> HIDE DEF sides
  <2>4. /\ t \in Candidate /\ t.source = m /\ t.depth = c.depth
        /\ t.reset = FALSE /\ t.sides = sides
    BY <2>1, <2>2, <2>3 DEF Candidate
  <2> QED
    BY <1>6, <2>1, <2>4, CandidateAssumption DEF IsTracked, sides
<1> QED
  BY <1>4, <1>5, <1>6

\* What a change leaves alone: the sides it does not touch, and what is above
\* the depth it reports.
Keeps(m, levels, new, d) ==
  \A side \in Sides, e \in 0 .. Depth - 1 :
    side \notin TouchedSides(m.side) \/ e < d =>
      Projection(new)[side][e] = Projection(levels)[side][e]

\* Tracking a change keeps what the candidate says of the levels true.
LEMMA TrackedBounds ==
  ASSUME NEW c \in Candidate \cup {NoCandidate}, NEW m \in Messages,
         NEW d \in 0 .. NoDepth, NEW levels, NEW new, NEW base,
         d = NoDepth \/ SidelessClears => Keeps(m, levels, new, d),
         Bounds(c, base, Projection(levels))
  PROVE  Bounds(Tracked(c, m, d), base, Projection(new))
<1> SUFFICES ASSUME NEW t, t = Tracked(c, m, d)
             PROVE  Bounds(t, base, Projection(new))
  OBVIOUS
<1> DEFINE p == Projection(levels)
           q == Projection(new)
<1>0. IsTracked(t, c, m, d)
  BY TrackedIs
<1>1. /\ c = NoCandidate => (t = NoCandidate <=> d = NoDepth)
      /\ c # NoCandidate => t # NoCandidate
      /\ d = NoDepth /\ c # NoCandidate =>
           t.depth = c.depth /\ t.reset = c.reset /\ t.sides = c.sides
      /\ d # NoDepth /\ (Fresh(c) \/ d < c.depth) =>
           t.depth = d /\ t.reset = FALSE /\ t.sides = TouchedSides(m.side)
      /\ d # NoDepth /\ ~Fresh(c) /\ ~(d < c.depth) =>
           /\ t.depth = c.depth /\ t.reset = FALSE
           /\ t.sides = IF d = c.depth THEN c.sides \cup TouchedSides(m.side)
                        ELSE c.sides
  BY <1>0 DEF IsTracked
<1>2. d # NoDepth => ~Fresh(t)
  BY <1>1 DEF Fresh
<1>3. c # NoCandidate => c.depth \in 0 .. Depth - 1
  BY DEF Candidate
<1>4. d = NoDepth => (\A e \in 0 .. Depth - 1 : e < d)
  BY DepthAssumption DEF NoDepth
<1>5. d \in Int /\ Depth \in Int
  BY DepthAssumption DEF NoDepth
<1>6. CASE d = NoDepth
  <2>1. q = p
    BY <1>4, <1>6, SameProjection DEF Keeps
  <2>2. Fresh(t) <=> Fresh(c)
    BY <1>1, <1>6 DEF Fresh
  <2>3. CASE Fresh(c)
    BY <2>1, <2>2, <2>3 DEF Bounds
  <2>4. CASE ~Fresh(c)
    <3>1. c # NoCandidate
      BY <2>4 DEF Fresh
    <3>2. t.depth = c.depth /\ t.sides = c.sides
      BY <1>1, <1>6, <3>1
    <3> HIDE DEF p, q
    <3> QED
      BY <2>1, <2>2, <2>4, <3>2 DEF Bounds, Bounded, p, q
  <2> QED
    BY <2>3, <2>4
<1>7. CASE d # NoDepth
  <2>0. SUFFICES SidelessClears => Bounded(t, base, q)
    <3> HIDE DEF q
    <3> QED
      BY <1>2, <1>7 DEF Bounds, q
  <2> SUFFICES ASSUME SidelessClears PROVE Bounded(t, base, q)
    OBVIOUS
  <2>1. \A side \in Sides, e \in 0 .. Depth - 1 :
          side \notin TouchedSides(m.side) \/ e < d => q[side][e] = p[side][e]
    BY DEF Keeps
  <2>2. CASE Fresh(c)
    <3>1. p = base /\ t.depth = d /\ t.sides = TouchedSides(m.side)
      BY <1>1, <1>7, <2>2 DEF Bounds
    <3> HIDE DEF p, q
    <3> QED
      BY <2>1, <3>1 DEF Bounded
  <2>3. CASE ~Fresh(c)
    <3>1. c # NoCandidate /\ c.depth \in Int /\ Bounded(c, base, p)
      BY <1>3, <2>3 DEF Fresh, Bounds
    <3>2. CASE d < c.depth
      <4>1. t.depth = d /\ t.sides = TouchedSides(m.side)
        BY <1>1, <1>7, <3>2
      <4>2. \A side \in Sides, e \in 0 .. Depth - 1 : e <= d => p[side][e] = base[side][e]
        BY <1>5, <3>1, <3>2 DEF Bounded
      <4> HIDE DEF p, q
      <4> QED
        BY <1>5, <2>1, <4>1, <4>2 DEF Bounded
    <3>3. CASE ~(d < c.depth)
      <4>1. t.depth = c.depth
            /\ t.sides = IF d = c.depth THEN c.sides \cup TouchedSides(m.side) ELSE c.sides
        BY <1>1, <1>7, <2>3, <3>3
      <4> HIDE DEF p, q
      <4> SUFFICES ASSUME NEW side \in Sides, NEW e \in 0 .. Depth - 1,
                          e < c.depth \/ (e = c.depth /\ side \notin t.sides)
                   PROVE  q[side][e] = base[side][e]
        BY <4>1 DEF Bounded
      <4>2. p[side][e] = base[side][e]
        BY <3>1, <4>1 DEF Bounded
      <4>3. side \notin TouchedSides(m.side) \/ e < d
        BY <1>5, <3>1, <3>3, <4>1
      <4> QED
        BY <2>1, <4>2, <4>3
    <3> QED
      BY <3>2, <3>3
  <2> QED
    BY <2>2, <2>3
<1> QED
  BY <1>6, <1>7

LEMMA SidesAtIs ==
  ASSUME NEW touches \in SUBSET Spots, NEW d, NEW side
  PROVE  side \in SidesAt(touches, d) <=> <<d, side>> \in touches
BY DEF SidesAt, Spots

\* And what it says of the depths that were touched.
LEMMA TrackedTouching ==
  ASSUME NEW c \in Candidate \cup {NoCandidate}, NEW m \in Messages,
         NEW d \in 0 .. NoDepth, NEW touches \in SUBSET Spots, Touching(c, touches)
  PROVE  LET more == ({d} \ {NoDepth}) \X TouchedSides(m.side)
         IN /\ more \in SUBSET Spots
            /\ Touching(Tracked(c, m, d), more \cup touches)
<1> SUFFICES ASSUME NEW t, t = Tracked(c, m, d),
                    NEW own, own = TouchedSides(m.side)
             PROVE  /\ ({d} \ {NoDepth}) \X own \in SUBSET Spots
                    /\ Touching(t, (({d} \ {NoDepth}) \X own) \cup touches)
  OBVIOUS
<1> DEFINE more == ({d} \ {NoDepth}) \X own
           both == more \cup touches
<1>0. IsTracked(t, c, m, d)
  BY TrackedIs
<1>1. /\ c = NoCandidate => (t = NoCandidate <=> d = NoDepth)
      /\ c # NoCandidate => t # NoCandidate
      /\ d = NoDepth /\ c # NoCandidate =>
           t.depth = c.depth /\ t.reset = c.reset /\ t.sides = c.sides
      /\ d # NoDepth /\ (Fresh(c) \/ d < c.depth) =>
           t.depth = d /\ t.reset = FALSE /\ t.sides = own
      /\ d # NoDepth /\ ~Fresh(c) /\ ~(d < c.depth) =>
           /\ t.depth = c.depth /\ t.reset = FALSE
           /\ t.sides = IF d = c.depth THEN c.sides \cup own ELSE c.sides
  BY <1>0 DEF IsTracked
<1>2. own \in SUBSET Sides /\ own # {}
  BY MessageTyped, TouchedType DEF TouchedSides, Sides
<1>3. d # NoDepth => d \in 0 .. Depth - 1
  BY DepthAssumption DEF NoDepth
<1>4. more \in SUBSET Spots
  BY <1>2, <1>3 DEF Spots
<1>5. \A x : x \in more <=> d # NoDepth /\ x \in {d} \X own
  OBVIOUS
<1>6. d \in Int /\ \A u \in touches : u[1] \in Int
  BY DepthAssumption DEF NoDepth, Spots
<1>7. CASE d = NoDepth
  <2>1. both = touches
    BY <1>5, <1>7
  <2>2. (Fresh(t) <=> Fresh(c)) /\ (~Fresh(c) => t.depth = c.depth /\ t.sides = c.sides)
    BY <1>1, <1>7 DEF Fresh
  <2> HIDE DEF both
  <2>3. Touching(t, both)
    BY <2>1, <2>2 DEF Touching
  <2> QED
    BY <1>4, <2>3 DEF both
<1>8. CASE d # NoDepth
  <2>1. ~Fresh(t)
    BY <1>1, <1>8 DEF Fresh
  <2>2. both \in SUBSET Spots /\ more = {d} \X own
    BY <1>4, <1>5, <1>8
  <2>3. \A u \in more : u[1] = d
    BY <2>2
  <2>4. \A e, s : <<e, s>> \in more <=> e = d /\ s \in own
    BY <2>2
  <2> HIDE DEF more
  <2>5. CASE Fresh(c) \/ d < c.depth
    <3>1. t.depth = d /\ t.sides = own
      BY <1>1, <1>8, <2>5
    <3>2. \A u \in touches : d < u[1]
      <4>1. CASE Fresh(c)
        BY <4>1 DEF Touching
      <4>2. CASE ~Fresh(c)
        <5>1. c.depth \in Int /\ \A u \in touches : c.depth <= u[1]
          BY <4>2 DEF Touching, Fresh, Candidate
        <5> QED
          BY <1>6, <2>5, <4>2, <5>1
      <4> QED
        BY <4>1, <4>2
    <3>3. \A u \in both : d <= u[1]
      BY <1>6, <2>3, <3>2
    <3>4. \A s : <<d, s>> \in touches => FALSE
      BY <1>6, <3>2
    <3>5. \A s : s \in SidesAt(both, d) <=> s \in own
      <4> HIDE DEF both
      <4>1. \A s : s \in SidesAt(both, d) <=> <<d, s>> \in both
        BY <2>2, SidesAtIs
      <4>2. \A s : <<d, s>> \in both <=> s \in own
        BY <2>4, <3>4 DEF both
      <4> QED
        BY <4>1, <4>2
    <3>6. SidesAt(both, d) = own
      BY <3>5
    <3> HIDE DEF both
    <3>7. Touching(t, both)
      BY <1>2, <2>1, <3>1, <3>3, <3>6 DEF Touching
    <3> QED
      BY <1>4, <3>7 DEF both, more
  <2>6. CASE ~Fresh(c) /\ ~(d < c.depth)
    <3>1. /\ t.depth = c.depth
          /\ t.sides = IF d = c.depth THEN c.sides \cup own ELSE c.sides
      BY <1>1, <1>8, <2>6
    <3>2. /\ c.depth \in Int /\ \A u \in touches : c.depth <= u[1]
          /\ SidesAt(touches, c.depth) = c.sides /\ c.sides # {}
      BY <2>6 DEF Touching, Fresh, Candidate
    <3>3. \A u \in both : c.depth <= u[1]
      BY <1>6, <2>3, <2>6, <3>2
    <3>4. \A s : s \in SidesAt(both, c.depth) <=> s \in t.sides
      <4> HIDE DEF both
      <4>1. \A s : s \in SidesAt(both, c.depth) <=> <<c.depth, s>> \in both
        BY <2>2, SidesAtIs
      <4>2. \A s : s \in c.sides <=> <<c.depth, s>> \in touches
        BY <3>2, SidesAtIs
      <4>3. \A s : <<c.depth, s>> \in both <=> (c.depth = d /\ s \in own) \/ s \in c.sides
        BY <2>4, <4>2 DEF both
      <4>4. \A s : s \in t.sides <=> (c.depth = d /\ s \in own) \/ s \in c.sides
        BY <3>1
      <4> QED
        BY <4>1, <4>3, <4>4
    <3>5. SidesAt(both, c.depth) = t.sides
      <4>1. SidesAt(both, c.depth) \subseteq Sides /\ t.sides \subseteq Sides
        BY <1>2, <2>2, <3>1, <3>2 DEF SidesAt, Spots
      <4> HIDE DEF both
      <4> QED
        BY <3>4, <4>1
    <3> HIDE DEF both
    <3>6. Touching(t, both)
      BY <2>1, <3>1, <3>2, <3>3, <3>5 DEF Touching
    <3> QED
      BY <1>4, <3>6 DEF both, more
  <2> QED
    BY <2>5, <2>6
<1> QED
  BY <1>7, <1>8

-----------------------------------------------------------------------------
(* A message of an ordinary event arrives.                                 *)

\* The depth at which m changes k, and the spots it touches there.
ChangeDepth(k, m) == IF m.action = "Clear" THEN 0 ELSE Reported(k, m)
TouchedBy(k, m) ==
  IF ~ChangesBook(m) THEN {}
  ELSE ({ChangeDepth(k, m)} \ {NoDepth}) \X TouchedSides(m.side)

\* Depths are a matter of orders and levels.
LEMMA SameReported ==
  ASSUME NEW k, NEW l, NEW m, k.orders = l.orders, k.levels = l.levels,
         m.action \in BookActions
  PROVE  Reported(k, m) = Reported(l, m)
<1>1. Placed(k, m) = Placed(l, m)
  BY DEF Placed
<1>2. AddReported(k, m) = AddReported(l, m)
  BY <1>1 DEF AddReported
<1>3. CancelReported(k, m) = CancelReported(l, m)
  BY DEF CancelReported
<1>4. Vacated(k, m) = Vacated(l, m)
  BY DEF Vacated
<1>5. /\ IsPlacing(k, m) = IsPlacing(l, m) /\ IsRemoving(k, m) = IsRemoving(l, m)
      /\ IsResizing(k, m) = IsResizing(l, m) /\ IsMoving(k, m) = IsMoving(l, m)
  BY DEF IsPlacing, IsRemoving, IsResizing, IsMoving
<1>6. Modified(k, m) = Modified(l, m)
  BY <1>1, <1>4, <1>5 DEF Modified
<1>7. ModifyReported(k, m) = ModifyReported(l, m)
  BY <1>5, <1>6 DEF ModifyReported
<1> QED
  BY <1>2, <1>3, <1>7 DEF Reported, BookActions

\* What becomes of the candidate and of the levels.
Follows(k, m, r) ==
  /\ ~k.snapshotEvent
  /\ ChangesBook(m) =>
       /\ ChangeDepth(k, m) \in 0 .. NoDepth
       /\ r.candidate = Tracked(k.candidate, m, ChangeDepth(k, m))
       /\ ChangeDepth(k, m) = NoDepth \/ SidelessClears =>
            Keeps(m, k.levels, r.levels, ChangeDepth(k, m))
  /\ ~ChangesBook(m) => r.levels = k.levels
  /\ m.action = "Trade" /\ k.candidate # NoCandidate =>
       r.candidate = [k.candidate EXCEPT !.reset = TRUE]
  /\ ~ChangesBook(m) /\ ~(m.action = "Trade" /\ k.candidate # NoCandidate) =>
       r.candidate = k.candidate

LEMMA EventMessage ==
  ASSUME NEW free \in BOOLEAN, NEW k, BookOk(k, free), NEW m \in Messages,
         Admits(k, m, free), NEW r, r = Received(k, m, free), ~r.snapshotEvent
  PROVE  Follows(k, m, r)
<1> DEFINE e == Entered(k, m, free)
           began == ContinuesReset(k, m, free)
           d == ChangeDepth(k, m)
<1>1. k \in Book /\ Matches(k) /\ (m.action \in BookActions => Accepted(k, m))
  BY DEF BookOk, Admits
<1>2. /\ e \in Book /\ e.orders = k.orders /\ e.levels = k.levels
      /\ e.candidate = (IF began THEN NoCandidate ELSE k.candidate)
      /\ e.snapshotEvent = (k.snapshotEvent \/ began)
  BY <1>1, EnteredIs
<1>3. /\ r.levels = Changed(e, m).levels
      /\ r.candidate = Candidacy(e, m, Snapshotting(e, m))
      /\ r.snapshotEvent = Snapshotting(e, m)
  BY <1>1, ReceivedIs
<1>4. k.snapshotEvent \in BOOLEAN
  BY <1>1, BookTyped
<1> HIDE DEF e, began
<1>5. ~k.snapshotEvent /\ ~began /\ ~Snapshotting(e, m) /\ e.candidate = k.candidate
  BY <1>2, <1>3, <1>4 DEF Snapshotting
<1>6. /\ HoldsBook(e) /\ Matches(e) /\ CarriesOrder(m)
      /\ m.action \in BookActions => Accepted(e, m)
  BY <1>1, <1>2, BookTyped, MessageTyped, SameAccepted DEF Matches
<1>7. CASE m.action \in BookActions
  <2>1. Reported(e, m) = Reported(k, m) /\ m.action # "Clear" /\ ChangesBook(m)
    BY <1>2, <1>7, SameReported DEF ChangesBook, BookActions
  <2>2. Reported(k, m) \in 0 .. NoDepth
    BY <1>7, ReportedType
  <2>3. r.candidate = Tracked(k.candidate, m, Reported(k, m))
    BY <1>3, <1>5, <1>7, <2>1 DEF Candidacy, BookActions
  <2>4. KeepsAbove(k.levels, r.levels, m.side, Reported(k, m))
    <3>1. KeepsAbove(e.levels, Applied(e, m).levels, m.side, Reported(e, m))
      BY <1>6, <1>7, ReportedBounds
    <3>2. r.levels = Applied(e, m).levels
      BY <1>3, <1>7, <2>1 DEF Changed
    <3> QED
      BY <1>2, <2>1, <3>1, <3>2
  <2>5. m.side \in Sides
    BY <1>1, <1>6, <1>7, FieldsTyped
       DEF Accepted, AddAccepted, CancelAccepted, ModifyAccepted, BookActions
  <2>6. Keeps(m, k.levels, r.levels, Reported(k, m))
    BY <2>4, <2>5 DEF Keeps, KeepsAbove, TouchedSides
  <2>7. m.action # "Trade"
    BY <1>7 DEF BookActions
  <2> QED
    BY <1>5, <2>1, <2>2, <2>3, <2>6, <2>7 DEF Follows, ChangeDepth
<1>8. CASE m.action = "Clear"
  <2>1. ChangesBook(m) /\ m.action \notin BookActions /\ ChangeDepth(k, m) = 0
    BY <1>8 DEF ChangesBook, BookActions, ChangeDepth
  <2>2. 0 \in 0 .. NoDepth /\ 0 # NoDepth
    BY DepthAssumption DEF NoDepth
  <2>3. r.candidate = Tracked(k.candidate, m, 0)
    BY <1>3, <1>5, <1>8, <2>1 DEF Candidacy
  <2>4. SidelessClears => Keeps(m, k.levels, r.levels, 0)
    BY <1>8 DEF SidelessClears, Keeps, TouchedSides, Sides
  <2> QED
    BY <1>5, <1>8, <2>1, <2>2, <2>3, <2>4 DEF Follows
<1>9. CASE m.action \notin BookActions /\ m.action # "Clear"
  <2>1. ~ChangesBook(m)
    BY <1>9 DEF ChangesBook
  <2>2. r.levels = k.levels
    BY <1>2, <1>3, <1>9 DEF Changed
  <2>3. CASE m.action = "Trade" /\ k.candidate # NoCandidate
    <3>1. r.candidate = [e.candidate EXCEPT !.reset = TRUE]
      BY <1>3, <1>5, <1>9, <2>3 DEF Candidacy
    <3> QED
      BY <1>5, <2>1, <2>2, <2>3, <3>1 DEF Follows
  <2>4. CASE ~(m.action = "Trade" /\ k.candidate # NoCandidate)
    <3>1. r.candidate = e.candidate
      BY <1>3, <1>5, <1>9, <2>4 DEF Candidacy
    <3> QED
      BY <1>5, <2>1, <2>2, <2>4, <3>1 DEF Follows
  <2> QED
    BY <2>3, <2>4
<1> QED
  BY <1>7, <1>8, <1>9

\* The newest change of the event once m has arrived, and what was touched.
NewLast(k, m, last) ==
  IF ChangesBook(m) THEN m ELSE IF ~k.eventOpen THEN NoMessage ELSE last
NewTouches(k, m, touches) ==
  IF m.action = "Trade" THEN {}
  ELSE TouchedBy(k, m) \cup (IF ~k.eventOpen THEN {} ELSE touches)

LEMMA EventReceived ==
  ASSUME NEW free \in BOOLEAN, NEW k, BookOk(k, free), NEW m \in Messages,
         Admits(k, m, free), NEW r, r = Received(k, m, free), ~r.snapshotEvent,
         NEW base, NEW touches \in SUBSET Spots, NEW last,
         Bounds(k.candidate, base, Projection(k.levels)),
         k.eventOpen => Touching(k.candidate, touches),
         k.candidate # NoCandidate => k.candidate.source = last /\ ChangesBook(last)
  PROVE  /\ m.action # "Trade" => Bounds(r.candidate, base, Projection(r.levels))
         /\ m.action = "Trade" => Fresh(r.candidate)
         /\ r.candidate # NoCandidate /\ SidelessClears =>
              Bounded(r.candidate, base, Projection(r.levels))
         /\ NewTouches(k, m, touches) \in SUBSET Spots
         /\ Touching(r.candidate, NewTouches(k, m, touches))
         /\ r.candidate # NoCandidate =>
              /\ r.candidate.source = NewLast(k, m, last)
              /\ ChangesBook(NewLast(k, m, last))
<1> DEFINE d == ChangeDepth(k, m)
           c == k.candidate
           t0 == IF ~k.eventOpen THEN {} ELSE touches
<1>1. /\ c \in Candidate \cup {NoCandidate} /\ k.eventOpen \in BOOLEAN
      /\ ~k.eventOpen => c = NoCandidate
  BY BookTyped DEF BookOk, ClosedOk
<1>0. Follows(k, m, r)
  BY EventMessage
<1>2. t0 \in SUBSET Spots /\ Touching(c, t0)
  BY <1>1 DEF Touching, Fresh
<1>3. CASE ChangesBook(m)
  <2>1. /\ d \in 0 .. NoDepth /\ r.candidate = Tracked(c, m, d)
        /\ d = NoDepth \/ SidelessClears => Keeps(m, k.levels, r.levels, d)
        /\ m.action # "Trade"
    BY <1>0, <1>3 DEF Follows, ChangesBook, BookActions
  <2> DEFINE t == r.candidate
  <2> HIDE DEF t, d, c, t0
  <2>2. Bounds(Tracked(c, m, d), base, Projection(r.levels))
    BY <1>1, <2>1, TrackedBounds DEF c
  <2>3. /\ ({d} \ {NoDepth}) \X TouchedSides(m.side) \in SUBSET Spots
        /\ Touching(Tracked(c, m, d), (({d} \ {NoDepth}) \X TouchedSides(m.side)) \cup t0)
    BY <1>1, <1>2, <2>1, TrackedTouching
  <2>4. NewTouches(k, m, touches) = (({d} \ {NoDepth}) \X TouchedSides(m.side)) \cup t0
    BY <1>3, <2>1 DEF NewTouches, TouchedBy, d, t0
  <2>5. IsTracked(t, c, m, d)
    BY <1>1, <2>1, TrackedIs DEF t
  <2>6. t # NoCandidate => t.source = m
    BY <2>5 DEF IsTracked
  <2>7. Bounds(t, base, Projection(r.levels))
    BY <2>1, <2>2 DEF t
  <2>8. t # NoCandidate /\ SidelessClears => Bounded(t, base, Projection(r.levels))
    BY <2>7 DEF Bounds, Bounded
  <2>9. NewLast(k, m, last) = m
    BY <1>3 DEF NewLast
  <2> QED
    BY <1>2, <1>3, <2>1, <2>3, <2>4, <2>6, <2>7, <2>8, <2>9 DEF t
<1>4. CASE ~ChangesBook(m)
  <2>1. r.levels = k.levels
    BY <1>0, <1>4 DEF Follows
  <2>2. TouchedBy(k, m) = {}
    BY <1>4 DEF TouchedBy
  <2>3. c # NoCandidate => NewLast(k, m, last) = last
    BY <1>1, <1>4 DEF NewLast
  <2>4. CASE m.action = "Trade" /\ c # NoCandidate
    <3>1. c \in Candidate /\ r.candidate = [c EXCEPT !.reset = TRUE]
      BY <1>0, <1>1, <2>4 DEF Follows
    <3>2. /\ r.candidate \in Candidate /\ r.candidate.reset = TRUE
          /\ r.candidate.depth = c.depth /\ r.candidate.sides = c.sides
          /\ r.candidate.source = c.source
      BY <3>1 DEF Candidate
    <3>3. Fresh(r.candidate)
      BY <3>2 DEF Fresh
    <3>4. SidelessClears => Bounded(c, base, Projection(k.levels))
      BY DEF Bounds, Bounded
    <3>5. SidelessClears => Bounded(r.candidate, base, Projection(r.levels))
      BY <2>1, <3>2, <3>4 DEF Bounded
    <3>6. NewTouches(k, m, touches) = {}
      BY <2>4 DEF NewTouches
    <3> QED
      BY <2>3, <2>4, <3>2, <3>3, <3>5, <3>6 DEF Touching
  <2>5. CASE ~(m.action = "Trade" /\ c # NoCandidate)
    <3>1. r.candidate = c
      BY <1>0, <1>4, <2>5 DEF Follows
    <3>2. m.action = "Trade" => c = NoCandidate
      BY <2>5
    <3>3. Bounds(r.candidate, base, Projection(r.levels))
      BY <2>1, <3>1
    <3>4. r.candidate # NoCandidate /\ SidelessClears =>
            Bounded(r.candidate, base, Projection(r.levels))
      BY <3>3 DEF Bounds, Bounded
    <3>5. NewTouches(k, m, touches) = IF m.action = "Trade" THEN {} ELSE t0
      BY <2>2 DEF NewTouches
    <3>6. m.action = "Trade" => Fresh(r.candidate)
      BY <3>1, <3>2 DEF Fresh
    <3>7. Touching(r.candidate, NewTouches(k, m, touches))
      BY <1>2, <3>1, <3>5, <3>6 DEF Touching
    <3>8. NewTouches(k, m, touches) \in SUBSET Spots
      BY <1>2, <3>5
    <3> QED
      BY <2>3, <3>1, <3>3, <3>4, <3>6, <3>7, <3>8
  <2> QED
    BY <2>4, <2>5
<1> QED
  BY <1>3, <1>4

-----------------------------------------------------------------------------
(* A message of a snapshot arrives.                                        *)

\* The source of the snapshot is the newest Add or Clear.
LEMMA SnapshotSourceIs ==
  ASSUME NEW free \in BOOLEAN, NEW k, BookOk(k, free), NEW m \in Messages,
         Admits(k, m, free), NEW r, r = Received(k, m, free), r.snapshotEvent,
         NEW last, k.snapshotEvent => k.snapshotSource = last
  PROVE  r.snapshotSource = NewLast(k, m, last)
<1> DEFINE e == Entered(k, m, free)
           began == ContinuesReset(k, m, free)
<1>1. k \in Book /\ Matches(k) /\ (m.action \in BookActions => Accepted(k, m))
  BY DEF BookOk, Admits
<1>2. e.snapshotEvent = (k.snapshotEvent \/ began)
  BY <1>1, EnteredIs
<1>3. /\ r.snapshotSource = (IF Snapshotting(e, m) /\ m.action \in {"Clear", "Add"}
                             THEN m ELSE k.snapshotSource)
      /\ r.snapshotEvent = Snapshotting(e, m)
  BY <1>1, ReceivedIs
<1>4. k.snapshotEvent \in BOOLEAN
  BY <1>1, BookTyped
<1> HIDE DEF e
<1>5. m.action \in {"Clear", "Add"} => ChangesBook(m)
  BY DEF ChangesBook, BookActions
<1>6. CASE m.action \in {"Clear", "Add"}
  BY <1>3, <1>5, <1>6 DEF NewLast
<1>7. CASE m.action \notin {"Clear", "Add"}
  <2>1. ~began /\ k.snapshotEvent
    BY <1>2, <1>3, <1>4, <1>7 DEF began, ContinuesReset, Snapshotting
  <2>2. m.action = "None" /\ k.eventOpen
    BY <1>7, <2>1 DEF Admits, TransitionOk, BookOk, SnapshotOk
  <2>3. ~ChangesBook(m)
    BY <2>2 DEF ChangesBook, BookActions
  <2> QED
    BY <1>3, <1>7, <2>1, <2>2, <2>3 DEF NewLast
<1> QED
  BY <1>6, <1>7

-----------------------------------------------------------------------------
(* The records that a message adds.                                        *)

TradeFrom(r, m, t) ==
  t.source = m /\ m.action = "Trade" /\ t.levels = Projection(r.levels)

QuoteFrom(r, q) ==
  /\ q.levels = Projection(r.levels)
  /\ r.snapshotEvent => q.source = r.snapshotSource /\ q.depth = 0 /\ q.side = "None"
                        /\ r.levels # EmptyBook.levels
  /\ ~r.snapshotEvent =>
       /\ r.candidate # NoCandidate
       /\ q.source = r.candidate.source /\ q.depth = r.candidate.depth
       /\ q.side = AffectedSide(r.candidate)

\* The four things a message may add, in order; nothing closes an event
\* without a quote unless nothing was changed.
AddsNothing(r, m, recs) ==
  /\ recs = <<>>
  /\ r.snapshotEvent /\ IsLast(m) => r.levels = EmptyBook.levels
  /\ ~r.snapshotEvent => m.action # "Trade" /\ (IsLast(m) => r.candidate = NoCandidate)
AddsTrade(r, m, recs) ==
  /\ ~r.snapshotEvent
  /\ \E t : recs = <<t>> /\ TradeFrom(r, m, t)
AddsQuote(r, m, recs) ==
  /\ IsLast(m)
  /\ \E q : recs = <<q>> /\ QuoteFrom(r, q)
AddsBoth(r, m, recs) ==
  /\ ~r.snapshotEvent /\ IsLast(m)
  /\ \E t, q : recs = <<t, q>> /\ TradeFrom(r, m, t) /\ QuoteFrom(r, q)

LEMMA OneAndOne ==
  ASSUME NEW t, NEW q
  PROVE  <<t>> \o <<q>> = <<t, q>> /\ <<t>> \o <<>> = <<t>>
<1> DEFINE S == {t, q}
           a == <<t>>
           b == <<q>>
           c == <<t, q>>
<1>1. /\ a \in Seq(S) /\ Len(a) = 1 /\ a[1] = t
      /\ b \in Seq(S) /\ Len(b) = 1 /\ b[1] = q
      /\ c \in Seq(S) /\ Len(c) = 2 /\ c[1] = t /\ c[2] = q
  OBVIOUS
<1> HIDE DEF S, a, b, c
<1>2. a \o <<>> = a
  BY <1>1
<1>5. /\ a \o b \in Seq(S) /\ Len(a \o b) = Len(a) + Len(b)
      /\ \A i \in 1 .. Len(a) + Len(b) :
           (a \o b)[i] = IF i <= Len(a) THEN a[i] ELSE b[i - Len(a)]
  BY <1>1, ConcatProperties
<1>3. /\ a \o b \in Seq(S) /\ Len(a \o b) = 2 /\ (a \o b)[1] = t /\ (a \o b)[2] = q
  <2> DEFINE s == a \o b
  <2> HIDE DEF s
  <2> QED
    BY <1>1, <1>5 DEF s
<1>4. a \o b = c
  <2>1. \A i \in 1 .. 2 : (a \o b)[i] = c[i]
    BY <1>1, <1>3
  <2> QED
    BY <1>1, <1>3, <2>1
<1> QED
  BY <1>2, <1>4 DEF a, b, c

LEMMA OutputsAre ==
  ASSUME NEW r, r.snapshotEvent \in BOOLEAN, NEW m, NEW recs, recs = Outputs(r, m)
  PROVE  \/ AddsNothing(r, m, recs) \/ AddsTrade(r, m, recs)
         \/ AddsQuote(r, m, recs) \/ AddsBoth(r, m, recs)
<1>1. ASSUME NEW s, NEW d
      PROVE  /\ MakeOutput(s, r, d).source = s
             /\ MakeOutput(s, r, d).levels = Projection(r.levels)
             /\ MakeOutput(s, r, d).depth = d
             /\ \A side :
                  /\ [MakeOutput(s, r, d) EXCEPT !.side = side].source = s
                  /\ [MakeOutput(s, r, d) EXCEPT !.side = side].levels = Projection(r.levels)
                  /\ [MakeOutput(s, r, d) EXCEPT !.side = side].depth = d
                  /\ [MakeOutput(s, r, d) EXCEPT !.side = side].side = side
  BY DEF MakeOutput
<1>2. CASE r.snapshotEvent
  <2>1. CASE ~IsLast(m)
    <3>1. recs = <<>>
      BY <1>2, <2>1 DEF Outputs
    <3> QED
      BY <1>2, <2>1, <3>1 DEF AddsNothing
  <2>2. CASE IsLast(m) /\ r.levels = EmptyBook.levels
    <3>1. recs = <<>>
      BY <1>2, <2>2 DEF Outputs, SnapshotQuote
    <3> QED
      BY <1>2, <2>2, <3>1 DEF AddsNothing
  <2>3. CASE IsLast(m) /\ r.levels # EmptyBook.levels
    <3> DEFINE q == [MakeOutput(r.snapshotSource, r, 0) EXCEPT !.side = "None"]
    <3>1. recs = <<q>>
      BY <1>2, <2>3 DEF Outputs, SnapshotQuote
    <3>2. /\ q.source = r.snapshotSource /\ q.levels = Projection(r.levels)
          /\ q.depth = 0 /\ q.side = "None"
      BY <1>1
    <3> HIDE DEF q
    <3>3. QuoteFrom(r, q)
      BY <1>2, <2>3, <3>2 DEF QuoteFrom
    <3> QED
      BY <2>3, <3>1, <3>3 DEF AddsQuote
  <2> QED
    BY <2>1, <2>2, <2>3
<1>3. CASE ~r.snapshotEvent
  <2> DEFINE t == MakeOutput(m, r, 0)
             q == [MakeOutput(r.candidate.source, r, r.candidate.depth)
                     EXCEPT !.side = AffectedSide(r.candidate)]
             quotes == IsLast(m) /\ r.candidate # NoCandidate
  <2>1. m.action = "Trade" => TradeFrom(r, m, t)
    BY <1>1 DEF TradeFrom
  <2>2. quotes => QuoteFrom(r, q)
    <3>1. /\ q.source = r.candidate.source /\ q.levels = Projection(r.levels)
          /\ q.depth = r.candidate.depth /\ q.side = AffectedSide(r.candidate)
      BY <1>1
    <3> HIDE DEF q
    <3> QED
      BY <1>3, <3>1 DEF QuoteFrom
  <2>3. Outputs(r, m) = (IF m.action = "Trade" THEN <<t>> ELSE <<>>)
                        \o (IF quotes THEN <<q>> ELSE <<>>)
    <3>1. (IF IsLast(m) THEN Quote(r) ELSE <<>>) = IF quotes THEN <<q>> ELSE <<>>
      BY DEF Quote
    <3> QED
      BY <1>3, <3>1 DEF Outputs
  <2> HIDE DEF t, q
  <2>4. CASE m.action = "Trade" /\ quotes
    <3>1. recs = <<t, q>>
      BY <2>3, <2>4, OneAndOne
    <3> QED
      BY <1>3, <2>1, <2>2, <2>4, <3>1 DEF AddsBoth
  <2>5. CASE m.action = "Trade" /\ ~quotes
    <3>1. recs = <<t>>
      BY <2>3, <2>5, OneAndOne
    <3> QED
      BY <1>3, <2>1, <2>5, <3>1 DEF AddsTrade
  <2>6. CASE m.action # "Trade" /\ quotes
    <3>1. recs = <<q>>
      BY <2>3, <2>6
    <3> QED
      BY <2>2, <2>6, <3>1 DEF AddsQuote
  <2>7. CASE m.action # "Trade" /\ ~quotes
    <3>1. recs = <<>>
      BY <2>3, <2>7
    <3> QED
      BY <1>3, <2>7, <3>1 DEF AddsNothing
  <2> QED
    BY <2>4, <2>5, <2>6, <2>7
<1> QED
  BY <1>2, <1>3

\* A side is named if it alone was touched at the depth of the quote.
LEMMA AffectedIs ==
  ASSUME NEW c \in Candidate
  PROVE  /\ AffectedSide(c) \in Sides => c.sides = {AffectedSide(c)}
         /\ c.sides # {} =>
              c.sides = IF AffectedSide(c) = "None" THEN Sides ELSE {AffectedSide(c)}
<1>1. c.sides \in SUBSET {"Bid", "Ask"}
  BY DEF Candidate, Sides
<1>2. CASE c.sides \in {{"Bid"}, {"Ask"}}
  <2>1. AffectedSide(c) = CHOOSE s \in c.sides : TRUE
    BY <1>2 DEF AffectedSide
  <2>2. AffectedSide(c) \in c.sides
    BY <1>2, <2>1
  <2> QED
    BY <1>2, <2>2
<1>3. CASE c.sides \notin {{"Bid"}, {"Ask"}}
  <2>1. AffectedSide(c) = "None"
    BY <1>3 DEF AffectedSide
  <2>2. c.sides # {} => c.sides = {"Bid", "Ask"}
    BY <1>1, <1>3
  <2> QED
    BY <2>1, <2>2 DEF Sides
<1> QED
  BY <1>2, <1>3

-----------------------------------------------------------------------------
(* What the memory knows of a book between calls.                          *)

Known(k, base, touches, last) ==
  /\ ~k.snapshotEvent => Bounds(k.candidate, base, Projection(k.levels))
  /\ k.eventOpen => Touching(k.candidate, touches)
  /\ k.candidate # NoCandidate => k.candidate.source = last /\ ChangesBook(last)
  /\ k.snapshotEvent => k.snapshotSource = last

\* The levels a reader takes the book to have once m has left recs, and the
\* spots it takes to be touched.
NewBase(r, m, recs, base) ==
  IF recs # <<>> THEN Projection(r.levels)
  ELSE IF r.snapshotEvent /\ IsLast(m) THEN NothingShown ELSE base
KnownTouches(k, r, m, touches) ==
  IF r.snapshotEvent THEN {} ELSE NewTouches(k, m, touches)

\* Between snapshots the memory bounds the candidate, as EventReceived asks.
LEMMA KnownEvent ==
  ASSUME NEW free \in BOOLEAN, NEW k, BookOk(k, free), NEW m \in Messages,
         Admits(k, m, free), NEW r, r = Received(k, m, free), ~r.snapshotEvent,
         NEW base, NEW touches \in SUBSET Spots, NEW last, Known(k, base, touches, last)
  PROVE  /\ m.action # "Trade" => Bounds(r.candidate, base, Projection(r.levels))
         /\ m.action = "Trade" => Fresh(r.candidate)
         /\ r.candidate # NoCandidate /\ SidelessClears =>
              Bounded(r.candidate, base, Projection(r.levels))
         /\ NewTouches(k, m, touches) \in SUBSET Spots
         /\ Touching(r.candidate, NewTouches(k, m, touches))
         /\ r.candidate # NoCandidate =>
              /\ r.candidate.source = NewLast(k, m, last)
              /\ ChangesBook(NewLast(k, m, last))
<1>1. Follows(k, m, r)
  BY EventMessage
<1>2. /\ Bounds(k.candidate, base, Projection(k.levels))
      /\ k.eventOpen => Touching(k.candidate, touches)
      /\ k.candidate # NoCandidate => k.candidate.source = last /\ ChangesBook(last)
  BY <1>1 DEF Known, Follows
<1> QED
  BY <1>2, EventReceived

LEMMA KnownTouched ==
  ASSUME NEW free \in BOOLEAN, NEW k, BookOk(k, free), NEW m \in Messages,
         Admits(k, m, free), NEW r, r = Received(k, m, free), r.snapshotEvent \in BOOLEAN,
         NEW base, NEW touches \in SUBSET Spots, NEW last, Known(k, base, touches, last)
  PROVE  KnownTouches(k, r, m, touches) \in SUBSET Spots
<1>1. CASE r.snapshotEvent
  BY <1>1 DEF KnownTouches
<1>2. CASE ~r.snapshotEvent
  BY <1>2, KnownEvent DEF KnownTouches
<1> QED
  BY <1>1, <1>2

LEMMA KnownOpen ==
  ASSUME NEW free \in BOOLEAN, NEW k, BookOk(k, free), NEW m \in Messages,
         Admits(k, m, free), NEW r, r = Received(k, m, free), r.snapshotEvent \in BOOLEAN,
         NEW base, NEW touches \in SUBSET Spots, NEW last, Known(k, base, touches, last),
         ~IsLast(m), NEW recs, recs = Outputs(r, m)
  PROVE  Known(r, NewBase(r, m, recs, base), KnownTouches(k, r, m, touches),
               NewLast(k, m, last))
<1>1. CASE r.snapshotEvent
  <2>1. r.candidate = NoCandidate
    BY <1>1, SnapshotReceived
  <2>2. r.snapshotSource = NewLast(k, m, last)
    BY <1>1, SnapshotSourceIs DEF Known
  <2>3. Touching(r.candidate, {})
    BY <2>1 DEF Touching, Fresh
  <2> QED
    BY <1>1, <2>1, <2>2, <2>3 DEF Known, KnownTouches
<1>2. CASE ~r.snapshotEvent
  <2>1. /\ m.action # "Trade" => Bounds(r.candidate, base, Projection(r.levels))
        /\ m.action = "Trade" => Fresh(r.candidate)
        /\ Touching(r.candidate, NewTouches(k, m, touches))
        /\ r.candidate # NoCandidate =>
             /\ r.candidate.source = NewLast(k, m, last)
             /\ ChangesBook(NewLast(k, m, last))
    BY <1>2, KnownEvent
  <2>2. AddsNothing(r, m, recs) \/ AddsTrade(r, m, recs)
    BY <1>2, OutputsAre DEF AddsQuote, AddsBoth
  <2>3. Bounds(r.candidate, NewBase(r, m, recs, base), Projection(r.levels))
    <3>1. CASE AddsNothing(r, m, recs)
      <4>1. NewBase(r, m, recs, base) = base /\ m.action # "Trade"
        BY <1>2, <3>1 DEF AddsNothing, NewBase
      <4> QED
        BY <2>1, <4>1
    <3>2. CASE AddsTrade(r, m, recs)
      <4>1. recs # <<>> /\ m.action = "Trade"
        BY <3>2 DEF AddsTrade, TradeFrom
      <4>2. NewBase(r, m, recs, base) = Projection(r.levels)
        BY <4>1 DEF NewBase
      <4> QED
        BY <2>1, <4>1, <4>2 DEF Bounds
    <3> QED
      BY <2>2, <3>1, <3>2
  <2> QED
    BY <1>2, <2>1, <2>3 DEF Known, KnownTouches
<1> QED
  BY <1>1, <1>2

LEMMA KnownClosed ==
  ASSUME NEW free \in BOOLEAN, NEW k, BookOk(k, free), NEW m \in Messages,
         Admits(k, m, free), NEW r, r = Received(k, m, free), r.snapshotEvent \in BOOLEAN,
         NEW base, NEW touches \in SUBSET Spots, NEW last, Known(k, base, touches, last),
         IsLast(m), NEW recs, recs = Outputs(r, m),
         NEW closed, closed.levels = r.levels, closed.candidate = NoCandidate,
         ~closed.eventOpen, ~closed.snapshotEvent, NEW newTouches, NEW newLast
  PROVE  Known(closed, NewBase(r, m, recs, base), newTouches, newLast)
<1> DEFINE p == Projection(r.levels)
<1>1. p = NewBase(r, m, recs, base)
  <2>1. CASE recs # <<>>
    BY <2>1 DEF NewBase
  <2>2. CASE recs = <<>>
    <3>1. AddsNothing(r, m, recs)
      <4>1. \A t, q : <<t>> # <<>> /\ <<t, q>> # <<>>
        OBVIOUS
      <4>2. ~AddsTrade(r, m, recs) /\ ~AddsQuote(r, m, recs) /\ ~AddsBoth(r, m, recs)
        BY <2>2, <4>1 DEF AddsTrade, AddsQuote, AddsBoth
      <4> QED
        BY <4>2, OutputsAre
    <3>2. CASE r.snapshotEvent
      BY <2>2, <3>1, <3>2 DEF AddsNothing, NewBase, NothingShown
    <3>3. CASE ~r.snapshotEvent
      <4>1. m.action # "Trade" /\ r.candidate = NoCandidate
        BY <3>1, <3>3 DEF AddsNothing
      <4>2. Bounds(r.candidate, base, p)
        BY <3>3, <4>1, KnownEvent
      <4> QED
        BY <2>2, <3>3, <4>1, <4>2 DEF Bounds, Fresh, NewBase
    <3> QED
      BY <3>2, <3>3
  <2> QED
    BY <2>1, <2>2
<1> QED
  BY <1>1 DEF Known, Bounds, Fresh

-----------------------------------------------------------------------------
(* What a quote that is added says, by what the memory knew before.        *)

QuoteBounded(q, base) ==
  \A side \in Sides, d \in 0 .. Depth - 1 :
    (d < q.depth \/ (d = q.depth /\ q.side \in Sides \ {side}))
      => q.levels[side][d] = base[side][d]

QuoteTouching(q, touches) ==
  touches # {} =>
    /\ \A t \in touches : q.depth <= t[1]
    /\ SidesAt(touches, q.depth) = IF q.side = "None" THEN Sides ELSE {q.side}

LEMMA QuoteSays ==
  ASSUME NEW free \in BOOLEAN, NEW k, BookOk(k, free), NEW m \in Messages,
         Admits(k, m, free), NEW r, r = Received(k, m, free), r \in Book,
         NEW base, NEW touches \in SUBSET Spots, NEW last, Known(k, base, touches, last),
         NEW q, QuoteFrom(r, q)
  PROVE  /\ q.source = NewLast(k, m, last) /\ IsQuote(q)
         /\ SidelessClears => QuoteBounded(q, base)
         /\ QuoteTouching(q, KnownTouches(k, r, m, touches))
<1>0. r.candidate \in Candidate \cup {NoCandidate} /\ r.snapshotEvent \in BOOLEAN
  BY BookTyped
<1>1. CASE r.snapshotEvent
  <2>1. q.source = NewLast(k, m, last)
    BY <1>1, SnapshotSourceIs DEF Known, QuoteFrom
  <2>2. IsQuote(q)
    <3>1. SnapshotOk(r, free)
      BY <1>1, SnapshotReceived
    <3> QED
      BY <1>1, <3>1 DEF SnapshotOk, IsEmptyBook, QuoteFrom, IsQuote
  <2>3. QuoteBounded(q, base)
    BY <1>1, DepthAssumption DEF QuoteFrom, QuoteBounded, Sides
  <2> QED
    BY <1>1, <2>1, <2>2, <2>3 DEF QuoteTouching, KnownTouches
<1>2. CASE ~r.snapshotEvent
  <2> DEFINE c == r.candidate
             t == NewTouches(k, m, touches)
  <2>1. /\ c \in Candidate /\ c # NoCandidate /\ q.source = c.source /\ q.depth = c.depth
        /\ q.side = AffectedSide(c) /\ q.levels = Projection(r.levels)
    BY <1>0, <1>2 DEF QuoteFrom
  <2>2. /\ SidelessClears => Bounded(c, base, Projection(r.levels))
        /\ Touching(c, t)
        /\ c.source = NewLast(k, m, last) /\ ChangesBook(NewLast(k, m, last))
    BY <1>2, <2>1, KnownEvent
  <2> HIDE DEF c, t
  <2>3. IsQuote(q)
    BY <2>1, <2>2 DEF IsQuote, ChangesBook, BookActions
  <2>4. c.depth \in 0 .. Depth - 1
    BY <2>1 DEF Candidate
  <2>5. \A side \in Sides : q.side \in Sides \ {side} => side \notin c.sides
    BY <2>1, AffectedIs
  <2>6. SidelessClears => QuoteBounded(q, base)
    BY <2>1, <2>2, <2>5 DEF QuoteBounded, Bounded
  <2>7. QuoteTouching(q, t)
    <3> SUFFICES ASSUME t # {} PROVE QuoteTouching(q, t)
      BY DEF QuoteTouching
    <3>1. /\ \A u \in t : c.depth <= u[1]
          /\ SidesAt(t, c.depth) = c.sides /\ c.sides # {}
      BY <2>2 DEF Touching
    <3>2. c.sides = IF q.side = "None" THEN Sides ELSE {q.side}
      BY <2>1, <3>1, AffectedIs
    <3> QED
      BY <2>1, <3>1, <3>2 DEF QuoteTouching
  <2> QED
    BY <1>2, <2>1, <2>2, <2>3, <2>6, <2>7 DEF KnownTouches, t
<1> QED
  BY <1>0, <1>1, <1>2

-----------------------------------------------------------------------------
(* The invariant.                                                          *)

StreamOk(s) ==
  \A i \in DOMAIN s :
    LET e == s[i]
    IN /\ IsQuote(e.rec) => e.last /\ e.ready
       /\ e.last => e.ready
       /\ ~IsQuote(e.rec) /\ e.last => IsLast(e.rec.source)
       /\ ~IsQuote(e.rec) /\ IsLast(e.rec.source) /\ ~e.last =>
            /\ i < Len(s) /\ s[i + 1].book = e.book
            /\ IsQuote(s[i + 1].rec)

MemoryTyped ==
  /\ shown = [b \in Books |-> shown[b]] /\ quiet \in [Books -> BOOLEAN]
  /\ lastChange = [b \in Books |-> lastChange[b]]
  /\ touched \in [Books -> SUBSET Spots]

BookKnown(b) == Known(books[b], Base(b), touched[b], lastChange[b])

HInv ==
  /\ CInv /\ MemoryTyped
  /\ ~finished => \A b \in Books : BookKnown(b)
  /\ StreamOk(queue)

\* The four actions in which Process goes through.
Handled(m) ==
  /\ SnapshotRecord(m) \/ SnapshotBoundary(m) \/ EventRecord(m) \/ EventBoundary(m)
  /\ Remember(m)

\* The names of what such a step handles: of its book b, the state k it finds,
\* the state r it makes of it, and the records it adds.
InHand(b, k, free, m, r, recs) ==
  /\ b = m.book /\ k = books[b] /\ free = Unpublished(b)
  /\ r = After(m) /\ recs = Outputs(r, m)
  /\ b \in Books /\ free \in BOOLEAN /\ BookOk(k, free) /\ Admits(k, m, free)
  /\ r = Received(k, m, free) /\ r \in Book /\ r.snapshotEvent \in BOOLEAN
  /\ recs \in Seq(Record)
  /\ Known(k, Base(b), touched[b], lastChange[b]) /\ touched[b] \in SUBSET Spots

LEMMA Handling ==
  ASSUME HInv, NEW m \in Messages, Handled(m)
  PROVE  \E b, k, free, r, recs : InHand(b, k, free, m, r, recs)
<1> DEFINE b == m.book
           k == books[b]
           free == Unpublished(b)
           r == After(m)
           recs == Outputs(r, m)
<1>1. Processes(m) /\ ~finished /\ Admitted(m)
  BY DEF Handled, SnapshotRecord, SnapshotBoundary, EventRecord, EventBoundary,
     Processes, Running
<1>2. /\ b \in Books /\ free \in BOOLEAN /\ BookOk(k, free) /\ Admits(k, m, free)
      /\ r = Received(k, m, free)
  BY <1>1, MessageTyped DEF HInv, CInv, Admitted, After, Unpublished
<1>3. Known(k, Base(b), touched[b], lastChange[b]) /\ touched[b] \in SUBSET Spots
  BY <1>1, <1>2 DEF HInv, MemoryTyped, BookKnown
<1>4. r \in Book /\ recs \in Seq(Record)
  <2> HIDE DEF r, k, free, b
  <2> QED
    BY <1>2, ReceivedKeeps
<1>5. r.snapshotEvent \in BOOLEAN
  <2> HIDE DEF r
  <2> QED
    BY <1>4, BookTyped
<1>6. InHand(b, k, free, m, r, recs)
  BY <1>2, <1>3, <1>4, <1>5 DEF InHand
<1> QED
  BY <1>6

\* How the step leaves its book and the queue.
LEMMA HandledHow ==
  ASSUME NEW m \in Messages, Handled(m), NEW b, NEW k, NEW free, NEW r, NEW recs,
         InHand(b, k, free, m, r, recs)
  PROVE  /\ ~IsLast(m) => Q!Buffer(b, recs) /\ books' = [books EXCEPT ![b] = r]
         /\ IsLast(m) =>
              /\ Q!BufferAndComplete(b, recs, recs # <<>>)
              /\ books' = [books EXCEPT ![b] = IF r.snapshotEvent THEN SnapshotClosed(r)
                                               ELSE EventClosed(r)]
         /\ finished' = finished
<1>1. CASE SnapshotRecord(m) \/ EventRecord(m)
  BY <1>1 DEF InHand, SnapshotRecord, EventRecord, KeepsOpen, Processes
<1>2. CASE SnapshotBoundary(m) \/ EventBoundary(m)
  BY <1>2 DEF InHand, SnapshotBoundary, EventBoundary, Completes, Processes
<1> QED
  BY <1>1, <1>2 DEF Handled

-----------------------------------------------------------------------------
(* What the step does to the memory.                                       *)

LEMMA NewestLevels ==
  ASSUME NEW r, r.snapshotEvent \in BOOLEAN, NEW m, NEW recs, recs = Outputs(r, m),
         recs # <<>>
  PROVE  recs[Len(recs)].levels = Projection(r.levels)
<1>1. CASE AddsNothing(r, m, recs)
  BY <1>1 DEF AddsNothing
<1>2. CASE AddsTrade(r, m, recs)
  BY <1>2 DEF AddsTrade, TradeFrom
<1>3. CASE AddsQuote(r, m, recs)
  BY <1>3 DEF AddsQuote, QuoteFrom
<1>4. CASE AddsBoth(r, m, recs)
  BY <1>4 DEF AddsBoth, QuoteFrom
<1> QED
  BY <1>1, <1>2, <1>3, <1>4, OutputsAre

LEMMA Remembered ==
  ASSUME HInv, NEW m \in Messages, Handled(m), NEW b, NEW k, NEW free, NEW r, NEW recs,
         InHand(b, k, free, m, r, recs)
  PROVE  /\ MemoryTyped'
         /\ Base(b)' = NewBase(r, m, recs, Base(b))
         /\ touched'[b] = KnownTouches(k, r, m, touched[b])
         /\ lastChange'[b] = NewLast(k, m, lastChange[b])
         /\ \A c \in Books : c # b =>
              /\ shown'[c] = shown[c] /\ quiet'[c] = quiet[c]
              /\ touched'[c] = touched[c] /\ lastChange'[c] = lastChange[c]
<1> DEFINE emptied == r.snapshotEvent /\ IsLast(m) /\ recs = <<>>
           spots == IF r.snapshotEvent \/ m.action = "Trade" THEN {}
                    ELSE Touches(m) \cup (IF ~k.eventOpen THEN {} ELSE touched[b])
<1>1. /\ b = m.book /\ b \in Books /\ k = books[b] /\ r = After(m) /\ recs = Outputs(r, m)
      /\ r.snapshotEvent \in BOOLEAN
  BY DEF InHand
<1>2. /\ shown' = IF recs = <<>> THEN shown
                  ELSE [shown EXCEPT ![b] = recs[Len(recs)].levels]
      /\ quiet' = [quiet EXCEPT ![b] = recs = <<>> /\ (quiet[b] \/ emptied)]
      /\ lastChange' = [lastChange EXCEPT ![b] = NewLast(k, m, lastChange[b])]
      /\ touched' = [touched EXCEPT ![b] = spots]
  <2>1. Remember(m)
    BY DEF Handled
  <2>2. lastChange' = [lastChange EXCEPT ![b] = NewLast(k, m, lastChange[b])]
    BY <1>1, <2>1 DEF Remember, NewLast
  <2>3. quiet' = [quiet EXCEPT ![b] = recs = <<>> /\ (quiet[b] \/ emptied)]
    BY <1>1, <2>1 DEF Remember
  <2>4. touched' = [touched EXCEPT ![b] = spots]
    BY <1>1, <2>1 DEF Remember
  <2> QED
    BY <1>1, <2>1, <2>2, <2>3, <2>4 DEF Remember
<1>3. spots = KnownTouches(k, r, m, touched[b])
  <2>1. Touches(m) = TouchedBy(k, m)
    BY <1>1 DEF Touches, TouchedBy, ChangeDepth
  <2> QED
    BY <2>1 DEF KnownTouches, NewTouches
<1>4. spots \in SUBSET Spots
  BY <1>3, KnownTouched DEF InHand
<1> HIDE DEF spots, emptied
<1>5. MemoryTyped
  BY DEF HInv
<1>6. MemoryTyped'
  <2>1. (recs = <<>> /\ (quiet[b] \/ emptied)) \in BOOLEAN
    OBVIOUS
  <2>2. quiet' \in [Books -> BOOLEAN] /\ touched' \in [Books -> SUBSET Spots]
    BY <1>1, <1>2, <1>4, <1>5, <2>1 DEF MemoryTyped
  <2>3. shown' = [c \in Books |-> shown'[c]]
    BY <1>2, <1>5 DEF MemoryTyped
  <2>4. lastChange' = [c \in Books |-> lastChange'[c]]
    BY <1>2, <1>5 DEF MemoryTyped
  <2> QED
    BY <2>2, <2>3, <2>4 DEF MemoryTyped
<1>7. touched'[b] = spots /\ lastChange'[b] = NewLast(k, m, lastChange[b])
  <2>1. touched'[b] = spots
    BY <1>1, <1>2, <1>5 DEF MemoryTyped
  <2>2. lastChange'[b] = NewLast(k, m, lastChange[b])
    BY <1>1, <1>2, <1>5 DEF MemoryTyped
  <2> QED
    BY <2>1, <2>2
<1>8. ASSUME NEW c \in Books, c # b
      PROVE  /\ shown'[c] = shown[c] /\ quiet'[c] = quiet[c]
             /\ touched'[c] = touched[c] /\ lastChange'[c] = lastChange[c]
  <2>1. shown'[c] = shown[c]
    BY <1>2, <1>5, <1>8 DEF MemoryTyped
  <2>2. quiet'[c] = quiet[c] /\ touched'[c] = touched[c]
    BY <1>2, <1>5, <1>8 DEF MemoryTyped
  <2>3. lastChange'[c] = lastChange[c]
    BY <1>2, <1>5, <1>8 DEF MemoryTyped
  <2> QED
    BY <2>1, <2>2, <2>3
<1>9. Base(b)' = NewBase(r, m, recs, Base(b))
  <2>1. quiet'[b] = (recs = <<>> /\ (quiet[b] \/ emptied))
    BY <1>1, <1>2, <1>5 DEF MemoryTyped
  <2>2. CASE recs # <<>>
    <3>1. recs[Len(recs)].levels = Projection(r.levels)
      BY <1>1, <2>2, NewestLevels
    <3>2. shown'[b] = Projection(r.levels)
      BY <1>1, <1>2, <1>5, <2>2, <3>1 DEF MemoryTyped
    <3> QED
      BY <2>1, <2>2, <3>2 DEF Base, NewBase
  <2>3. CASE recs = <<>>
    <3>1. shown'[b] = shown[b]
      BY <1>2, <2>3
    <3> QED
      BY <2>1, <2>3, <3>1 DEF Base, NewBase, emptied
  <2> QED
    BY <2>2, <2>3
<1> QED
  BY <1>3, <1>6, <1>7, <1>8, <1>9

LEMMA HandledKnows ==
  ASSUME HInv, NEW m \in Messages, Handled(m), NEW c \in Books
  PROVE  BookKnown(c)'
<1>1. PICK b, k, free, r, recs : InHand(b, k, free, m, r, recs)
  BY Handling
<1>2. /\ ~IsLast(m) => books' = [books EXCEPT ![b] = r]
      /\ IsLast(m) => books' = [books EXCEPT ![b] =
                         IF r.snapshotEvent THEN SnapshotClosed(r) ELSE EventClosed(r)]
  BY <1>1, HandledHow
<1>3. /\ Base(b)' = NewBase(r, m, recs, Base(b))
      /\ touched'[b] = KnownTouches(k, r, m, touched[b])
      /\ lastChange'[b] = NewLast(k, m, lastChange[b])
  BY <1>1, Remembered
<1>4. /\ free \in BOOLEAN /\ BookOk(k, free) /\ Admits(k, m, free)
      /\ r = Received(k, m, free) /\ r \in Book /\ r.snapshotEvent \in BOOLEAN
      /\ recs = Outputs(r, m) /\ b \in Books
      /\ Known(k, Base(b), touched[b], lastChange[b]) /\ touched[b] \in SUBSET Spots
  BY <1>1 DEF InHand
<1>5. books \in [Books -> Book] /\ ~finished
  BY DEF HInv, CInv, Handled, SnapshotRecord, SnapshotBoundary, EventRecord,
     EventBoundary, Processes, Running
<1>6. CASE c # b
  <2>1. books'[c] = books[c]
    BY <1>2, <1>5, <1>6
  <2>2. /\ shown'[c] = shown[c] /\ quiet'[c] = quiet[c]
        /\ touched'[c] = touched[c] /\ lastChange'[c] = lastChange[c]
    BY <1>1, <1>6, Remembered
  <2>3. BookKnown(c)
    BY <1>5 DEF HInv
  <2> QED
    BY <2>1, <2>2, <2>3 DEF BookKnown, Base
<1>7. CASE c = b /\ ~IsLast(m)
  <2>1. books'[b] = r
    BY <1>2, <1>4, <1>5, <1>7
  <2>2. Known(r, NewBase(r, m, recs, Base(b)), KnownTouches(k, r, m, touched[b]),
              NewLast(k, m, lastChange[b]))
    BY <1>4, <1>7, KnownOpen
  <2> QED
    BY <1>3, <1>7, <2>1, <2>2 DEF BookKnown
<1>8. CASE c = b /\ IsLast(m)
  <2> DEFINE closed == IF r.snapshotEvent THEN SnapshotClosed(r) ELSE EventClosed(r)
  <2>1. books'[b] = closed
    BY <1>2, <1>4, <1>5, <1>8
  <2>2. r.snapshotEvent => r.candidate = NoCandidate
    BY <1>4, SnapshotReceived
  <2>3. /\ closed.levels = r.levels /\ closed.candidate = NoCandidate
        /\ ~closed.eventOpen /\ ~closed.snapshotEvent
    <3>1. CASE r.snapshotEvent
      BY <1>4, <2>2, <3>1 DEF SnapshotClosed, Book
    <3>2. CASE ~r.snapshotEvent
      BY <1>4, <3>2 DEF EventClosed, Book
    <3> QED
      BY <3>1, <3>2
  <2> HIDE DEF closed
  <2>4. Known(closed, NewBase(r, m, recs, Base(b)), touched'[b], lastChange'[b])
    BY <1>4, <1>8, <2>3, KnownClosed
  <2> QED
    BY <1>3, <1>8, <2>1, <2>4 DEF BookKnown
<1> QED
  BY <1>6, <1>7, <1>8

-----------------------------------------------------------------------------
(* What the step does to the stream.                                       *)

\* What was queued keeps its place, its record and its flag; behind it come
\* the step's records.
StreamGrows(s, b, recs, completes) ==
  /\ s \in Seq(QP!Entry) /\ Len(s) = Len(queue) + Len(recs)
  /\ \A i \in 1 .. Len(queue) :
       /\ s[i].book = queue[i].book /\ s[i].rec = queue[i].rec
       /\ s[i].last = queue[i].last /\ (queue[i].ready => s[i].ready)
  /\ \A i \in 1 .. Len(recs) :
       s[Len(queue) + i] = [book |-> b, rec |-> recs[i],
                            last |-> completes /\ i = Len(recs), ready |-> completes]

LEMMA Streams ==
  ASSUME HInv, NEW m \in Messages, Handled(m), NEW b, NEW k, NEW free, NEW r, NEW recs,
         InHand(b, k, free, m, r, recs)
  PROVE  StreamGrows(Stream', b, recs, IsLast(m))
<1>1. b \in Books /\ recs \in Seq(Record) /\ QP!QInv
  BY DEF InHand, HInv, CInv
<1>2. /\ ~IsLast(m) => Q!Buffer(b, recs)
      /\ IsLast(m) => Q!BufferAndComplete(b, recs, recs # <<>>)
  BY HandledHow
<1>3. Stream' = emitted' \o queue'
  BY DEF Stream
<1>4. IsLast(m) \in BOOLEAN
  BY DEF IsLast
<1>5. CASE ~IsLast(m)
  <2>1. QP!Buffer(b, recs)
    BY <1>2, <1>5, SameQueue
  <2> DEFINE s == emitted' \o queue'
  <2>2. /\ s \in Seq(QP!Entry) /\ Len(s) = Len(queue) + Len(recs)
        /\ \A i \in 1 .. Len(queue) : s[i] = queue[i]
        /\ \A i \in 1 .. Len(recs) :
             s[Len(queue) + i] =
               [book |-> b, rec |-> recs[i], last |-> FALSE, ready |-> FALSE]
    BY <1>1, <2>1, QP!BufferStream, BufferAssumption
  <2> HIDE DEF s
  <2>3. IsLast(m) = FALSE
    BY <1>4, <1>5
  <2>4. StreamGrows(s, b, recs, FALSE)
    BY <2>2 DEF StreamGrows
  <2> QED
    BY <1>3, <2>3, <2>4 DEF s
<1>6. CASE IsLast(m)
  <2> DEFINE mark == recs # <<>>
  <2>1. QP!BufferAndComplete(b, recs, mark) /\ mark \in BOOLEAN /\ (mark => recs # <<>>)
    BY <1>2, <1>6, SameQueue
  <2> DEFINE s == emitted' \o queue'
  <2> HIDE DEF mark
  <2>2. /\ s \in Seq(QP!Entry) /\ Len(s) = Len(queue) + Len(recs)
        /\ \A i \in 1 .. Len(queue) :
             /\ s[i].book = queue[i].book /\ s[i].rec = queue[i].rec
             /\ s[i].last = queue[i].last /\ (queue[i].ready => s[i].ready)
        /\ \A i \in 1 .. Len(recs) :
             s[Len(queue) + i] = [book |-> b, rec |-> recs[i],
                                  last |-> mark /\ i = Len(recs), ready |-> TRUE]
    BY <1>1, <2>1, QP!CompleteStream, BufferAssumption
  <2> HIDE DEF s
  <2>3. IsLast(m) = TRUE
    BY <1>4, <1>6
  <2>4. ASSUME NEW i \in 1 .. Len(recs)
        PROVE  s[Len(queue) + i] = [book |-> b, rec |-> recs[i],
                                    last |-> TRUE /\ i = Len(recs), ready |-> TRUE]
    <3>1. mark = TRUE
      <4>1. recs # <<>>
        BY <2>4
      <4> QED
        BY <4>1 DEF mark
    <3> QED
      BY <2>2, <3>1
  <2>5. StreamGrows(s, b, recs, TRUE)
    BY <2>2, <2>4 DEF StreamGrows
  <2> QED
    BY <1>3, <2>3, <2>5 DEF s
<1> QED
  BY <1>5, <1>6

\* What a step adds is a trade of its message, or the quote of its boundary.
LEMMA RecordIs ==
  ASSUME NEW r, r.snapshotEvent \in BOOLEAN, NEW m, NEW recs, recs = Outputs(r, m),
         NEW i \in 1 .. Len(recs)
  PROVE  \/ /\ TradeFrom(r, m, recs[i]) /\ ~r.snapshotEvent
            /\ \/ i = Len(recs)
               \/ IsLast(m) /\ i + 1 = Len(recs) /\ QuoteFrom(r, recs[i + 1])
         \/ QuoteFrom(r, recs[i]) /\ IsLast(m) /\ i = Len(recs)
<1>1. CASE AddsNothing(r, m, recs)
  BY <1>1 DEF AddsNothing
<1>2. CASE AddsTrade(r, m, recs)
  <2>1. PICK t : recs = <<t>> /\ TradeFrom(r, m, t)
    BY <1>2 DEF AddsTrade
  <2>2. i = 1 /\ Len(recs) = 1 /\ recs[1] = t
    BY <2>1
  <2> QED
    BY <1>2, <2>1, <2>2 DEF AddsTrade
<1>3. CASE AddsQuote(r, m, recs)
  <2>1. PICK q : recs = <<q>> /\ QuoteFrom(r, q)
    BY <1>3 DEF AddsQuote
  <2>2. i = 1 /\ Len(recs) = 1 /\ recs[1] = q
    BY <2>1
  <2> QED
    BY <1>3, <2>1, <2>2 DEF AddsQuote
<1>4. CASE AddsBoth(r, m, recs)
  <2>1. PICK t, q : recs = <<t, q>> /\ TradeFrom(r, m, t) /\ QuoteFrom(r, q)
    BY <1>4 DEF AddsBoth
  <2>2. i \in {1, 2} /\ Len(recs) = 2 /\ recs[1] = t /\ recs[2] = q
    BY <2>1
  <2>3. CASE i = 1
    BY <1>4, <2>1, <2>2, <2>3 DEF AddsBoth
  <2>4. CASE i = 2
    BY <1>4, <2>1, <2>2, <2>4 DEF AddsBoth
  <2> QED
    BY <2>2, <2>3, <2>4
<1> QED
  BY <1>1, <1>2, <1>3, <1>4, OutputsAre

LEMMA TradeIsNoQuote ==
  ASSUME NEW r, NEW m, NEW t, TradeFrom(r, m, t)
  PROVE  ~IsQuote(t) /\ t.source = m
BY DEF TradeFrom, IsQuote

LEMMA HandledStream ==
  ASSUME HInv, NEW m \in Messages, Handled(m)
  PROVE  StreamOk(Stream')
<1>1. PICK b, k, free, r, recs : InHand(b, k, free, m, r, recs)
  BY Handling
<1> DEFINE n == Len(queue)
<1> SUFFICES ASSUME NEW s, s = Stream' PROVE StreamOk(s)
  OBVIOUS
<1>2. StreamGrows(s, b, recs, IsLast(m))
  BY <1>1, Streams
<1>3. /\ queue \in Seq(QP!Entry) /\ n \in Nat /\ DOMAIN queue = 1 .. n
      /\ StreamOk(queue)
  BY QueueTyped DEF HInv, CInv
<1>4. /\ s \in Seq(QP!Entry) /\ Len(s) = n + Len(recs) /\ Len(recs) \in Nat
      /\ DOMAIN s = 1 .. Len(s)
  <2>1. s \in Seq(QP!Entry) /\ Len(s) = n + Len(recs)
    BY <1>2 DEF StreamGrows
  <2>2. recs \in Seq(Record)
    BY <1>1 DEF InHand
  <2> QED
    BY <2>1, <2>2
<1>5. ASSUME NEW q, QuoteFrom(r, q) PROVE IsQuote(q)
  BY <1>1, <1>5, QuoteSays DEF InHand
<1>6. /\ r.snapshotEvent \in BOOLEAN /\ recs = Outputs(r, m) /\ IsLast(m) \in BOOLEAN
  BY <1>1 DEF InHand, IsLast
<1>7. ASSUME NEW i \in DOMAIN s
      PROVE  /\ IsQuote(s[i].rec) => s[i].last /\ s[i].ready
             /\ s[i].last => s[i].ready
             /\ ~IsQuote(s[i].rec) /\ s[i].last => IsLast(s[i].rec.source)
             /\ ~IsQuote(s[i].rec) /\ IsLast(s[i].rec.source) /\ ~s[i].last =>
                  /\ i < Len(s) /\ s[i + 1].book = s[i].book
                  /\ IsQuote(s[i + 1].rec)
  <2>1. CASE i <= n
    <3>1. i \in 1 .. n /\ i \in DOMAIN queue
      BY <1>3, <1>4, <2>1
    <3>2. /\ s[i].book = queue[i].book /\ s[i].rec = queue[i].rec
          /\ s[i].last = queue[i].last /\ (queue[i].ready => s[i].ready)
      BY <1>2, <3>1 DEF StreamGrows
    <3>3. /\ IsQuote(queue[i].rec) => queue[i].last /\ queue[i].ready
          /\ queue[i].last => queue[i].ready
          /\ ~IsQuote(queue[i].rec) /\ queue[i].last => IsLast(queue[i].rec.source)
          /\ ~IsQuote(queue[i].rec) /\ IsLast(queue[i].rec.source) /\ ~queue[i].last =>
               /\ i < n /\ queue[i + 1].book = queue[i].book
               /\ IsQuote(queue[i + 1].rec)
      BY <1>3, <3>1 DEF StreamOk
    <3>4. ASSUME i < n
          PROVE  i < Len(s) /\ s[i + 1].book = queue[i + 1].book
                 /\ s[i + 1].rec = queue[i + 1].rec
      <4> DEFINE j == i + 1
      <4>1. j \in 1 .. n /\ i < Len(s)
        BY <1>3, <1>4, <3>1, <3>4
      <4> HIDE DEF j
      <4>2. s[j].book = queue[j].book /\ s[j].rec = queue[j].rec
        BY <1>2, <4>1 DEF StreamGrows
      <4> QED
        BY <4>1, <4>2 DEF j
    <3> QED
      BY <3>2, <3>3, <3>4
  <2>2. CASE ~(i <= n)
    <3> DEFINE j == i - n
    <3>1. j \in 1 .. Len(recs) /\ n + j = i
      BY <1>3, <1>4, <2>2
    <3> HIDE DEF j
    <3>2. ASSUME NEW h \in 1 .. Len(recs)
          PROVE  s[n + h] = [book |-> b, rec |-> recs[h],
                             last |-> IsLast(m) /\ h = Len(recs), ready |-> IsLast(m)]
      BY <1>2 DEF StreamGrows
    <3>3. /\ s[i].book = b /\ s[i].rec = recs[j]
          /\ s[i].last <=> IsLast(m) /\ j = Len(recs)
          /\ s[i].ready <=> IsLast(m)
      <4>1. s[n + j] = [book |-> b, rec |-> recs[j],
                        last |-> IsLast(m) /\ j = Len(recs), ready |-> IsLast(m)]
        BY <3>1, <3>2
      <4>2. s[i] = s[n + j]
        BY <3>1
      <4> HIDE DEF n
      <4>3. s[i].book = b /\ s[i].rec = recs[j]
        BY <4>1, <4>2
      <4>4. s[i].last = (IsLast(m) /\ j = Len(recs)) /\ s[i].ready = IsLast(m)
        BY <4>1, <4>2
      <4> QED
        BY <4>3, <4>4
    <3>4. CASE QuoteFrom(r, recs[j]) /\ IsLast(m) /\ j = Len(recs)
      BY <1>5, <3>3, <3>4
    <3>5. CASE TradeFrom(r, m, recs[j]) /\ j = Len(recs)
      BY <3>3, <3>5, TradeIsNoQuote
    <3>6. CASE /\ TradeFrom(r, m, recs[j]) /\ IsLast(m)
               /\ j + 1 = Len(recs) /\ QuoteFrom(r, recs[j + 1])
      <4>1. ~IsQuote(s[i].rec) /\ ~s[i].last
        BY <1>4, <3>1, <3>3, <3>6, TradeIsNoQuote
      <4> DEFINE h == j + 1
      <4>2. h \in 1 .. Len(recs) /\ n + h = i + 1 /\ i < Len(s)
        BY <1>3, <1>4, <3>1, <3>6
      <4> HIDE DEF h
      <4>3. s[n + h].book = b /\ s[n + h].rec = recs[h]
        <5>1. s[n + h] = [book |-> b, rec |-> recs[h],
                          last |-> IsLast(m) /\ h = Len(recs), ready |-> IsLast(m)]
          BY <3>2, <4>2
        <5> QED
          BY <5>1
      <4>4. IsQuote(recs[h])
        BY <1>5, <3>6 DEF h
      <4> QED
        BY <3>3, <4>1, <4>2, <4>3, <4>4
    <3>7. \/ /\ TradeFrom(r, m, recs[j]) /\ ~r.snapshotEvent
             /\ \/ j = Len(recs)
                \/ IsLast(m) /\ j + 1 = Len(recs) /\ QuoteFrom(r, recs[j + 1])
          \/ QuoteFrom(r, recs[j]) /\ IsLast(m) /\ j = Len(recs)
      BY <1>6, <3>1, RecordIs
    <3> QED
      BY <3>4, <3>5, <3>6, <3>7
  <2> QED
    BY <2>1, <2>2
<1> QED
  BY <1>7 DEF StreamOk

\* What waits is the end of the stream.
LEMMA EndOk ==
  ASSUME NEW e \in Seq(QP!Entry), NEW q \in Seq(QP!Entry), StreamOk(e \o q)
  PROVE  StreamOk(q)
<1> DEFINE n == Len(e)
<1> SUFFICES ASSUME NEW s, s = e \o q PROVE StreamOk(q)
  OBVIOUS
<1>1. /\ s \in Seq(QP!Entry) /\ Len(s) = n + Len(q)
      /\ \A i \in 1 .. n + Len(q) : s[i] = IF i <= n THEN e[i] ELSE q[i - n]
      /\ n \in Nat /\ Len(q) \in Nat /\ DOMAIN s = 1 .. Len(s) /\ DOMAIN q = 1 .. Len(q)
  BY ConcatProperties
<1> HIDE DEF n
<1>2. ASSUME NEW i \in 1 .. Len(q) PROVE n + i \in DOMAIN s /\ s[n + i] = q[i]
  <2> DEFINE j == n + i
  <2>1. j \in 1 .. n + Len(q) /\ ~(j <= n) /\ j - n = i
    BY <1>1
  <2> HIDE DEF j
  <2>2. s[j] = q[j - n] /\ j \in DOMAIN s
    BY <1>1, <2>1
  <2> QED
    BY <2>1, <2>2 DEF j
<1>3. ASSUME NEW i \in DOMAIN q
      PROVE  /\ IsQuote(q[i].rec) => q[i].last /\ q[i].ready
             /\ q[i].last => q[i].ready
             /\ ~IsQuote(q[i].rec) /\ q[i].last => IsLast(q[i].rec.source)
             /\ ~IsQuote(q[i].rec) /\ IsLast(q[i].rec.source) /\ ~q[i].last =>
                  /\ i < Len(q) /\ q[i + 1].book = q[i].book
                  /\ IsQuote(q[i + 1].rec)
  <2> DEFINE j == n + i
  <2>1. i \in 1 .. Len(q) /\ j \in DOMAIN s /\ s[j] = q[i]
    BY <1>1, <1>2
  <2>2. /\ IsQuote(s[j].rec) => s[j].last /\ s[j].ready
        /\ s[j].last => s[j].ready
        /\ ~IsQuote(s[j].rec) /\ s[j].last => IsLast(s[j].rec.source)
        /\ ~IsQuote(s[j].rec) /\ IsLast(s[j].rec.source) /\ ~s[j].last =>
             /\ j < Len(s) /\ s[j + 1].book = s[j].book
             /\ IsQuote(s[j + 1].rec)
    <3> HIDE DEF j
    <3> QED
      BY <2>1 DEF StreamOk
  <2>3. j < Len(s) => i < Len(q) /\ s[j + 1] = q[i + 1]
    <3> SUFFICES ASSUME j < Len(s) PROVE i < Len(q) /\ s[j + 1] = q[i + 1]
      OBVIOUS
    <3> DEFINE h == i + 1
    <3>0. /\ n \in Nat /\ Len(q) \in Nat /\ Len(s) = n + Len(q) /\ i \in 1 .. Len(q)
          /\ n + i < Len(s)
      BY <1>1, <2>1
    <3>1. i < Len(q) /\ h \in 1 .. Len(q) /\ j + 1 = n + h
      BY ONLY <3>0
    <3> HIDE DEF j, h
    <3>2. s[n + h] = q[h]
      BY <1>2, <3>1
    <3> QED
      BY <3>1, <3>2 DEF h
  <2> HIDE DEF j
  <2> QED
    BY <2>1, <2>2, <2>3
<1> QED
  BY <1>3 DEF StreamOk

-----------------------------------------------------------------------------
(* The invariant holds.                                                    *)

\* The memory only watches: each step is one of Converter.
LEMMA Watches == [HNext]_hvars => [Next]_vars
<1>1. HNext => Next
  BY DEF HNext, Next, Process
<1>2. UNCHANGED hvars => UNCHANGED vars
  BY DEF hvars
<1> QED
  BY <1>1, <1>2

LEMMA InitHInv == HInit => HInv
<1> SUFFICES ASSUME HInit PROVE HInv
  OBVIOUS
<1>1. CInv
  BY InitCInv DEF HInit
<1>2. MemoryTyped
  BY DEF HInit, MemoryTyped
<1>3. StreamOk(queue)
  BY DEF HInit, Init, Q!Init, StreamOk
<1>4. ASSUME NEW b \in Books PROVE BookKnown(b)
  <2>1. Base(b) = NothingShown /\ books[b] = NewBook
    BY DEF HInit, Init, Base
  <2>2. /\ NewBook.levels = EmptyBook.levels /\ NewBook.candidate = NoCandidate
        /\ ~NewBook.eventOpen /\ ~NewBook.snapshotEvent
    BY DEF NewBook
  <2> QED
    BY <2>1, <2>2 DEF BookKnown, Known, Bounds, Fresh, NothingShown
<1> QED
  BY <1>1, <1>2, <1>3, <1>4 DEF HInv

LEMMA MemoryStays ==
  ASSUME HInv, CInv', UNCHANGED <<books, queue, finished, shown, quiet, lastChange, touched>>
  PROVE  HInv'
<1>1. MemoryTyped'
  BY DEF HInv, MemoryTyped
<1>2. StreamOk(queue')
  BY DEF HInv
<1>3. ASSUME ~finished', NEW b \in Books PROVE BookKnown(b)'
  <2>1. BookKnown(b)
    BY <1>3 DEF HInv
  <2> QED
    BY <2>1 DEF BookKnown, Base
<1> QED
  BY <1>1, <1>2, <1>3 DEF HInv

LEMMA HandledKeeps ==
  ASSUME HInv, CInv', NEW m \in Messages, Handled(m)
  PROVE  HInv'
<1>1. MemoryTyped'
  <2>1. PICK b, k, free, r, recs : InHand(b, k, free, m, r, recs)
    BY Handling
  <2> QED
    BY <2>1, Remembered
<1>2. StreamOk(queue')
  <2>1. emitted' \in Seq(QP!Entry) /\ queue' \in Seq(QP!Entry)
    BY DEF CInv, QP!QInv, QP!TypeOk
  <2>2. StreamOk(emitted' \o queue')
    BY HandledStream DEF Stream
  <2> QED
    BY <2>1, <2>2, EndOk
<1>3. \A b \in Books : BookKnown(b)'
  BY HandledKnows
<1> QED
  BY <1>1, <1>2, <1>3 DEF HInv

\* The other steps: what throws, and Finish.
Thrown ==
  /\ emitted' = <<>>
  /\ UNCHANGED <<books, queue, finished, shown, quiet, lastChange, touched>>

LEMMA StepIs ==
  ASSUME HNext
  PROVE  \/ \E m \in Messages : Handled(m)
         \/ Thrown
         \/ Finish /\ UNCHANGED history
<1>1. ASSUME NEW m \in Messages,
             \/ (SnapshotRecord(m) \/ SnapshotBoundary(m)) /\ Remember(m)
             \/ (EventRecord(m) \/ EventBoundary(m)) /\ Remember(m)
      PROVE  Handled(m)
  BY <1>1 DEF Handled
<1>2. ASSUME NEW m \in Messages, (Reject(m) \/ LimitExceeded(m)) /\ UNCHANGED history
      PROVE  Thrown
  BY <1>2 DEF Reject, LimitExceeded, Throw, Thrown, history
<1>3. FinishIncomplete /\ UNCHANGED history => Thrown
  BY DEF FinishIncomplete, Throw, Thrown, history
<1> QED
  BY <1>1, <1>2, <1>3 DEF HNext

LEMMA StepKeepsHInv == HInv /\ [HNext]_hvars => HInv'
<1> SUFFICES ASSUME HInv, [HNext]_hvars PROVE HInv'
  OBVIOUS
<1>1. CInv'
  BY Watches, StepKeepsCInv DEF HInv
<1>2. ASSUME NEW m \in Messages, Handled(m) PROVE HInv'
  BY <1>1, <1>2, HandledKeeps
<1>3. CASE Thrown
  BY <1>1, <1>3, MemoryStays DEF Thrown
<1>4. CASE Finish /\ UNCHANGED history
  <2>1. queue' = <<>> /\ finished'
    BY <1>4, FinishKeeps DEF HInv, Finish
  <2>2. MemoryTyped'
    BY <1>4 DEF HInv, MemoryTyped, history
  <2>3. StreamOk(queue')
    BY <2>1 DEF StreamOk
  <2> QED
    BY <1>1, <2>1, <2>2, <2>3 DEF HInv
<1>5. CASE UNCHANGED hvars
  BY <1>1, <1>5, MemoryStays DEF hvars, vars, history
<1> QED
  BY <1>2, <1>3, <1>4, <1>5, StepIs

\* What the memory holds of a book is what its candidate stands for: at every
\* call, through snapshots, resets, trades and boundaries.
THEOREM MemoryInvariance == HSpec => []HInv
BY InitHInv, StepKeepsHInv, PTL DEF HSpec

-----------------------------------------------------------------------------
(* What a reader of the output may rely on.                                *)

\* Between events a reader's newest record of a book shows the book's ten
\* levels: neither coalescing nor an invisible update nor a trade in the event
\* loses a change, and only an empty snapshot is silent.
THEOREM QuotesAreCurrent == HSpec => []QuoteCurrent
<1>1. HInv => QuoteCurrent
  <2> SUFFICES ASSUME HInv, ~finished, NEW b \in Books, ~books[b].eventOpen
               PROVE  /\ shown[b] = Projection(books[b].levels) \/ quiet[b]
                      /\ quiet[b] => NothingShown = Projection(books[b].levels)
    BY DEF QuoteCurrent
  <2>1. books[b].candidate = NoCandidate /\ ~books[b].snapshotEvent
    BY DEF HInv, CInv, BookOk, ClosedOk
  <2>2. BookKnown(b)
    BY DEF HInv
  <2>3. Projection(books[b].levels) = Base(b)
    BY <2>1, <2>2 DEF BookKnown, Known, Bounds, Fresh
  <2> QED
    BY <2>3 DEF Base
<1> QED
  BY <1>1, MemoryInvariance, PTL

LEMMA NothingAdded ==
  ASSUME HInv, Thrown \/ Finish
  PROVE  Stream' = queue
<1>1. queue \in Seq(QP!Entry)
  BY QueueTyped DEF HInv, CInv
<1>2. <<>> \o queue = queue
  BY <1>1
<1>3. CASE Thrown
  BY <1>2, <1>3 DEF Thrown, Stream
<1>4. CASE Finish
  <2>1. queue = <<>> /\ queue' = <<>>
    BY <1>4, FinishKeeps DEF HInv
  <2>2. PICK n \in 0 .. Len(queue) : emitted' = SubSeq(queue, 1, n)
    BY <1>4 DEF Finish, Q!Flush
  <2>3. emitted' = <<>>
    BY <2>1, <2>2
  <2> QED
    BY <1>2, <2>1, <2>3 DEF Stream
<1> QED
  BY <1>3, <1>4

LEMMA AddedQuote ==
  ASSUME HInv, HNext, NEW i \in Added(Stream', queue), IsQuote(Stream'[i].rec)
  PROVE  LET e == Stream'[i]
         IN /\ e.rec.source = lastChange'[e.book]
            /\ SidelessClears => QuoteBounded(e.rec, Base(e.book))
            /\ QuoteTouching(e.rec, touched'[e.book])
<1> DEFINE n == Len(queue)
<1>1. queue \in Seq(QP!Entry) /\ n \in Nat /\ DOMAIN queue = 1 .. n
  BY QueueTyped DEF HInv, CInv
<1>2. i \in DOMAIN (Stream') /\ i > n
  BY DEF Added
<1>3. Stream' # queue
  BY <1>1, <1>2
<1>4. PICK m \in Messages : Handled(m)
  BY <1>3, StepIs, NothingAdded
<1>5. PICK b, k, free, r, recs : InHand(b, k, free, m, r, recs)
  BY <1>4, Handling
<1>6. /\ touched'[b] = KnownTouches(k, r, m, touched[b])
      /\ lastChange'[b] = NewLast(k, m, lastChange[b])
  BY <1>4, <1>5, Remembered
<1> SUFFICES ASSUME NEW s, s = Stream'
             PROVE  /\ s[i].rec.source = lastChange'[s[i].book]
                    /\ SidelessClears => QuoteBounded(s[i].rec, Base(s[i].book))
                    /\ QuoteTouching(s[i].rec, touched'[s[i].book])
  OBVIOUS
<1>7. StreamGrows(s, b, recs, IsLast(m))
  BY <1>4, <1>5, Streams
<1> DEFINE j == i - n
<1>8. j \in 1 .. Len(recs) /\ n + j = i
  <2>1. s \in Seq(QP!Entry) /\ Len(s) = n + Len(recs)
    BY <1>7 DEF StreamGrows
  <2>2. recs \in Seq(Record)
    BY <1>5 DEF InHand
  <2>3. i \in 1 .. n + Len(recs) /\ i > n /\ Len(recs) \in Nat
    BY <1>2, <2>1, <2>2
  <2> QED
    BY <1>1, <2>3
<1> HIDE DEF j
<1>9. s[n + j] = [book |-> b, rec |-> recs[j],
                  last |-> IsLast(m) /\ j = Len(recs), ready |-> IsLast(m)]
  BY <1>7, <1>8 DEF StreamGrows
<1>10. s[i].book = b /\ s[i].rec = recs[j]
  <2>1. s[i] = s[n + j]
    BY <1>8
  <2> QED
    BY <1>9, <2>1
<1>11. QuoteFrom(r, recs[j])
  <2>1. IsQuote(recs[j])
    BY <1>10
  <2>2. ~TradeFrom(r, m, recs[j])
    BY <2>1, TradeIsNoQuote
  <2>3. r.snapshotEvent \in BOOLEAN /\ recs = Outputs(r, m)
    BY <1>5 DEF InHand
  <2> QED
    BY <1>8, <2>2, <2>3, RecordIs
<1>12. /\ recs[j].source = NewLast(k, m, lastChange[b])
       /\ SidelessClears => QuoteBounded(recs[j], Base(b))
       /\ QuoteTouching(recs[j], KnownTouches(k, r, m, touched[b]))
  <2> DEFINE q == recs[j]
  <2>1. /\ free \in BOOLEAN /\ BookOk(k, free) /\ Admits(k, m, free)
        /\ r = Received(k, m, free) /\ r \in Book
        /\ Known(k, Base(b), touched[b], lastChange[b]) /\ touched[b] \in SUBSET Spots
    BY <1>5 DEF InHand
  <2> HIDE DEF q
  <2>2. QuoteFrom(r, q)
    BY <1>11 DEF q
  <2>3. /\ q.source = NewLast(k, m, lastChange[b])
        /\ SidelessClears => QuoteBounded(q, Base(b))
        /\ QuoteTouching(q, KnownTouches(k, r, m, touched[b]))
    BY <2>1, <2>2, QuoteSays
  <2> QED
    BY <2>3 DEF q
<1> QED
  BY <1>6, <1>10, <1>12

\* A quote's depth and side bound what differs from the record before it, if
\* no Clear names a side.
THEOREM QuoteDepthIsSound == SidelessClears => (HSpec => QuoteDepthSound)
<1> SUFFICES ASSUME SidelessClears PROVE HSpec => QuoteDepthSound
  OBVIOUS
<1> DEFINE Step ==
      \A i \in Added(Stream', queue) :
        LET e == Stream'[i]
        IN IsQuote(e.rec) => \A side \in Sides, d \in 0 .. Depth - 1 :
             (\/ d < e.rec.depth
              \/ d = e.rec.depth /\ e.rec.side \in Sides \ {side})
             => e.rec.levels[side][d] = Base(e.book)[side][d]
<1>1. HInv /\ [HNext]_hvars => [Step]_hvars
  <2> SUFFICES ASSUME HInv, HNext PROVE Step
    OBVIOUS
  <2> QED
    BY AddedQuote DEF QuoteBounded
<1> QED
  BY <1>1, MemoryInvariance, PTL DEF HSpec, QuoteDepthSound

\* A quote's depth is the shallowest that its event has touched since the
\* record before it, and its side the one that touched it, "None" for both.
THEOREM QuoteImpactIsExact == HSpec => QuoteImpactExact
<1> DEFINE Step ==
      \A i \in Added(Stream', queue) :
        LET e == Stream'[i]
            at == {t \in touched'[e.book] : t[1] = e.rec.depth}
        IN IsQuote(e.rec) /\ touched'[e.book] # {} =>
             /\ \A t \in touched'[e.book] : e.rec.depth <= t[1]
             /\ {t[2] : t \in at} =
                  IF e.rec.side = "None" THEN Sides ELSE {e.rec.side}
<1>1. HInv /\ [HNext]_hvars => [Step]_hvars
  <2> SUFFICES ASSUME HInv, HNext PROVE Step
    OBVIOUS
  <2> QED
    BY AddedQuote DEF QuoteTouching, SidesAt
<1> QED
  BY <1>1, MemoryInvariance, PTL DEF HSpec, QuoteImpactExact

\* A quote or a snapshot takes its other fields from the newest change of its
\* event, invisible ones included, never from a marker or an earlier change.
THEOREM QuoteSourceIsNewest == HSpec => QuoteSource
<1> DEFINE Step ==
      \A i \in Added(Stream', queue) :
        LET e == Stream'[i]
        IN IsQuote(e.rec) => e.rec.source = lastChange'[e.book]
<1>1. HInv /\ [HNext]_hvars => [Step]_hvars
  <2> SUFFICES ASSUME HInv, HNext PROVE Step
    OBVIOUS
  <2> QED
    BY AddedQuote
<1> QED
  BY <1>1, MemoryInvariance, PTL DEF HSpec, QuoteSource

\* F_LAST is on every quote and snapshot, on a trade only if that trade was
\* the boundary and no quote follows it, and on nothing unfinished.
THEOREM LastFlagsAreExact == HSpec => []LastFlagExact
<1>1. HInit => StreamOk(Stream)
  BY DEF HInit, Init, Q!Init, Stream, StreamOk
<1>2. HInv /\ StreamOk(Stream) /\ [HNext]_hvars => StreamOk(Stream')
  <2> SUFFICES ASSUME HInv, StreamOk(Stream), [HNext]_hvars PROVE StreamOk(Stream')
    OBVIOUS
  <2>1. CASE UNCHANGED hvars
    BY <2>1 DEF hvars, vars, Stream
  <2>2. ASSUME NEW m \in Messages, Handled(m) PROVE StreamOk(Stream')
    BY <2>2, HandledStream
  <2>3. CASE Thrown \/ Finish
    BY <2>3, NothingAdded DEF HInv
  <2> QED
    BY <2>1, <2>2, <2>3, StepIs
<1>3. StreamOk(Stream) => LastFlagExact
  BY DEF StreamOk, LastFlagExact
<1> DEFINE Ok == StreamOk(Stream)
<1>4. HInit => Ok
  BY <1>1
<1>5. HInv /\ Ok /\ [HNext]_hvars => Ok'
  BY <1>2
<1>6. Ok => LastFlagExact
  BY <1>3
<1> HIDE DEF Ok
<1> QED
  BY <1>4, <1>5, <1>6, MemoryInvariance, PTL DEF HSpec
=============================================================================
