--------------------------- MODULE RoundTripProofs ----------------------------
(***************************************************************************)
(* That ParquetWriter loses, repeats and moves no row, for any size of a   *)
(* row group and any number of columns and rows, whichever call fails; and *)
(* that comparing what it has published with an official file, in batches  *)
(* cut anywhere, finds exactly whether that has the same records.          *)
(*                                                                         *)
(* A failed Flush leaves rows in the builders.  What makes the             *)
(* destructor's second Flush harmless is that it cannot get as far as the  *)
(* file if AppendUnsafe failed, for the late row is still among the rows;  *)
(* and that otherwise a builder holds nothing or exactly the rows, so that *)
(* the first Len(rows) values of each column are the rows either way.      *)
(***************************************************************************)
EXTENDS RoundTrip, TLAPS

\* rs are the last of the first n records, and w the first k.
Newest(rs, n) == Len(rs) <= n /\ \A i \in 1 .. Len(rs) : rs[i] = n - Len(rs) + i
First(w, k) == Len(w) = k /\ \A i \in 1 .. k : w[i] = i

Split(rs, n) ==
  /\ Newest(rs, n)
  /\ \A c \in Columns : First(written[c], n - Len(rs))

\* What a failure before the batch was made leaves in the builders.
Retriable(rs) == NoneLate(rs) => \A c \in Columns : builders[c] \in {<<>>, rs}

Fresh ==
  /\ Len(rows) < RowGroupSize /\ builders = Empty /\ ~torn /\ ~footer
  /\ (appended - Len(rows)) % RowGroupSize = 0
  /\ \A end \in groups : end % RowGroupSize = 0

PInv ==
  /\ TypeOk
  /\ Split(rows, appended)
  /\ \A i \in 1 .. appended - Len(rows) : i \notin late
  /\ \A end \in groups : end % RowGroupSize = 0 \/ end = appended
  /\ stage \in {"start", "open"} => Fresh
  /\ stage = "unwinding" => ~footer /\ Retriable(rows)
  /\ stage \in {"closed", "published"} => footer /\ ~torn /\ builders = Empty
  /\ footer => rows = <<>>

-----------------------------------------------------------------------------
(* Sequences and row groups.                                               *)

LEMMA NextMultiple ==
  ASSUME NEW k \in Nat, NEW size \in Nat \ {0}, k % size = 0
  PROVE  (k + size) % size = 0
<1>1. \A q \in Nat : (q * size) % size = 0
  BY SMTT(30)
<1>2. PICK q \in Nat : k = q * size
  BY SMTT(30)
<1>3. k + size = (q + 1) * size
  BY <1>2
<1>4. q + 1 \in Nat
  OBVIOUS
<1>5. ((q + 1) * size) % size = 0
  BY <1>1, <1>4
<1> QED
  BY <1>3, <1>5

LEMMA Concat ==
  ASSUME NEW s \in Values, NEW t \in Values
  PROVE  /\ s \o t \in Values /\ Len(s \o t) = Len(s) + Len(t)
         /\ \A i \in 1 .. Len(s) + Len(t) :
              (s \o t)[i] = IF i <= Len(s) THEN s[i] ELSE t[i - Len(s)]
  BY DEF Values

LEMMA Beginning ==
  ASSUME NEW S, NEW s \in Seq(S), NEW n \in 0 .. Len(s)
  PROVE  /\ SubSeq(s, 1, n) \in Seq(S) /\ Len(SubSeq(s, 1, n)) = n
         /\ \A i \in 1 .. n : SubSeq(s, 1, n)[i] = s[i]
OBVIOUS

LEMMA SameSequence ==
  ASSUME NEW s \in Values, NEW t \in Values, Len(s) = Len(t),
         \A i \in 1 .. Len(s) : s[i] = t[i]
  PROVE  s = t
  BY DEF Values

LEMMA EmptyValues == <<>> \in Values /\ Len(<<>>) = 0
<1>1. <<>> \in Seq(1 .. MaxRows)
  OBVIOUS
<1>2. Len(<<>>) = 0
  OBVIOUS
<1> QED
  BY <1>1, <1>2 DEF Values

\* A builder that holds nothing or the rows gives the rows to the batch.
LEMMA BatchIsRows ==
  ASSUME NEW rs \in Values, NEW b \in {<<>>, rs}
  PROVE  SubSeq(b \o rs, 1, Len(rs)) = rs
<1>1. b \in Values /\ (b = <<>> \/ b = rs)
  BY EmptyValues
<1>2. b \o rs \in Values /\ Len(b \o rs) = Len(b) + Len(rs)
  BY <1>1, Concat
<1>3. Len(b) \in Nat /\ Len(rs) \in 0 .. Len(b \o rs)
  BY <1>1, <1>2 DEF Values
<1> DEFINE batch == SubSeq(b \o rs, 1, Len(rs))
<1>4. /\ batch \in Values /\ Len(batch) = Len(rs)
      /\ \A i \in 1 .. Len(rs) : batch[i] = (b \o rs)[i]
  BY <1>2, <1>3, Beginning DEF Values
<1>5. \A i \in 1 .. Len(rs) : (b \o rs)[i] = rs[i]
  <2>1. CASE b = <<>>
    BY <2>1, <1>1, Concat, EmptyValues
  <2>2. CASE b = rs
    BY <2>2, <1>1, Concat
  <2> QED
    BY <1>1, <2>1, <2>2
<1> HIDE DEF batch
<1>6. batch = rs
  BY <1>4, <1>5, SameSequence
<1> QED
  BY <1>6 DEF batch

\* The row groups and the rows after them are all records, in order.
LEMMA FirstThenNewest ==
  ASSUME NEW w \in Values, NEW rs \in Values, NEW n \in Nat,
         Newest(rs, n), First(w, n - Len(rs))
  PROVE  First(w \o rs, n) /\ w \o rs \in Values
<1>1. Len(w) \in Nat /\ Len(rs) \in Nat
  BY DEF Values
<1>2. /\ w \o rs \in Values /\ Len(w \o rs) = Len(w) + Len(rs)
      /\ \A i \in 1 .. Len(w) + Len(rs) :
           (w \o rs)[i] = IF i <= Len(w) THEN w[i] ELSE rs[i - Len(w)]
  BY Concat
<1>3. Len(w) = n - Len(rs) /\ \A i \in 1 .. n - Len(rs) : w[i] = i
  BY DEF First
<1>4. \A i \in 1 .. Len(rs) : rs[i] = n - Len(rs) + i
  BY DEF Newest
<1>5. ASSUME NEW i \in 1 .. n PROVE (w \o rs)[i] = i
  <2>1. CASE i <= Len(w)
    BY <1>1, <1>2, <1>3, <2>1
  <2>2. CASE ~(i <= Len(w))
    <3>1. i - Len(w) \in 1 .. Len(rs)
      BY <1>1, <1>3, <2>2
    <3>2. (w \o rs)[i] = rs[i - Len(w)]
      BY <1>1, <1>2, <1>3, <2>2
    <3> QED
      BY <1>1, <1>3, <1>4, <3>1, <3>2
  <2> QED
    BY <2>1, <2>2
<1> QED
  BY <1>1, <1>2, <1>3, <1>5 DEF First

-----------------------------------------------------------------------------
(* Flush.                                                                  *)

LEMMA EmptyOfEach == Empty \in [Columns -> Values] /\ \A c \in Columns : Empty[c] = <<>>
  BY EmptyValues DEF Empty

\* A Flush that succeeds: the batch holds the rows whatever an earlier failure
\* left in the builders.
LEMMA FlushedIs ==
  ASSUME TypeOk, NEW rs \in Values, NEW n \in 0 .. MaxRows, rs # <<>> \/ rs = rows,
         Split(rs, n), Retriable(rs), Flushed(rs)
  PROVE  /\ rows' = <<>> /\ NoneLate(rs)
         /\ written' \in [Columns -> Values]
         /\ \A c \in Columns : First(written'[c], n)
         /\ builders' = (IF rs = <<>> THEN builders ELSE Empty)
         /\ groups' = (IF rs = <<>> THEN groups ELSE groups \cup {n})
<1>1. CASE rs = <<>>
  <2>1. UNCHANGED <<rows, builders, written, groups>>
    BY <1>1 DEF Flushed
  <2>2. NoneLate(rs)
    BY <1>1 DEF NoneLate
  <2>3. \A c \in Columns : First(written[c], n)
    BY <1>1 DEF Split
  <2> QED
    BY <1>1, <2>1, <2>2, <2>3 DEF TypeOk
<1>2. CASE rs # <<>>
  <2>1. /\ NoneLate(rs) /\ builders' = Empty /\ rows' = <<>>
        /\ written' = [c \in Columns |-> written[c] \o SubSeq(builders[c] \o rs, 1, Len(rs))]
        /\ groups' = groups \cup {Len(written[1]) + Len(rs)}
    BY <1>2 DEF Flushed
  <2>2. \A c \in Columns : written[c] \in Values
    BY DEF TypeOk
  <2>3. ASSUME NEW c \in Columns
        PROVE  written[c] \o SubSeq(builders[c] \o rs, 1, Len(rs)) = written[c] \o rs
    BY <2>1, BatchIsRows DEF Retriable
  <2>4. ASSUME NEW c \in Columns
        PROVE  First(written[c] \o rs, n) /\ written[c] \o rs \in Values
    BY <2>2, FirstThenNewest DEF Split
  <2>5. written' = [c \in Columns |-> written[c] \o rs]
    BY <2>1, <2>3
  <2>6. Len(written[1]) + Len(rs) = n
    <3>1. 1 \in Columns
      BY ParquetAssumption DEF Columns
    <3>2. Len(written[1]) = n - Len(rs) /\ Len(rs) \in Nat
      BY <3>1 DEF Split, First, Values
    <3> QED
      BY <3>2
  <2> QED
    BY <1>2, <2>1, <2>4, <2>5, <2>6
<1> QED
  BY <1>1, <1>2

\* What has been flushed was never late.
LEMMA FlushedTimely ==
  ASSUME NEW rs \in Values, NEW n \in Nat, Newest(rs, n), NoneLate(rs),
         \A i \in 1 .. n - Len(rs) : i \notin late
  PROVE  \A i \in 1 .. n : i \notin late
<1>1. Len(rs) \in Nat /\ DOMAIN rs = 1 .. Len(rs)
  BY DEF Values
<1>2. ASSUME NEW i \in 1 .. n, i > n - Len(rs) PROVE i \notin late
  <2>1. i - (n - Len(rs)) \in 1 .. Len(rs)
    BY <1>1, <1>2
  <2>2. rs[i - (n - Len(rs))] = i
    BY <1>1, <2>1 DEF Newest
  <2> QED
    BY <1>1, <2>1, <2>2 DEF NoneLate, IsLate
<1> QED
  BY <1>1, <1>2

\* A Flush that fails leaves rows and file as they are, and, if it began with
\* empty builders, a state from which it can be tried again.
LEMMA FlushFailsIs ==
  ASSUME TypeOk, NEW rs \in Values, FlushFails(rs)
  PROVE  /\ rows' = rs /\ written' = written /\ groups' = groups
         /\ builders' \in [Columns -> Values] /\ torn' \in BOOLEAN
         /\ builders = Empty /\ NoneLate(rs) => \A c \in Columns : builders'[c] \in {<<>>, rs}
<1>1. rows' = rs /\ written' = written /\ groups' = groups
  BY DEF FlushFails
<1>2. \A c \in Columns : builders[c] \in Values
  BY DEF TypeOk
<1>3. CASE ReserveFails
  <2>1. builders' = builders /\ torn' = torn
    BY <1>3 DEF ReserveFails
  <2> QED
    BY <1>1, <2>1, EmptyOfEach DEF TypeOk
<1>4. CASE AppendUnsafeFails(rs)
  <2>1. PICK i \in DOMAIN rs :
          /\ IsLate(rs, i)
          /\ builders' = [c \in Columns |-> builders[c] \o SubSeq(rs, 1, i - 1)]
    BY <1>4 DEF AppendUnsafeFails
  <2>2. i - 1 \in 0 .. Len(rs)
    BY DEF Values
  <2>3. SubSeq(rs, 1, i - 1) \in Values
    BY <2>2, Beginning DEF Values
  <2>4. \A c \in Columns : builders[c] \o SubSeq(rs, 1, i - 1) \in Values
    BY <1>2, <2>3, Concat
  <2>5. ~NoneLate(rs)
    BY <2>1 DEF NoneLate
  <2> QED
    BY <1>1, <1>4, <2>1, <2>4, <2>5 DEF AppendUnsafeFails, TypeOk
<1>5. CASE FinishColumnFails(rs)
  <2>1. PICK k \in Columns :
          builders' = [c \in Columns |-> IF c < k THEN <<>> ELSE builders[c] \o rs]
    BY <1>5 DEF FinishColumnFails
  <2>2. \A c \in Columns : builders[c] \o rs \in Values
    BY <1>2, Concat
  <2>3. ASSUME builders = Empty, NEW c \in Columns PROVE builders[c] \o rs = rs
    BY <2>3, EmptyOfEach DEF Values
  <2>4. builders' \in [Columns -> Values]
    BY <2>1, <2>2, EmptyValues
  <2>5. ASSUME builders = Empty, NEW c \in Columns PROVE builders'[c] \in {<<>>, rs}
    BY <2>1, <2>3, <2>5
  <2> QED
    BY <1>1, <1>5, <2>4, <2>5 DEF FinishColumnFails, TypeOk
<1>6. CASE WriteFails(rs)
  <2>1. builders' = Empty /\ torn' = TRUE
    BY <1>6 DEF WriteFails
  <2>2. \A c \in Columns : builders'[c] = <<>>
    BY <2>1, EmptyOfEach
  <2> QED
    BY <1>1, <2>1, <2>2, EmptyOfEach
<1> QED
  BY <1>3, <1>4, <1>5, <1>6 DEF FlushFails

-----------------------------------------------------------------------------
(* The steps.                                                              *)

LEMMA InitInv == ASSUME Init PROVE PInv
<1>1. /\ rows = <<>> /\ builders = Empty /\ written = Empty /\ groups = {}
      /\ footer = FALSE /\ torn = FALSE /\ appended = 0 /\ late \in SUBSET (1 .. MaxRows)
      /\ stage = "start"
  BY DEF Init
<1>2. TypeOk
  <2>1. rows \in Values /\ Len(rows) = 0 /\ RowGroupSize \in Nat /\ MaxRows \in Nat
    BY <1>1, EmptyValues, ParquetAssumption
  <2>2. builders \in [Columns -> Values] /\ written \in [Columns -> Values]
    BY <1>1, EmptyOfEach
  <2>3. groups \subseteq 1 .. MaxRows /\ {footer, torn} \subseteq BOOLEAN /\ stage \in Stages
    BY <1>1 DEF Stages
  <2>4. appended \in 0 .. MaxRows /\ late \subseteq 1 .. MaxRows
    BY <1>1, <2>1
  <2> QED
    BY <2>1, <2>2, <2>3, <2>4 DEF TypeOk
<1>3. Split(rows, appended)
  <2>1. Newest(rows, appended)
    BY <1>1, EmptyValues DEF Newest
  <2>2. ASSUME NEW c \in Columns PROVE First(written[c], appended - Len(rows))
    BY <1>1, EmptyOfEach, EmptyValues DEF First
  <2> QED
    BY <2>1, <2>2 DEF Split
<1>4. Fresh
  <2>1. (appended - Len(rows)) % RowGroupSize = 0
    BY <1>1, EmptyValues, ParquetAssumption, SMTT(30)
  <2> QED
    BY <1>1, <2>1, EmptyValues, ParquetAssumption DEF Fresh
<1> QED
  BY <1>1, <1>2, <1>3, <1>4, EmptyValues DEF PInv

\* What most steps leave alone.
LEMMA StageChanges ==
  ASSUME PInv,
         UNCHANGED <<rows, builders, written, groups, footer, torn, appended, late>>,
         stage' \in Stages,
         stage' \in {"start", "open"} => Fresh,
         stage' = "unwinding" => ~footer /\ Retriable(rows),
         stage' \in {"closed", "published"} => footer /\ ~torn /\ builders = Empty
  PROVE  PInv'
<1>1. TypeOk'
  BY DEF PInv, TypeOk
<1>2. Split(rows, appended)'
  BY DEF PInv, Split
<1>3. Fresh => Fresh'
  BY DEF Fresh
<1>4. Retriable(rows) => Retriable(rows)'
  BY DEF Retriable, NoneLate, IsLate
<1> QED
  BY <1>1, <1>2, <1>3, <1>4 DEF PInv

LEMMA OpenKeeps == ASSUME PInv, Open PROVE PInv'
<1>1. stage = "start" /\ stage' \in {"open", "destroyed"}
  BY DEF Open, Goes
<1> QED
  BY <1>1, StageChanges DEF PInv, Open, Stages

\* Builders that are empty can be filled again.
LEMMA FreshRetries == ASSUME builders = Empty, NEW rs PROVE Retriable(rs)
  BY EmptyOfEach DEF Retriable

LEMMA InterruptKeeps == ASSUME PInv, Interrupt PROVE PInv'
<1>1. stage = "open" /\ stage' = "unwinding"
  BY DEF Interrupt, Goes
<1>2. ~footer /\ Retriable(rows)
  BY <1>1, FreshRetries DEF PInv, Fresh
<1> QED
  BY <1>1, <1>2, StageChanges DEF Interrupt, Stages

LEMMA PublishKeeps == ASSUME PInv, Publish PROVE PInv'
<1>1. stage = "closed" /\ stage' \in {"published", "destroyed"}
  BY DEF Publish, Goes
<1> QED
  BY <1>1, StageChanges DEF PInv, Publish, Stages

LEMMA RemoveKeeps == ASSUME PInv, Remove PROVE PInv'
<1>1. stage = "destroyed" /\ stage' = "removed"
  BY DEF Remove, Goes
<1> QED
  BY <1>1, StageChanges DEF Remove, Stages

\* The rows with one more.
LEMMA ReceiveIs ==
  ASSUME PInv, Receive, NEW rs, rs = Append(rows, appended')
  PROVE  /\ stage = "open" /\ appended' \in 1 .. MaxRows /\ appended' = appended + 1
         /\ rs \in Values /\ Len(rs) = Len(rows) + 1 /\ Len(rs) <= RowGroupSize
         /\ rs # <<>> /\ Split(rs, appended') /\ Fresh
         /\ \A i \in 1 .. appended' - Len(rs) : i \notin late
<1>1. stage = "open" /\ appended' = appended + 1 /\ appended < MaxRows
  BY DEF Receive
<1>2. /\ rows \in Values /\ appended \in 0 .. MaxRows /\ MaxRows \in Nat
      /\ Fresh /\ Split(rows, appended) /\ RowGroupSize \in Nat
      /\ \A i \in 1 .. appended - Len(rows) : i \notin late
  BY <1>1, ParquetAssumption DEF PInv, TypeOk
<1>3. appended' \in 1 .. MaxRows
  BY <1>1, <1>2
<1>4. /\ rs \in Values /\ Len(rs) = Len(rows) + 1 /\ Len(rows) \in Nat
      /\ \A i \in 1 .. Len(rows) + 1 :
           rs[i] = IF i <= Len(rows) THEN rows[i] ELSE appended'
  BY <1>2, <1>3 DEF Values
<1>5. Newest(rs, appended')
  BY <1>1, <1>2, <1>4 DEF Split, Newest
<1>6. appended' - Len(rs) = appended - Len(rows)
  BY <1>1, <1>2, <1>4
<1>7. Split(rs, appended')
  BY <1>2, <1>5, <1>6 DEF Split
<1>8. rs # <<>> /\ Len(rs) <= RowGroupSize
  BY <1>2, <1>4, EmptyValues DEF Fresh
<1> QED
  BY <1>1, <1>2, <1>3, <1>4, <1>6, <1>7, <1>8

LEMMA AppendRowKeeps == ASSUME PInv, AppendRow PROVE PInv'
<1> DEFINE rs == Append(rows, appended')
<1>1. Receive /\ UNCHANGED <<torn, stage, footer, late>>
  BY DEF AppendRow, Receive
<1>2. /\ stage = "open" /\ appended' \in 1 .. MaxRows /\ appended' = appended + 1
      /\ rs \in Values /\ Len(rs) = Len(rows) + 1 /\ Len(rs) <= RowGroupSize
      /\ rs # <<>> /\ Split(rs, appended') /\ Fresh
      /\ \A i \in 1 .. appended' - Len(rs) : i \notin late
  BY <1>1, ReceiveIs
<1>3. IF IsFull(rs) THEN Flushed(rs)
      ELSE rows' = rs /\ UNCHANGED <<builders, written, groups>>
  BY DEF AppendRow
<1> HIDE DEF rs
<1>4. /\ TypeOk /\ rows \in Values /\ appended \in 0 .. MaxRows /\ MaxRows \in Nat
      /\ RowGroupSize \in Nat \ {0} /\ groups \subseteq 1 .. MaxRows
      /\ Split(rows, appended) /\ Len(rs) \in Nat /\ Len(rows) \in Nat
  BY <1>2, ParquetAssumption DEF PInv, TypeOk, Values
<1>5. /\ (appended' - Len(rs)) % RowGroupSize = 0 /\ ~footer /\ ~torn /\ builders = Empty
      /\ \A end \in groups : end % RowGroupSize = 0
  <2>1. appended' - Len(rs) = appended - Len(rows)
    BY <1>2, <1>4
  <2> QED
    BY <1>2, <2>1 DEF Fresh
<1>6. CASE IsFull(rs)
  <2>1. appended' \in 0 .. MaxRows /\ Retriable(rs) /\ Flushed(rs)
    BY <1>2, <1>3, <1>5, <1>6, FreshRetries
  <2>2. /\ rows' = <<>> /\ NoneLate(rs)
        /\ written' \in [Columns -> Values]
        /\ \A c \in Columns : First(written'[c], appended')
        /\ builders' = Empty /\ groups' = groups \cup {appended'}
    BY <1>2, <1>4, <2>1, FlushedIs
  <2>3. Len(rows') = 0 /\ appended' - Len(rows') = appended'
    BY <1>2, <2>2, EmptyValues
  <2>4. TypeOk'
    BY <1>1, <1>2, <1>4, <2>2, <2>3, EmptyValues, EmptyOfEach DEF TypeOk
  <2>5. Split(rows, appended)'
    BY <1>2, <2>2, <2>3 DEF Split, Newest
  <2>6. \A i \in 1 .. appended' : i \notin late
    BY <1>2, <1>4, <2>2, FlushedTimely DEF Split
  <2>7. appended' % RowGroupSize = 0
    <3>1. Len(rs) = RowGroupSize
      BY <1>6 DEF IsFull
    <3>2. appended' - Len(rs) \in Nat /\ appended' = (appended' - Len(rs)) + RowGroupSize
      BY <1>2, <1>4, <3>1 DEF Split, Newest
    <3> QED
      BY <1>4, <1>5, <3>2, NextMultiple
  <2>8. Fresh'
    BY <1>1, <1>4, <1>5, <2>2, <2>3, <2>7 DEF Fresh
  <2> QED
    <3>1. \A i \in 1 .. appended' - Len(rows') : i \notin late'
      BY <1>1, <2>3, <2>6
    <3>2. \A end \in groups' : end % RowGroupSize = 0
      BY <2>8 DEF Fresh
    <3>3. stage' = "open" /\ footer' = FALSE
      BY <1>1, <1>2, <1>4, <1>5 DEF TypeOk
    <3> QED
      BY <2>4, <2>5, <2>8, <3>1, <3>2, <3>3 DEF PInv
<1>7. CASE ~IsFull(rs)
  <2>1. rows' = rs /\ builders' = builders /\ written' = written /\ groups' = groups
    BY <1>3, <1>7
  <2>2. TypeOk'
    BY <1>1, <1>2, <1>4, <2>1 DEF TypeOk
  <2>3. Split(rows, appended)'
    BY <1>2, <2>1 DEF Split, Newest
  <2>4. Fresh'
    BY <1>1, <1>2, <1>4, <1>5, <1>7, <2>1 DEF Fresh, IsFull
  <2> QED
    BY <1>1, <1>2, <1>5, <2>1, <2>2, <2>3, <2>4 DEF PInv
<1> QED
  BY <1>6, <1>7

LEMMA AppendFailsKeeps == ASSUME PInv, AppendFails PROVE PInv'
<1> DEFINE rs == Append(rows, appended')
<1>1. Receive /\ stage' = "unwinding" /\ FlushFails(rs) /\ UNCHANGED <<footer, late>>
  BY DEF AppendFails, Goes, Receive
<1>2. /\ stage = "open" /\ appended' \in 1 .. MaxRows /\ appended' = appended + 1
      /\ rs \in Values /\ Len(rs) = Len(rows) + 1 /\ Len(rs) <= RowGroupSize
      /\ rs # <<>> /\ Split(rs, appended') /\ Fresh
      /\ \A i \in 1 .. appended' - Len(rs) : i \notin late
  BY <1>1, ReceiveIs
<1> HIDE DEF rs
<1>3. TypeOk /\ builders = Empty
  BY <1>2 DEF PInv, Fresh
<1>4. /\ rows' = rs /\ written' = written /\ groups' = groups
      /\ builders' \in [Columns -> Values] /\ torn' \in BOOLEAN
      /\ NoneLate(rs) => \A c \in Columns : builders'[c] \in {<<>>, rs}
  BY <1>1, <1>2, <1>3, FlushFailsIs
<1>5. TypeOk'
  <2>1. appended' \in 0 .. MaxRows /\ stage' \in Stages
    BY <1>1, <1>2 DEF Stages
  <2> QED
    BY <1>1, <1>2, <1>3, <1>4, <2>1 DEF TypeOk
<1>6. Split(rows, appended)'
  BY <1>2, <1>4 DEF Split, Newest
<1>7. Retriable(rows)'
  BY <1>1, <1>4 DEF Retriable, NoneLate, IsLate
<1>8. footer' = FALSE /\ \A end \in groups' : end % RowGroupSize = 0
  BY <1>1, <1>2, <1>3, <1>4 DEF Fresh, TypeOk
<1> QED
  BY <1>1, <1>2, <1>4, <1>5, <1>6, <1>7, <1>8 DEF PInv

\* Rows flushed for the last time.
LEMMA LastFlush ==
  ASSUME PInv, Retriable(rows), Flushed(rows), UNCHANGED <<appended, late>>
  PROVE  /\ rows' = <<>> /\ Len(rows') = 0 /\ groups' \subseteq 1 .. MaxRows
         /\ written' \in [Columns -> Values] /\ builders' \in [Columns -> Values]
         /\ builders = Empty => builders' = Empty
         /\ Split(rows, appended)'
         /\ \A i \in 1 .. appended' - Len(rows') : i \notin late'
         /\ \A end \in groups' : end % RowGroupSize = 0 \/ end = appended'
<1>1. /\ TypeOk /\ rows \in Values /\ appended \in 0 .. MaxRows /\ MaxRows \in Nat
      /\ Len(rows) \in Nat /\ Split(rows, appended) /\ groups \subseteq 1 .. MaxRows
      /\ builders \in [Columns -> Values]
      /\ \A i \in 1 .. appended - Len(rows) : i \notin late
      /\ \A end \in groups : end % RowGroupSize = 0 \/ end = appended
  BY ParquetAssumption DEF PInv, TypeOk, Values
<1>2. /\ rows' = <<>> /\ NoneLate(rows)
      /\ written' \in [Columns -> Values]
      /\ \A c \in Columns : First(written'[c], appended)
      /\ builders' = (IF rows = <<>> THEN builders ELSE Empty)
      /\ groups' = (IF rows = <<>> THEN groups ELSE groups \cup {appended})
  BY <1>1, FlushedIs
<1>3. Len(rows') = 0 /\ appended' - Len(rows') = appended
  BY <1>1, <1>2, EmptyValues
<1>4. Split(rows, appended)'
  BY <1>1, <1>2, <1>3 DEF Split, Newest
<1>5. \A i \in 1 .. appended : i \notin late
  BY <1>1, <1>2, FlushedTimely DEF Split
<1>6. rows # <<>> => appended \in 1 .. MaxRows
  BY <1>1 DEF Split, Newest, Values
<1>7. groups' \subseteq 1 .. MaxRows
  BY <1>1, <1>2, <1>6
<1>8. \A end \in groups' : end % RowGroupSize = 0 \/ end = appended
  BY <1>1, <1>2
<1>9. builders' \in [Columns -> Values] /\ (builders = Empty => builders' = Empty)
  BY <1>1, <1>2, EmptyOfEach
<1> QED
  BY <1>2, <1>3, <1>4, <1>5, <1>7, <1>8, <1>9

LEMMA ClosesKeeps ==
  ASSUME PInv, Retriable(rows), Closes, stage' \in {"closed", "destroyed"},
         stage' = "closed" => ~torn /\ builders = Empty
  PROVE  PInv'
<1>1. Flushed(rows) /\ footer' = TRUE /\ UNCHANGED <<torn, appended, late>>
  BY DEF Closes
<1>2. /\ rows' = <<>> /\ Len(rows') = 0 /\ groups' \subseteq 1 .. MaxRows
      /\ written' \in [Columns -> Values] /\ builders' \in [Columns -> Values]
      /\ builders = Empty => builders' = Empty
      /\ Split(rows, appended)'
      /\ \A i \in 1 .. appended' - Len(rows') : i \notin late'
      /\ \A end \in groups' : end % RowGroupSize = 0 \/ end = appended'
  BY <1>1, LastFlush
<1>3. TypeOk'
  <2>1. /\ stage' \in Stages /\ 0 <= RowGroupSize /\ TypeOk
        /\ appended' \in 0 .. MaxRows /\ late' \subseteq 1 .. MaxRows
        /\ {footer', torn'} \subseteq BOOLEAN
    BY <1>1, ParquetAssumption DEF PInv, TypeOk, Stages
  <2> QED
    BY <1>2, <2>1, EmptyValues DEF TypeOk
<1> QED
  BY <1>1, <1>2, <1>3 DEF PInv

LEMMA CloseThrowsKeeps ==
  ASSUME PInv, Retriable(rows), ~footer, CloseThrows,
         stage' \in {"unwinding", "destroyed"},
         stage' = "unwinding" => builders = Empty
  PROVE  PInv'
<1>1. /\ UNCHANGED <<footer, appended, late>> /\ footer' = FALSE
      /\ TypeOk /\ rows \in Values /\ 0 <= RowGroupSize /\ stage' \in Stages
  BY ParquetAssumption DEF CloseThrows, PInv, TypeOk, Stages
<1>2. CASE FlushFails(rows)
  <2>1. /\ rows' = rows /\ written' = written /\ groups' = groups
        /\ builders' \in [Columns -> Values] /\ torn' \in BOOLEAN
        /\ builders = Empty /\ NoneLate(rows) =>
             \A c \in Columns : builders'[c] \in {<<>>, rows}
    BY <1>1, <1>2, FlushFailsIs
  <2>2. TypeOk'
    BY <1>1, <2>1 DEF TypeOk
  <2>3. Split(rows, appended)'
    BY <1>1, <2>1 DEF PInv, Split
  <2>4. stage' = "unwinding" => Retriable(rows)'
    BY <1>1, <2>1 DEF Retriable, NoneLate, IsLate
  <2> QED
    BY <1>1, <2>1, <2>2, <2>3, <2>4 DEF PInv
<1>3. CASE Flushed(rows) /\ torn' = TRUE
  <2>1. /\ rows' = <<>> /\ Len(rows') = 0 /\ groups' \subseteq 1 .. MaxRows
        /\ written' \in [Columns -> Values] /\ builders' \in [Columns -> Values]
        /\ builders = Empty => builders' = Empty
        /\ Split(rows, appended)'
        /\ \A i \in 1 .. appended' - Len(rows') : i \notin late'
        /\ \A end \in groups' : end % RowGroupSize = 0 \/ end = appended'
    BY <1>1, <1>3, LastFlush
  <2>2. TypeOk'
    BY <1>1, <1>3, <2>1, EmptyValues DEF TypeOk
  <2>3. stage' = "unwinding" => Retriable(rows)'
    BY <2>1, EmptyOfEach DEF Retriable
  <2> QED
    BY <1>1, <2>1, <2>2, <2>3 DEF PInv
<1> QED
  BY <1>2, <1>3 DEF CloseThrows

LEMMA CloseKeeps == ASSUME PInv, Close PROVE PInv'
<1>1. stage = "open" /\ stage' = "closed" /\ Closes
  BY DEF Close, Goes
<1>2. Fresh /\ Retriable(rows)
  BY <1>1, FreshRetries DEF PInv, Fresh
<1> QED
  BY <1>1, <1>2, ClosesKeeps DEF Fresh

LEMMA CloseFailsKeeps == ASSUME PInv, CloseFails PROVE PInv'
<1>1. stage = "open" /\ stage' = "unwinding" /\ CloseThrows
  BY DEF CloseFails, Goes
<1>2. Fresh /\ Retriable(rows)
  BY <1>1, FreshRetries DEF PInv, Fresh
<1> QED
  BY <1>1, <1>2, CloseThrowsKeeps DEF Fresh

LEMMA DestroyKeeps == ASSUME PInv, Destroy PROVE PInv'
<1>1. stage = "unwinding" /\ stage' = "destroyed" /\ (Closes \/ CloseThrows)
  BY DEF Destroy, Goes
<1>2. ~footer /\ Retriable(rows)
  BY <1>1 DEF PInv
<1> QED
  BY <1>1, <1>2, ClosesKeeps, CloseThrowsKeeps

-----------------------------------------------------------------------------
(* The theorems.                                                           *)

LEMMA StepKeeps == ASSUME PInv, [Next]_vars PROVE PInv'
<1>1. CASE UNCHANGED vars
  <2>1. stage' = stage /\ stage' \in Stages
    BY <1>1 DEF vars, PInv, TypeOk
  <2> QED
    BY <1>1, <2>1, StageChanges DEF vars, PInv
<1>2. CASE Next
  BY <1>2, OpenKeeps, AppendRowKeeps, AppendFailsKeeps, InterruptKeeps, CloseKeeps,
     CloseFailsKeeps, DestroyKeeps, PublishKeeps, RemoveKeeps DEF Next
<1> QED
  BY <1>1, <1>2

LEMMA Invariant == Spec => []PInv
<1>1. Init => PInv
  BY InitInv
<1>2. PInv /\ [Next]_vars => PInv'
  BY StepKeeps
<1> QED
  BY <1>1, <1>2, PTL DEF Spec

\* Row groups and rows together are the records, in order and each once.
LEMMA AllAppended ==
  ASSUME PInv, NEW c \in Columns
  PROVE  written[c] \o rows = Appended
<1>1. /\ written[c] \in Values /\ rows \in Values /\ appended \in 0 .. MaxRows
      /\ MaxRows \in Nat /\ Split(rows, appended)
  BY ParquetAssumption DEF PInv, TypeOk
<1>2. First(written[c] \o rows, appended) /\ written[c] \o rows \in Values
  BY <1>1, FirstThenNewest DEF Split
<1>3. Appended \in Values /\ Len(Appended) = appended /\ \A i \in 1 .. appended : Appended[i] = i
  BY <1>1 DEF Appended, Values
<1> HIDE DEF Appended
<1> QED
  BY <1>2, <1>3, SameSequence DEF First

\* Rows, builders and row groups have their types, and no more rows are held
\* than make a row group: the bound on memory parquet_writer.hpp promises.
THEOREM TypeCorrect == Spec => []TypeOk
<1>1. PInv => TypeOk
  BY DEF PInv
<1> QED
  BY <1>1, Invariant, PTL

\* Append loses, repeats and moves no row, in no column, for any size of a row
\* group: while nothing has failed, row groups and rows are all the records.
THEOREM NothingLostInFlight == Spec => []InFlightExact
<1>1. PInv => InFlightExact
  <2> SUFFICES ASSUME PInv, stage \in {"open", "closed", "published"}
               PROVE  /\ \A c \in Columns : written[c] \o rows = Appended /\ builders[c] = <<>>
                      /\ Len(rows) < RowGroupSize
    BY DEF InFlightExact
  <2>1. \A c \in Columns : written[c] \o rows = Appended
    BY AllAppended
  <2>2. builders = Empty /\ Len(rows) < RowGroupSize
    BY EmptyValues, ParquetAssumption DEF PInv, Fresh
  <2> QED
    BY <2>1, <2>2, EmptyOfEach
<1> QED
  BY <1>1, Invariant, PTL

\* Whichever call of Arrow fails, a file that gets its footer, from Close or
\* from the destructor after the failure, has every record once and in order
\* in every column; and only such a file is published.
THEOREM FinishedFilesExact == Spec => []FileExact
<1>1. PInv => FileExact
  <2> SUFFICES ASSUME PInv
               PROVE  FileExact
    OBVIOUS
  <2>1. stage = "published" => footer /\ ~torn
    BY DEF PInv
  <2>2. ASSUME footer
        PROVE  /\ \A c \in Columns : written[c] = Appended
               /\ late \cap 1 .. appended = {}
               /\ \A end \in groups : end % RowGroupSize = 0 \/ end = appended
    <3>1. rows = <<>> /\ Len(rows) = 0 /\ appended \in Nat
      BY <2>2, EmptyValues, ParquetAssumption DEF PInv, TypeOk
    <3>2. ASSUME NEW c \in Columns PROVE written[c] = Appended
      <4>1. written[c] \in Seq(1 .. MaxRows)
        BY DEF PInv, TypeOk, Values
      <4>2. written[c] \o <<>> = written[c]
        BY <4>1
      <4> QED
        BY <3>1, <4>2, AllAppended
    <3>3. late \cap 1 .. appended = {}
      BY <3>1 DEF PInv
    <3> QED
      BY <3>2, <3>3 DEF PInv
  <2> QED
    BY <2>1, <2>2 DEF FileExact
<1> QED
  BY <1>1, Invariant, PTL

-----------------------------------------------------------------------------
(* The comparison.  While it runs, both cursors stand at the row           *)
(* compared_rows says, and the files agree up to it.                       *)

\* A file of n rows.
IsTable(table, n) == \A c \in Columns : table[c] \in Seq(Nat) /\ Len(table[c]) = n

\* The reader has come to row k of a file of n: in a batch, or past its end.
IsCursor(at, n, k) ==
  /\ at \in [first : Nat, size : Nat, offset : Nat]
  /\ at.first + at.offset = k /\ at.first + at.size <= n
  /\ IF at.size = 0 THEN at.first = n /\ at.offset = 0 ELSE at.offset < at.size

Underway(n) ==
  /\ IsCursor(expected_at, n, compared_rows)
  /\ IsCursor(actual_at, appended, compared_rows)
  /\ \A c \in Columns, i \in 1 .. compared_rows : oracle[c][i] = written[c][i]

Comparing ==
  /\ stage = "published" /\ compared_rows \in Nat
  /\ verdict.kind # "not compared"
  /\ \A c \in Columns : written[c] = Appended
  /\ oracle = [c \in Columns |-> oracle[c]]
  /\ \E n \in Nat :
       IsTable(oracle, n) /\ (verdict.kind = "running" => Underway(n))
  /\ C!VerdictExact

CInv == (verdict = NotCompared /\ compared_rows = 0) \/ Comparing

LEMMA OneIsColumn == 1 \in Columns /\ BatchSize \in Nat /\ BatchSize > 0
  BY ParquetAssumption, RoundTripAssumption DEF Columns

LEMMA FieldsAreColumns == C!Fields = Columns
  BY DEF C!Fields, Columns

\* The next batch, wherever it is cut, begins at the row it should.
LEMMA BatchesAreCursors ==
  ASSUME NEW table, NEW n \in Nat, IsTable(table, n), NEW first \in 0 .. n,
         NEW at \in C!Batches(table, first)
  PROVE  IsCursor(at, n, first)
<1> DEFINE left == n - first
           most == IF left < BatchSize THEN left ELSE BatchSize
<1>1. C!NumRows(table) = n
  BY OneIsColumn DEF C!NumRows, IsTable
<1>2. left \in Nat /\ first \in Nat
  OBVIOUS
<1>3. CASE left = 0
  <2>1. at = [first |-> first, size |-> 0, offset |-> 0]
    BY <1>1, <1>3 DEF C!Batches
  <2>2. first = n
    BY <1>3
  <2> QED
    BY <2>1, <2>2 DEF IsCursor
<1>4. CASE left # 0
  <2>1. at \in [first : {first}, size : 1 .. most, offset : {0}]
    BY <1>1, <1>4 DEF C!Batches
  <2>2. most \in Nat /\ most <= left
    BY <1>2, OneIsColumn
  <2> HIDE DEF most
  <2>3. /\ at \in [first : Nat, size : Nat, offset : Nat]
        /\ at.first = first /\ at.offset = 0 /\ at.size \in 1 .. most
    BY <2>1, <2>2, <1>2
  <2>4. at.size > 0 /\ at.size <= left /\ at.size \in Nat
    BY <2>2, <2>3
  <2>5. first + at.size <= n /\ first + 0 = first
    BY <2>4
  <2> QED
    BY <2>3, <2>4, <2>5 DEF IsCursor
<1> QED
  BY <1>3, <1>4

LEMMA AdvanceKeepsCursor ==
  ASSUME NEW table, NEW n \in Nat, IsTable(table, n), NEW k \in Nat,
         NEW at, IsCursor(at, n, k), at.size # 0,
         NEW count \in Nat, count <= at.size - at.offset,
         NEW next \in C!Advance(table, at, count)
  PROVE  IsCursor(next, n, k + count)
<1>1. /\ at \in [first : Nat, size : Nat, offset : Nat]
      /\ at.first \in Nat /\ at.size \in Nat /\ at.offset \in Nat
      /\ at.first + at.offset = k /\ at.first + at.size <= n /\ at.offset < at.size
  BY DEF IsCursor
<1>2. CASE at.offset + count = at.size
  <2>1. next \in C!Batches(table, at.first + at.size)
    BY <1>2 DEF C!Advance
  <2>2. at.first + at.size \in 0 .. n /\ at.first + at.size = k + count
    BY <1>1, <1>2
  <2> QED
    BY <2>1, <2>2, BatchesAreCursors
<1>3. CASE at.offset + count # at.size
  <2>1. next = [at EXCEPT !.offset = @ + count]
    BY <1>3 DEF C!Advance
  <2>2. at.offset + count \in Nat
    BY <1>1
  <2>3. /\ next \in [first : Nat, size : Nat, offset : Nat]
        /\ next.first = at.first /\ next.size = at.size
        /\ next.offset = at.offset + count
    BY <2>1, <2>2, <1>1
  <2>4. next.first + next.offset = k + count /\ next.offset < next.size
    BY <2>3, <1>1, <1>3
  <2> QED
    BY <2>3, <2>4, <1>1 DEF IsCursor
<1> QED
  BY <1>2, <1>3

\* What an official file can be, as far as it matters here.
LEMMA OracleIsTable ==
  ASSUME appended \in Nat, NEW table \in Oracles
  PROVE  /\ \E n \in Nat : IsTable(table, n)
         /\ table = [c \in Columns |-> table[c]]
<1>1. PICK n \in Nat : \E wrong :
        table = [c \in Columns |-> [i \in 1 .. n |-> IF <<c, i>> \in wrong THEN 0 ELSE i]]
  BY DEF Oracles
<1>2. ASSUME NEW c \in Columns
      PROVE  table[c] \in Seq(Nat) /\ Len(table[c]) = n
  <2>1. PICK wrong : table[c] = [i \in 1 .. n |-> IF <<c, i>> \in wrong THEN 0 ELSE i]
    BY <1>1
  <2>2. table[c] \in [1 .. n -> Nat]
    BY <2>1
  <2> QED
    BY <2>2
<1> QED
  BY <1>1, <1>2 DEF IsTable

LEMMA WrittenIsTable ==
  ASSUME appended \in Nat, \A c \in Columns : written[c] = Appended
  PROVE  IsTable(written, appended)
<1>1. Appended \in [1 .. appended -> Nat]
  BY DEF Appended
<1>2. Appended \in Seq(Nat) /\ Len(Appended) = appended
  BY <1>1
<1> QED
  BY <1>2 DEF IsTable

\* Once it is published, the file is left alone.
LEMMA PublishedStays == stage = "published" => ~Next
  BY DEF Next, Open, AppendRow, AppendFails, Receive, Interrupt, Close, CloseFails,
         Destroy, Publish, Remove, Goes

LEMMA AgreeIs ==
  ASSUME NEW k \in Nat
  PROVE  C!Agree(0, k - 1) <=> \A c \in Columns, i \in 1 .. k : oracle[c][i] = written[c][i]
<1>1. ASSUME C!Agree(0, k - 1), NEW c \in Columns, NEW i \in 1 .. k
      PROVE  oracle[c][i] = written[c][i]
  <2>1. i - 1 \in 0 .. k - 1 /\ (i - 1) + 1 = i
    OBVIOUS
  <2> QED
    BY <1>1, <2>1, FieldsAreColumns DEF C!Agree
<1>2. ASSUME \A c \in Columns, i \in 1 .. k : oracle[c][i] = written[c][i],
             NEW c \in Columns, NEW j \in 0 .. k - 1
      PROVE  oracle[c][j + 1] = written[c][j + 1]
  <2>1. j + 1 \in 1 .. k
    OBVIOUS
  <2> QED
    BY <1>2, <2>1
<1> QED
  BY <1>1, <1>2, FieldsAreColumns DEF C!Agree

\* Two batches have at least a row in common, and rows of the same number.
LEMMA CommonRows ==
  ASSUME NEW n \in Nat, appended \in Nat, compared_rows \in Nat, Underway(n),
         ~C!IsNone(expected_at), ~C!IsNone(actual_at)
  PROVE  /\ C!RowCount \in Nat /\ C!RowCount > 0
         /\ C!RowCount <= expected_at.size - expected_at.offset
         /\ C!RowCount <= actual_at.size - actual_at.offset
         /\ compared_rows + C!RowCount <= n /\ compared_rows + C!RowCount <= appended
         /\ \A c, i : C!Differ(c, i) <=>
              oracle[c][compared_rows + i + 1] # written[c][compared_rows + i + 1]
<1>1. /\ expected_at \in [first : Nat, size : Nat, offset : Nat]
      /\ expected_at.first + expected_at.offset = compared_rows
      /\ expected_at.first + expected_at.size <= n
      /\ expected_at.offset < expected_at.size
  BY DEF Underway, IsCursor, C!IsNone
<1>2. /\ actual_at \in [first : Nat, size : Nat, offset : Nat]
      /\ actual_at.first + actual_at.offset = compared_rows
      /\ actual_at.first + actual_at.size <= appended
      /\ actual_at.offset < actual_at.size
  BY DEF Underway, IsCursor, C!IsNone
<1> DEFINE e == expected_at.size - expected_at.offset
           a == actual_at.size - actual_at.offset
<1>3. /\ e \in Nat /\ a \in Nat /\ e > 0 /\ a > 0
      /\ compared_rows + e <= n /\ compared_rows + a <= appended
  BY <1>1, <1>2
<1>4. C!RowCount = IF e < a THEN e ELSE a
  BY DEF C!RowCount
<1>5. \A c, i : C!Differ(c, i) <=>
        oracle[c][compared_rows + i + 1] # written[c][compared_rows + i + 1]
  BY <1>1, <1>2 DEF C!Differ
<1> HIDE DEF e, a
<1>6. /\ C!RowCount \in Nat /\ C!RowCount > 0 /\ C!RowCount <= e /\ C!RowCount <= a
      /\ compared_rows + C!RowCount <= n /\ compared_rows + C!RowCount <= appended
  BY <1>3, <1>4
<1> QED
  BY <1>5, <1>6 DEF e, a

LEMMA InitCInv == RInit => CInv
  BY DEF RInit, CInv

LEMMA CIdle ==
  ASSUME CInv, UNCHANGED <<vars, comparison>>
  PROVE  CInv'
<1>1. UNCHANGED <<stage, written, appended, oracle, expected_at, actual_at, compared_rows, verdict>>
  BY DEF vars, comparison
<1>2. Appended' = Appended
  BY <1>1 DEF Appended
<1>3. \A n : (IsTable(oracle, n))' <=> IsTable(oracle, n)
  BY <1>1 DEF IsTable
<1>4. \A n : Underway(n)' <=> Underway(n)
  BY <1>1 DEF Underway, IsCursor
<1>5. C!VerdictExact' <=> C!VerdictExact
  BY <1>1 DEF C!VerdictExact, C!Agree, C!NumRows
<1> QED
  BY <1>1, <1>2, <1>3, <1>4, <1>5 DEF CInv, Comparing

LEMMA StartKeeps ==
  ASSUME PInv, CInv, StartComparison
  PROVE  CInv'
<1>1. /\ stage = "published" /\ verdict' = [kind |-> "running"]
      /\ oracle' \in Oracles /\ compared_rows = 0
      /\ expected_at' \in C!Batches(oracle', 0) /\ actual_at' \in C!Batches(written, 0)
      /\ UNCHANGED <<vars, compared_rows>>
  BY DEF StartComparison, CInv, Comparing, NotCompared
<1>2. appended \in Nat /\ footer /\ ~torn /\ rows = <<>>
  BY <1>1, ParquetAssumption DEF PInv, TypeOk
<1>3. \A c \in Columns : written[c] = Appended
  <2>1. ASSUME NEW c \in Columns PROVE written[c] = Appended
    <3>1. written[c] \in Seq(1 .. MaxRows)
      BY DEF PInv, TypeOk, Values
    <3>2. written[c] \o <<>> = written[c]
      BY <3>1
    <3> QED
      BY <1>2, <3>2, AllAppended
  <2> QED
    BY <2>1
<1> DEFINE table == oracle'
<1>4. PICK n \in Nat : IsTable(table, n)
  BY <1>1, <1>2, OracleIsTable
<1>5. oracle' = [c \in Columns |-> oracle'[c]]
  BY <1>1, <1>2, OracleIsTable
<1> DEFINE at == expected_at'
           bt == actual_at'
<1>6. at \in C!Batches(table, 0) /\ bt \in C!Batches(written, 0)
  BY <1>1
<1> HIDE DEF table, at, bt
<1>7. IsCursor(at, n, 0)
  BY <1>4, <1>6, BatchesAreCursors
<1>8. IsCursor(bt, appended, 0)
  BY <1>2, <1>3, <1>6, WrittenIsTable, BatchesAreCursors
<1>9. compared_rows' = 0 /\ written' = written /\ appended' = appended /\ stage' = stage
  BY <1>1 DEF vars
<1>10. Underway(n)'
  BY <1>7, <1>8, <1>9 DEF Underway, IsCursor, at, bt
<1>11. C!VerdictExact'
  <2>1. C!Agree(0, compared_rows - 1)'
    BY <1>9 DEF C!Agree
  <2> QED
    BY <1>1, <2>1 DEF C!VerdictExact
<1>12. IsTable(oracle, n)'
  BY <1>4 DEF table, IsTable
<1>13. Appended' = Appended
  BY <1>9 DEF Appended
<1>14. Comparing'
  BY <1>1, <1>3, <1>5, <1>9, <1>10, <1>11, <1>12, <1>13 DEF Comparing
<1> QED
  BY <1>14 DEF CInv

\* What the tool's steps leave alone, and what they start from.
Reached(n) ==
  /\ stage = "published" /\ compared_rows \in Nat /\ appended \in Nat
  /\ \A c \in Columns : written[c] = Appended
  /\ oracle = [c \in Columns |-> oracle[c]] /\ written = [c \in Columns |-> written[c]]
  /\ n \in Nat /\ IsTable(oracle, n) /\ IsTable(written, appended) /\ Underway(n)

LEMMA RunningReached ==
  ASSUME PInv, Comparing, verdict.kind = "running"
  PROVE  \E n : Reached(n)
<1>1. appended \in Nat /\ written \in [Columns -> Values]
  BY ParquetAssumption DEF PInv, TypeOk
<1>2. PICK n \in Nat : IsTable(oracle, n) /\ Underway(n)
  BY DEF Comparing
<1>3. IsTable(written, appended)
  BY <1>1, WrittenIsTable DEF Comparing
<1> QED
  BY <1>1, <1>2, <1>3 DEF Comparing, Reached

\* A step that only gives the verdict.
LEMMA VerdictKeeps ==
  ASSUME NEW n, Reached(n), verdict'.kind \notin {"not compared", "running"}, C!VerdictExact',
         UNCHANGED <<vars, oracle, expected_at, actual_at, compared_rows>>
  PROVE  CInv'
<1>1. UNCHANGED <<stage, written, appended, oracle, compared_rows>>
  BY DEF vars
<1>2. Appended' = Appended
  BY <1>1 DEF Appended
<1>3. IsTable(oracle, n)'
  BY <1>1 DEF Reached, IsTable
<1>4. Comparing'
  BY <1>1, <1>2, <1>3 DEF Reached, Comparing
<1> QED
  BY <1>4 DEF CInv

LEMMA ReportDifferenceKeeps ==
  ASSUME NEW n, Reached(n), C!ReportDifference, UNCHANGED vars
  PROVE  CInv'
<1>1. PICK c \in C!Fields, i \in 0 .. C!RowCount - 1 :
        /\ C!IsFirstDifference(c, i)
        /\ verdict' = [kind |-> "difference", row |-> compared_rows + i, column |-> c]
  BY DEF C!ReportDifference
<1>2. /\ UNCHANGED <<oracle, written, expected_at, actual_at, compared_rows>>
      /\ ~C!IsNone(expected_at) /\ ~C!IsNone(actual_at)
  BY DEF C!ReportDifference, C!Running
<1>3. /\ n \in Nat /\ appended \in Nat /\ compared_rows \in Nat /\ Underway(n)
      /\ c \in Columns
  BY <1>1, FieldsAreColumns DEF Reached
<1>4. /\ C!RowCount \in Nat
      /\ \A d, j : C!Differ(d, j) <=>
           oracle[d][compared_rows + j + 1] # written[d][compared_rows + j + 1]
  BY <1>2, <1>3, CommonRows
<1> DEFINE row == compared_rows + i
<1>5. i \in Nat /\ row \in Nat
  BY <1>1, <1>3, <1>4
<1>6. oracle[c][row + 1] # written[c][row + 1]
  BY <1>1, <1>4 DEF C!IsFirstDifference
<1>7. ASSUME NEW k \in 1 .. row PROVE oracle[c][k] = written[c][k]
  <2>1. CASE k <= compared_rows
    <3>1. k \in 1 .. compared_rows
      BY <1>3, <1>5, <2>1
    <3> QED
      BY <1>3, <3>1 DEF Underway
  <2>2. CASE ~(k <= compared_rows)
    <3>1. /\ k - compared_rows - 1 \in 0 .. i - 1
          /\ compared_rows + (k - compared_rows - 1) + 1 = k
      BY <1>3, <1>5, <2>2
    <3>2. ~C!Differ(c, k - compared_rows - 1)
      BY <1>1, <3>1 DEF C!IsFirstDifference
    <3> QED
      BY <1>4, <3>1, <3>2
  <2> QED
    BY <2>1, <2>2
<1> HIDE DEF row
<1>8. verdict' = [kind |-> "difference", row |-> row, column |-> c]
  BY <1>1 DEF row
<1>9. verdict'.kind = "difference" /\ verdict'.row = row /\ verdict'.column = c
  BY <1>8
<1>10. C!VerdictExact'
  BY <1>2, <1>6, <1>7, <1>9 DEF C!VerdictExact
<1> QED
  BY <1>2, <1>9, <1>10, VerdictKeeps

LEMMA ReportEndKeeps ==
  ASSUME NEW n, Reached(n), C!ReportEnd, UNCHANGED vars
  PROVE  CInv'
<1>1. /\ UNCHANGED <<oracle, written, expected_at, actual_at, compared_rows>>
      /\ C!IsNone(expected_at) \/ C!IsNone(actual_at)
  BY DEF C!ReportEnd
<1>2. /\ verdict' = [kind |-> CASE ~C!IsNone(expected_at) -> "actual ended first"
                                [] ~C!IsNone(actual_at) -> "expected ended first"
                                [] OTHER -> "OK",
                     row |-> compared_rows]
  BY DEF C!ReportEnd
<1>3. /\ n \in Nat /\ appended \in Nat /\ compared_rows \in Nat /\ Underway(n)
      /\ C!NumRows(oracle) = n /\ C!NumRows(written) = appended
  BY OneIsColumn DEF Reached, IsTable, C!NumRows
<1>4. /\ C!IsNone(expected_at) => compared_rows = n
      /\ ~C!IsNone(expected_at) => compared_rows < n
  BY <1>3 DEF Underway, IsCursor, C!IsNone
<1>5. /\ C!IsNone(actual_at) => compared_rows = appended
      /\ ~C!IsNone(actual_at) => compared_rows < appended
  BY <1>3 DEF Underway, IsCursor, C!IsNone
<1>6. C!Agree(0, compared_rows - 1)
  BY <1>3, AgreeIs DEF Underway
<1>7. /\ C!NumRows(oracle)' = n /\ C!NumRows(written)' = appended
      /\ C!Agree(0, compared_rows - 1)'
  BY <1>1, <1>3, <1>6 DEF C!NumRows, C!Agree
<1>8. CASE ~C!IsNone(expected_at)
  <2>1. verdict'.kind = "actual ended first" /\ verdict'.row = compared_rows
    BY <1>1, <1>2, <1>8
  <2>2. compared_rows = appended /\ appended < n
    BY <1>1, <1>4, <1>5, <1>8
  <2>3. C!VerdictExact'
    BY <1>1, <1>7, <2>1, <2>2 DEF C!VerdictExact, C!Agree, C!NumRows
  <2> QED
    BY <1>1, <2>1, <2>3, VerdictKeeps
<1>9. CASE C!IsNone(expected_at) /\ ~C!IsNone(actual_at)
  <2>1. verdict'.kind = "expected ended first" /\ verdict'.row = compared_rows
    BY <1>2, <1>9
  <2>2. compared_rows = n /\ n < appended
    BY <1>4, <1>5, <1>9
  <2>3. C!VerdictExact'
    BY <1>1, <1>7, <2>1, <2>2 DEF C!VerdictExact, C!Agree, C!NumRows
  <2> QED
    BY <1>1, <2>1, <2>3, VerdictKeeps
<1>10. CASE C!IsNone(expected_at) /\ C!IsNone(actual_at)
  <2>1. verdict'.kind = "OK" /\ verdict'.row = compared_rows
    BY <1>2, <1>10
  <2>2. compared_rows = n /\ n = appended
    BY <1>4, <1>5, <1>10
  <2>3. ASSUME NEW c \in Columns PROVE oracle[c] = written[c]
    <3>1. /\ oracle[c] \in Seq(Nat) /\ Len(oracle[c]) = n
          /\ written[c] \in Seq(Nat) /\ Len(written[c]) = n
      BY <2>2 DEF Reached, IsTable
    <3>2. \A i \in 1 .. n : oracle[c][i] = written[c][i]
      BY <1>3, <2>2 DEF Underway
    <3> QED
      BY <3>1, <3>2
  <2>4. oracle = written
    <3>1. [c \in Columns |-> oracle[c]] = [c \in Columns |-> written[c]]
      BY <2>3
    <3> QED
      BY <3>1 DEF Reached
  <2>5. C!VerdictExact'
    BY <1>1, <1>7, <2>1, <2>2, <2>4 DEF C!VerdictExact
  <2> QED
    BY <1>1, <2>1, <2>5, VerdictKeeps
<1> QED
  BY <1>8, <1>9, <1>10

LEMMA CompareSlicesKeeps ==
  ASSUME NEW n, Reached(n), C!CompareSlices, UNCHANGED vars
  PROVE  CInv'
<1> DEFINE r == C!RowCount
           at == expected_at'
           bt == actual_at'
<1>1. /\ UNCHANGED <<oracle, written, verdict>> /\ verdict.kind = "running"
      /\ ~C!IsNone(expected_at) /\ ~C!IsNone(actual_at)
      /\ compared_rows' = compared_rows + r
      /\ at \in C!Advance(oracle, expected_at, r)
      /\ bt \in C!Advance(written, actual_at, r)
      /\ \A c \in Columns, i \in 0 .. r - 1 : ~C!Differ(c, i)
  BY FieldsAreColumns DEF C!CompareSlices, C!Running
<1>2. /\ n \in Nat /\ appended \in Nat /\ compared_rows \in Nat /\ Underway(n)
      /\ IsTable(oracle, n) /\ IsTable(written, appended)
      /\ IsCursor(expected_at, n, compared_rows)
      /\ IsCursor(actual_at, appended, compared_rows)
      /\ expected_at.size # 0 /\ actual_at.size # 0
  BY <1>1 DEF Reached, Underway, C!IsNone
<1>3. /\ r \in Nat /\ r <= expected_at.size - expected_at.offset
      /\ r <= actual_at.size - actual_at.offset
      /\ \A c, i : C!Differ(c, i) <=>
           oracle[c][compared_rows + i + 1] # written[c][compared_rows + i + 1]
  BY <1>1, <1>2, CommonRows
<1> HIDE DEF r, at, bt
<1>4. IsCursor(at, n, compared_rows + r)
  BY <1>1, <1>2, <1>3, AdvanceKeepsCursor
<1>5. IsCursor(bt, appended, compared_rows + r)
  BY <1>1, <1>2, <1>3, AdvanceKeepsCursor
<1>6. compared_rows + r \in Nat
  BY <1>2, <1>3
<1>7. ASSUME NEW c \in Columns, NEW i \in 1 .. compared_rows + r
      PROVE  oracle[c][i] = written[c][i]
  <2>1. CASE i <= compared_rows
    <3>1. i \in 1 .. compared_rows
      BY <1>2, <1>6, <2>1
    <3> QED
      BY <1>2, <3>1 DEF Underway
  <2>2. CASE ~(i <= compared_rows)
    <3>1. /\ i - compared_rows - 1 \in 0 .. r - 1
          /\ compared_rows + (i - compared_rows - 1) + 1 = i
      BY <1>2, <1>3, <1>6, <2>2
    <3> QED
      BY <1>1, <1>3, <3>1
  <2> QED
    BY <2>1, <2>2
<1> DEFINE k == compared_rows + r
<1>8. C!Agree(0, k - 1) /\ compared_rows' = k
  <2>1. k \in Nat /\ compared_rows' = k /\ \A c \in Columns, i \in 1 .. k : oracle[c][i] = written[c][i]
    BY <1>1, <1>6, <1>7
  <2> HIDE DEF k
  <2> QED
    BY <2>1, AgreeIs
<1>9. UNCHANGED <<stage, appended>> /\ Appended' = Appended
  BY DEF vars, Appended
<1>10. C!VerdictExact'
  <2>1. C!Agree(0, compared_rows - 1)'
    <3> HIDE DEF k
    <3> QED
      BY <1>1, <1>8 DEF C!Agree
  <2> QED
    BY <1>1, <2>1 DEF C!VerdictExact
<1>11. Underway(n)'
  BY <1>1, <1>4, <1>5, <1>7, <1>9 DEF Underway, IsCursor, at, bt
<1>12. IsTable(oracle, n)'
  BY <1>1, <1>2 DEF IsTable
<1>13. Comparing'
  BY <1>1, <1>2, <1>6, <1>9, <1>10, <1>11, <1>12 DEF Reached, Comparing
<1> QED
  BY <1>13 DEF CInv

LEMMA ComparisonInvariance == RSpec => []CInv
<1>1. RSpec => Spec
  <2>1. RInit => Init
    BY DEF RInit
  <2>2. [RNext]_<<vars, comparison>> => [Next]_vars
    BY DEF RNext, StartComparison
  <2> QED
    BY <2>1, <2>2, PTL DEF RSpec, Spec
<1>2. PInv /\ CInv /\ [RNext]_<<vars, comparison>> => CInv'
  <2> SUFFICES ASSUME PInv, CInv, [RNext]_<<vars, comparison>> PROVE CInv'
    OBVIOUS
  <2>1. CASE Next /\ UNCHANGED comparison
    <3>1. verdict = NotCompared /\ compared_rows = 0
      BY <2>1, PublishedStays DEF CInv, Comparing
    <3> QED
      BY <2>1, <3>1 DEF CInv, comparison
  <2>2. CASE StartComparison
    BY <2>2, StartKeeps
  <2>3. CASE verdict # NotCompared /\ C!Next /\ UNCHANGED vars
    <3>1. Comparing /\ verdict.kind = "running"
      BY <2>3 DEF CInv, C!Next, C!ReportDifference, C!CompareSlices, C!ReportEnd, C!Running
    <3>2. PICK n : Reached(n)
      BY <3>1, RunningReached
    <3> QED
      BY <2>3, <3>2, ReportDifferenceKeeps, CompareSlicesKeeps, ReportEndKeeps DEF C!Next
  <2>4. CASE UNCHANGED <<vars, comparison>>
    BY <2>4, CIdle
  <2> QED
    BY <2>1, <2>2, <2>3, <2>4 DEF RNext
<1> QED
  BY <1>1, <1>2, InitCInv, Invariant, PTL DEF RSpec

\* The tool's answer on a published file is about the records: it says that
\* the official file is the same exactly if it has the records the writer was
\* given, in every column, and a difference or an end it reports is the first;
\* for files of any length, cut into batches anywhere.
THEOREM ComparisonIsExact == RSpec => []ComparisonExact
<1>1. CInv => ComparisonExact
  <2> SUFFICES ASSUME CInv, verdict # NotCompared
               PROVE  /\ verdict.kind = "OK" => \A c \in Columns : oracle[c] = Appended
                      /\ C!VerdictExact
    BY DEF ComparisonExact
  <2>1. C!VerdictExact /\ \A c \in Columns : written[c] = Appended
    BY DEF CInv, Comparing
  <2>2. verdict.kind = "OK" => oracle = written
    BY <2>1 DEF C!VerdictExact
  <2> QED
    BY <2>1, <2>2
<1> QED
  BY <1>1, ComparisonInvariance, PTL
=============================================================================
