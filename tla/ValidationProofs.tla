--------------------------- MODULE ValidationProofs ---------------------------
(***************************************************************************)
(* That the framing validator finds exactly the DBN streams valid, of any  *)
(* length and cut into chunks in any way; and that its reader hands it the *)
(* whole of a file, compressed or not, and refuses none without cause.     *)
(*                                                                         *)
(* The steps do the induction over the input.  What has been read is       *)
(* framed up to the end of the record at hand (FramedTo), which may not    *)
(* have been read yet; and this end is forced: every framing of every      *)
(* continuation has a cut there.  The first gives that what is accepted is *)
(* a stream, the second that what is refused is none.                      *)
(***************************************************************************)
EXTENDS Validation, TLAPS

MetadataEnd(s) == PreludeSize + DeclaredLength(s)

\* Cuts from the end of the metadata to end, whose records all begin in s.
FramedTo(s, cuts, end) ==
  /\ cuts \subseteq MetadataEnd(s) .. end
  /\ MetadataEnd(s) \in cuts /\ end \in cuts
  /\ \A c \in cuts \ {end} :
       /\ c < Len(s)
       /\ LET next == c + RecordSize(s[c + 1])
          IN /\ next - c \in MinRecord .. MaxRecord /\ next \in cuts
             /\ \A d \in cuts : d <= c \/ d >= next

Continues(t, s) == Len(t) >= Len(s) /\ \A i \in 1 .. Len(s) : t[i] = s[i]

Forced(s, end) ==
  \A t \in Seq(Bytes), cuts \in SUBSET Nat :
    /\ Continues(t, s)
    /\ cuts \subseteq MetadataEnd(t) .. Len(t)
    /\ FramedBy(t, cuts)
    => end \in cuts

Located(s, metadata, record) ==
  /\ metadata # 0 => record = 0 /\ Len(s) + metadata = MetadataEnd(s)
  /\ metadata = 0 =>
       /\ \E cuts \in SUBSET Nat : FramedTo(s, cuts, Len(s) + record)
       /\ Forced(s, Len(s) + record)

FInv ==
  /\ TypeOk /\ consumed \in Seq(Bytes)
  /\ InPrelude => /\ prelude = consumed /\ verdict \in {"open", "truncated"}
                  /\ metadata_remaining = 0 /\ record_remaining = 0
  /\ ~InPrelude => Len(consumed) >= PreludeSize
  /\ ~InPrelude /\ verdict # "bad prefix" =>
       HasDbnPrefix(consumed) /\ Located(consumed, metadata_remaining, record_remaining)
  /\ verdict = "bad prefix" => ~HasDbnPrefix(consumed)
  /\ verdict = "bad length" =>
       /\ metadata_remaining = 0 /\ record_remaining = 0
       /\ chunk # <<>> /\ ~SizeOk(RecordSize(chunk[1]))
  /\ verdict = "valid" => ~InPrelude /\ metadata_remaining = 0 /\ record_remaining = 0
  /\ verdict = "truncated" => InPrelude \/ metadata_remaining # 0 \/ record_remaining # 0

-----------------------------------------------------------------------------
(* Sequences of bytes.                                                     *)

LEMMA Constants ==
  /\ PreludeSize = 3 /\ MaxByte \in Nat /\ Magic \in Bytes /\ Bytes \subseteq Nat
  /\ MinRecord \in Nat /\ MaxRecord \in Nat /\ ChunkLimit \in Nat
  /\ MinRecord > 0 /\ MaxRecord > 0 /\ ChunkLimit > 0
  /\ \A w \in Bytes : RecordSize(w) \in Nat
<1>1. LengthMultiplier \in Nat
  BY FramingAssumption
<1>2. \A w \in Nat : RecordSize(w) \in Nat
  BY <1>1 DEF RecordSize
<1> QED
  BY <1>2, FramingAssumption DEF PreludeSize, Bytes

LEMMA Bounded ==
  /\ \A n \in 0 .. MaxRecord : n \in Nat
  /\ \A n \in 0 .. MaxRecord - 1 : n \in Nat
<1>1. MaxRecord \in Nat /\ MaxRecord - 1 \in Nat
  BY Constants
<1>2. ASSUME NEW n \in 0 .. MaxRecord PROVE n \in Nat
  BY <1>1
<1>3. ASSUME NEW n \in 0 .. MaxRecord - 1 PROVE n \in Nat
  BY <1>1
<1> QED
  BY <1>2, <1>3

LEMMA ChunkIsSequence ==
  \A x : x \in Chunks \cup {<<>>} <=> x \in Seq(Bytes) /\ Len(x) <= ChunkLimit
<1>1. ASSUME NEW x \in Chunks PROVE x \in Seq(Bytes) /\ Len(x) <= ChunkLimit
  <2>1. PICK n \in 1 .. ChunkLimit : x \in [1 .. n -> Bytes]
    BY DEF Chunks
  <2>2. n \in Nat
    BY Constants
  <2>3. x \in Seq(Bytes) /\ Len(x) = n
    BY <2>1, <2>2
  <2> QED
    BY <2>3, Constants
<1>2. <<>> \in Seq(Bytes) /\ Len(<<>>) <= ChunkLimit
  <2>1. <<>> \in Seq(Bytes) /\ Len(<<>>) = 0
    OBVIOUS
  <2> QED
    BY <2>1, Constants
<1>3. ASSUME NEW x \in Seq(Bytes), Len(x) <= ChunkLimit, x # <<>> PROVE x \in Chunks
  <2>1. x \in [1 .. Len(x) -> Bytes] /\ Len(x) \in 1 .. ChunkLimit
    BY <1>3, Constants
  <2> QED
    BY <2>1 DEF Chunks
<1> QED
  BY <1>1, <1>2, <1>3

LEMMA PreludeIsSequence ==
  \A x : x \in UNION {[1 .. n -> Bytes] : n \in 0 .. PreludeSize}
           <=> x \in Seq(Bytes) /\ Len(x) <= PreludeSize
<1>1. ASSUME NEW x, x \in UNION {[1 .. n -> Bytes] : n \in 0 .. PreludeSize}
      PROVE  x \in Seq(Bytes) /\ Len(x) <= PreludeSize
  <2>1. PICK n \in 0 .. PreludeSize : x \in [1 .. n -> Bytes]
    BY <1>1
  <2>2. n \in Nat
    BY Constants
  <2>3. x \in Seq(Bytes) /\ Len(x) = n
    BY <2>1, <2>2
  <2> QED
    BY <2>3, Constants
<1>2. ASSUME NEW x \in Seq(Bytes), Len(x) <= PreludeSize
      PROVE  x \in UNION {[1 .. n -> Bytes] : n \in 0 .. PreludeSize}
  <2>1. x \in [1 .. Len(x) -> Bytes] /\ Len(x) \in Nat
    OBVIOUS
  <2>2. Len(x) \in 0 .. PreludeSize
    BY <2>1, <1>2, Constants
  <2> QED
    BY <2>1, <2>2
<1> QED
  BY <1>1, <1>2

LEMMA Concat ==
  ASSUME NEW s \in Seq(Bytes), NEW t \in Seq(Bytes)
  PROVE  /\ s \o t \in Seq(Bytes) /\ Len(s \o t) = Len(s) + Len(t)
         /\ Continues(s \o t, s)
         /\ \A i \in 1 .. Len(t) : (s \o t)[Len(s) + i] = t[i]
  BY DEF Continues

\* The first n bytes of a chunk and the rest of it.
LEMMA Parts ==
  ASSUME NEW s \in Seq(Bytes), NEW n \in 0 .. Len(s)
  PROVE  /\ SubSeq(s, 1, n) \in Seq(Bytes) /\ Len(SubSeq(s, 1, n)) = n
         /\ \A i \in 1 .. n : SubSeq(s, 1, n)[i] = s[i]
         /\ SubSeq(s, n + 1, Len(s)) \in Seq(Bytes)
         /\ Len(SubSeq(s, n + 1, Len(s))) = Len(s) - n
<1>1. /\ SubSeq(s, 1, n) \in Seq(Bytes) /\ Len(SubSeq(s, 1, n)) = n
      /\ \A i \in 1 .. n : SubSeq(s, 1, n)[i] = s[i]
  OBVIOUS
<1>2. /\ SubSeq(s, n + 1, Len(s)) \in Seq(Bytes)
      /\ Len(SubSeq(s, n + 1, Len(s))) = Len(s) - n
  OBVIOUS
<1> QED
  BY <1>1, <1>2

LEMMA FillerIsSequence ==
  ASSUME NEW n \in Nat
  PROVE  Filler(n) \in Seq(Bytes) /\ Len(Filler(n)) = n
<1>1. Filler(n) \in [1 .. n -> Bytes]
  BY Constants DEF Filler
<1> QED
  BY <1>1

LEMMA ContinuingContinues ==
  ASSUME NEW s \in Seq(Bytes), NEW t \in Seq(Bytes), NEW u \in Seq(Bytes),
         Continues(u, t), Continues(t, s)
  PROVE  Continues(u, s)
  BY DEF Continues

\* What two bytes can declare.
LEMMA LengthsDeclared ==
  /\ \A n \in Lengths : n \in Nat
  /\ \A n \in Lengths, m \in Nat : m <= n => m \in Lengths
  /\ \A low, high \in Bytes : low + (MaxByte + 1) * high \in Lengths
<1>1. ASSUME NEW low \in Bytes, NEW high \in Bytes
      PROVE  low + (MaxByte + 1) * high \in Lengths
  <2>1. MaxByte \in Nat /\ low \in Nat /\ high \in Nat /\ low <= MaxByte /\ high <= MaxByte
    BY Constants DEF Bytes
  <2>2. /\ (MaxByte + 1) * high \in Nat /\ (MaxByte + 1) * MaxByte \in Nat
        /\ (MaxByte + 1) * high <= (MaxByte + 1) * MaxByte
    BY <2>1
  <2> QED
    BY <2>1, <2>2 DEF Lengths
<1>2. MaxByte + (MaxByte + 1) * MaxByte \in Nat
  <2>1. MaxByte \in Nat
    BY Constants
  <2> QED
    BY <2>1
<1> QED
  BY <1>1, <1>2 DEF Lengths

LEMMA PreludeContinues ==
  ASSUME NEW s \in Seq(Bytes), NEW t \in Seq(Bytes), Len(s) >= PreludeSize,
         Continues(t, s)
  PROVE  /\ Len(t) >= PreludeSize /\ (HasDbnPrefix(t) <=> HasDbnPrefix(s))
         /\ MetadataEnd(t) = MetadataEnd(s) /\ DeclaredLength(t) = DeclaredLength(s)
         /\ DeclaredLength(s) \in Lengths /\ MetadataEnd(s) \in Nat
<1>1. Len(s) >= 3 /\ 1 \in 1 .. Len(s) /\ 2 \in 1 .. Len(s) /\ 3 \in 1 .. Len(s)
  BY Constants
<1>2. /\ t[1] = s[1] /\ t[2] = s[2] /\ t[3] = s[3] /\ Len(t) >= 3
      /\ s[2] \in Bytes /\ s[3] \in Bytes
  BY <1>1 DEF Continues
<1>3. /\ DeclaredLength(t) = DeclaredLength(s) /\ DeclaredLength(s) \in Lengths
      /\ DeclaredLength(s) \in Nat
  BY <1>2, LengthsDeclared DEF DeclaredLength
<1>4. MetadataEnd(t) = MetadataEnd(s) /\ MetadataEnd(s) \in Nat
  BY <1>3, LengthsDeclared, Constants DEF MetadataEnd
<1>5. HasDbnPrefix(t) <=> HasDbnPrefix(s)
  BY <1>2 DEF HasDbnPrefix
<1> QED
  BY <1>2, <1>3, <1>4, <1>5, Constants

-----------------------------------------------------------------------------
(* Framings.                                                               *)

\* A framing of all that was read is one of a DBN stream.
LEMMA FramedIsWellFormed ==
  ASSUME NEW s \in Seq(Bytes), Len(s) >= PreludeSize, HasDbnPrefix(s),
         NEW cuts \in SUBSET Nat, FramedTo(s, cuts, Len(s))
  PROVE  WellFormed(s)
<1>1. cuts \in SUBSET (MetadataEnd(s) .. Len(s)) /\ MetadataEnd(s) \in cuts
  BY DEF FramedTo
<1>2. FramedBy(s, cuts)
  BY DEF FramedTo, FramedBy, MetadataEnd
<1>3. MetadataEnd(s) <= Len(s)
  BY <1>1, PreludeContinues DEF Continues
<1> QED
  BY <1>1, <1>2, <1>3 DEF WellFormed, MetadataEnd

\* Where the metadata ends, the first record begins.
LEMMA AtMetadataEnd ==
  ASSUME NEW s \in Seq(Bytes), Len(s) >= PreludeSize, Len(s) = MetadataEnd(s)
  PROVE  FramedTo(s, {Len(s)}, Len(s)) /\ Forced(s, Len(s))
<1>1. FramedTo(s, {Len(s)}, Len(s))
  BY DEF FramedTo
<1>2. ASSUME NEW t \in Seq(Bytes), NEW cuts \in SUBSET Nat,
             Continues(t, s), FramedBy(t, cuts)
      PROVE  Len(s) \in cuts
  BY <1>2, PreludeContinues DEF FramedBy, MetadataEnd
<1> QED
  BY <1>1, <1>2 DEF Forced

\* More of the record at hand moves no cut.
LEMMA MoreOfRecord ==
  ASSUME NEW s \in Seq(Bytes), NEW t \in Seq(Bytes), Len(s) >= PreludeSize,
         Continues(t, s), NEW end \in Nat
  PROVE  /\ \A cuts \in SUBSET Nat : FramedTo(s, cuts, end) => FramedTo(t, cuts, end)
         /\ Forced(s, end) => Forced(t, end)
<1>1. ASSUME NEW cuts \in SUBSET Nat, FramedTo(s, cuts, end)
      PROVE  FramedTo(t, cuts, end)
  <2>1. MetadataEnd(t) = MetadataEnd(s)
    BY PreludeContinues
  <2>2. ASSUME NEW c \in cuts \ {end}
        PROVE  c < Len(t) /\ t[c + 1] = s[c + 1]
    <3>1. c < Len(s) /\ c \in Nat
      BY <1>1 DEF FramedTo
    <3>2. c + 1 \in 1 .. Len(s) /\ Len(t) >= Len(s)
      BY <3>1 DEF Continues
    <3>3. t[c + 1] = s[c + 1]
      BY <3>2 DEF Continues
    <3> QED
      BY <3>1, <3>2, <3>3
  <2> QED
    BY <1>1, <2>1, <2>2 DEF FramedTo
<1>2. Forced(s, end) => Forced(t, end)
  BY ContinuingContinues DEF Forced
<1> QED
  BY <1>1, <1>2

\* A record that begins where the last one ended adds the cut at its end, and
\* leaves no other choice.
LEMMA NextRecord ==
  ASSUME NEW s \in Seq(Bytes), NEW part \in Seq(Bytes), Len(s) >= PreludeSize,
         Len(part) > 0, SizeOk(RecordSize(part[1])),
         NEW cuts \in SUBSET Nat, FramedTo(s, cuts, Len(s)), Forced(s, Len(s))
  PROVE  LET end == Len(s) + RecordSize(part[1])
         IN /\ FramedTo(s \o part, cuts \cup {end}, end)
            /\ Forced(s \o part, end)
<1> DEFINE end == Len(s) + RecordSize(part[1])
           t == s \o part
<1>1. /\ t \in Seq(Bytes) /\ Continues(t, s) /\ Len(t) > Len(s)
      /\ t[Len(s) + 1] = part[1] /\ part[1] \in Bytes
  BY Concat
<1>2. /\ end \in Nat /\ end > Len(s) /\ end - Len(s) \in MinRecord .. MaxRecord
      /\ RecordSize(part[1]) \in Nat
  <2>1. RecordSize(part[1]) \in MinRecord .. MaxRecord /\ RecordSize(part[1]) \in Nat
    <3> HIDE DEF t
    <3>1. RecordSize(part[1]) \in Nat
      BY <1>1, Constants
    <3>2. RecordSize(part[1]) >= MinRecord /\ RecordSize(part[1]) <= MaxRecord
      BY DEF SizeOk
    <3> QED
      BY <3>1, <3>2, Constants
  <2>2. /\ MinRecord > 0 /\ Len(s) \in Nat
        /\ (Len(s) + RecordSize(part[1])) - Len(s) = RecordSize(part[1])
    BY <2>1, Constants
  <2> HIDE DEF t
  <2> QED
    BY <2>1, <2>2, Constants
<1>3. MetadataEnd(t) = MetadataEnd(s) /\ MetadataEnd(s) \in Nat
  BY <1>1, PreludeContinues
<1>4. FramedTo(t, cuts \cup {end}, end)
  <2>1. /\ cuts \cup {end} \subseteq MetadataEnd(t) .. end
        /\ MetadataEnd(t) \in cuts /\ Len(s) \in cuts
        /\ \A d \in cuts : d <= Len(s)
    <3>1. /\ cuts \subseteq MetadataEnd(s) .. Len(s)
          /\ MetadataEnd(s) \in cuts /\ Len(s) \in cuts
      BY DEF FramedTo
    <3> HIDE DEF end, t
    <3> QED
      BY <3>1, <1>2, <1>3
  <2>2. ASSUME NEW c \in cuts, c # end
        PROVE  /\ c < Len(t)
               /\ LET next == c + RecordSize(t[c + 1])
                  IN /\ next - c \in MinRecord .. MaxRecord /\ next \in cuts \cup {end}
                     /\ \A d \in cuts \cup {end} : d <= c \/ d >= next
    <3>1. CASE c = Len(s)
      <4>1. c + RecordSize(t[c + 1]) = end /\ c < Len(t)
        BY <3>1, <1>1
      <4>2. \A d \in cuts \cup {end} : d <= c \/ d >= end
        BY <3>1, <2>1, <1>2
      <4> QED
        BY <4>1, <4>2, <3>1, <1>2
    <3>2. CASE c # Len(s)
      <4>1. c < Len(s) /\ t[c + 1] = s[c + 1] /\ c < Len(t)
        BY <3>2, <2>1, <1>1 DEF Continues
      <4>2. /\ (c + RecordSize(s[c + 1])) - c \in MinRecord .. MaxRecord
            /\ c + RecordSize(s[c + 1]) \in cuts
            /\ \A d \in cuts : d <= c \/ d >= c + RecordSize(s[c + 1])
        BY <3>2 DEF FramedTo
      <4>3. end >= c + RecordSize(s[c + 1])
        BY <4>2, <2>1, <1>2
      <4> QED
        BY <4>1, <4>2, <4>3
    <3> QED
      BY <3>1, <3>2
  <2> HIDE DEF end, t
  <2> QED
    BY <2>1, <2>2 DEF FramedTo
<1>5. Forced(t, end)
  <2>1. ASSUME NEW u \in Seq(Bytes), NEW c \in SUBSET Nat, Continues(u, t),
               c \subseteq MetadataEnd(u) .. Len(u), FramedBy(u, c)
        PROVE  end \in c
    <3>1. Len(s) \in c
      BY <2>1, <1>1, ContinuingContinues DEF Forced
    <3>2. Len(u) > Len(s) /\ u[Len(s) + 1] = part[1]
      BY <2>1, <1>1 DEF Continues
    <3> QED
      BY <3>1, <3>2, <2>1 DEF FramedBy
  <2> QED
    BY <2>1 DEF Forced
<1> QED
  BY <1>4, <1>5

-----------------------------------------------------------------------------
(* The verdicts.                                                           *)

\* What ends before the byte the counters wait for is no DBN stream.
LEMMA TooShort ==
  ASSUME NEW s \in Seq(Bytes), NEW t \in Seq(Bytes), Len(s) >= PreludeSize,
         Continues(t, s), NEW m \in Nat, NEW r \in Nat, Located(s, m, r),
         Len(t) < Len(s) + m + r
  PROVE  ~WellFormed(t)
<1> SUFFICES ASSUME WellFormed(t) PROVE FALSE
  OBVIOUS
<1>1. MetadataEnd(t) = MetadataEnd(s) /\ MetadataEnd(t) \in Nat
  BY PreludeContinues
<1>2. MetadataEnd(t) <= Len(t)
  BY DEF WellFormed, MetadataEnd
<1>3. CASE m # 0
  BY <1>1, <1>2, <1>3 DEF Located
<1>4. CASE m = 0
  <2>1. Forced(s, Len(s) + r)
    BY <1>4 DEF Located
  <2>2. PICK cuts \in SUBSET (MetadataEnd(t) .. Len(t)) : FramedBy(t, cuts)
    BY DEF WellFormed, MetadataEnd
  <2>3. cuts \in SUBSET Nat
    BY <2>2, <1>1
  <2>4. Len(s) + r \in cuts
    BY <2>1, <2>2, <2>3 DEF Forced
  <2> QED
    BY <2>2, <2>4, <1>1, <1>4
<1> QED
  BY <1>3, <1>4

\* What ends with the last byte the counters wait for is one, whatever the
\* bytes.
LEMMA JustRight ==
  ASSUME NEW s \in Seq(Bytes), NEW t \in Seq(Bytes), Len(s) >= PreludeSize,
         HasDbnPrefix(s), Continues(t, s), NEW m \in Nat, NEW r \in Nat,
         Located(s, m, r), Len(t) = Len(s) + m + r
  PROVE  WellFormed(t)
<1>1. /\ MetadataEnd(t) = MetadataEnd(s) /\ HasDbnPrefix(t)
      /\ Len(t) >= PreludeSize
  BY PreludeContinues
<1>2. CASE m # 0
  <2>1. Len(t) = MetadataEnd(t)
    BY <1>1, <1>2 DEF Located
  <2>2. FramedTo(t, {Len(t)}, Len(t)) /\ {Len(t)} \in SUBSET Nat
    BY <1>1, <2>1, AtMetadataEnd
  <2> QED
    BY <1>1, <2>2, FramedIsWellFormed
<1>3. CASE m = 0
  <2>1. PICK cuts \in SUBSET Nat : FramedTo(s, cuts, Len(s) + r)
    BY <1>3 DEF Located
  <2>2. Len(s) + r = Len(t) /\ Len(t) \in Nat
    BY <1>3
  <2>3. FramedTo(t, cuts, Len(t))
    BY <2>1, <2>2, MoreOfRecord
  <2> QED
    BY <1>1, <2>3, FramedIsWellFormed
<1> QED
  BY <1>2, <1>3

\* A record of a length no record has makes a stream of no continuation.
LEMMA BadRecord ==
  ASSUME NEW s \in Seq(Bytes), NEW t \in Seq(Bytes), Len(s) >= PreludeSize,
         Continues(t, s), Located(s, 0, 0), Len(t) > Len(s),
         t[Len(s) + 1] \in Bytes, ~SizeOk(RecordSize(t[Len(s) + 1]))
  PROVE  ~WellFormed(t)
<1> SUFFICES ASSUME WellFormed(t) PROVE FALSE
  OBVIOUS
<1>1. MetadataEnd(t) \in Nat
  BY PreludeContinues
<1>2. PICK cuts \in SUBSET (MetadataEnd(t) .. Len(t)) : FramedBy(t, cuts)
  BY DEF WellFormed, MetadataEnd
<1>3. cuts \in SUBSET Nat
  BY <1>1, <1>2
<1>4. Len(s) + 0 = Len(s) /\ Len(s) \in Nat
  OBVIOUS
<1>5. Len(s) \in cuts
  BY <1>2, <1>3, <1>4 DEF Forced, Located
<1>6. (Len(s) + RecordSize(t[Len(s) + 1])) - Len(s) \in MinRecord .. MaxRecord
  BY <1>2, <1>5 DEF FramedBy
<1>7. RecordSize(t[Len(s) + 1]) \in Nat
  BY Constants
<1>8. RecordSize(t[Len(s) + 1]) \in MinRecord .. MaxRecord
  BY <1>4, <1>6, <1>7
<1> QED
  BY <1>7, <1>8, Constants DEF SizeOk

LEMMA Typed ==
  ASSUME TypeOk, consumed \in Seq(Bytes)
  PROVE  /\ prelude \in Seq(Bytes) /\ Len(prelude) \in Nat /\ Len(prelude) <= PreludeSize
         /\ chunk \in Seq(Bytes) /\ Len(chunk) \in Nat
         /\ chunk # <<>> => Len(chunk) > 0 /\ chunk[1] \in Bytes
         /\ metadata_remaining \in Nat /\ record_remaining \in Nat
         /\ Len(consumed) \in Nat
<1>1. prelude \in UNION {[1 .. n -> Bytes] : n \in 0 .. PreludeSize}
  BY DEF TypeOk
<1>2. prelude \in Seq(Bytes) /\ Len(prelude) <= PreludeSize
  BY <1>1, PreludeIsSequence
<1>3. chunk \in Seq(Bytes)
  BY ChunkIsSequence DEF TypeOk
<1>4. chunk # <<>> => Len(chunk) > 0 /\ chunk[1] \in Bytes
  <2>1. chunk # <<>> => Len(chunk) > 0
    BY <1>3
  <2> QED
    BY <1>3, <2>1
<1>5. metadata_remaining \in Nat /\ record_remaining \in Nat
  <2>1. metadata_remaining \in Lengths /\ record_remaining \in 0 .. MaxRecord - 1
    BY DEF TypeOk
  <2> QED
    BY <2>1, LengthsDeclared, Constants, Bounded
<1> QED
  BY <1>2, <1>3, <1>4, <1>5

LEMMA VerdictFollows == FInv => VerdictExact
<1> SUFFICES ASSUME FInv PROVE VerdictExact
  OBVIOUS
<1>1. /\ prelude \in Seq(Bytes) /\ metadata_remaining \in Nat
      /\ record_remaining \in Nat /\ consumed \in Seq(Bytes)
      /\ Len(consumed) \in Nat
  BY Typed DEF FInv
<1>2. Continues(consumed, consumed)
  BY <1>1 DEF Continues
<1>3. ASSUME verdict = "valid" PROVE WellFormed(consumed)
  <2>1. /\ Len(consumed) >= PreludeSize /\ HasDbnPrefix(consumed)
        /\ Located(consumed, 0, 0)
    BY <1>3 DEF FInv
  <2>2. Len(consumed) = Len(consumed) + 0 + 0
    BY <1>1
  <2> QED
    BY <1>1, <1>2, <2>1, <2>2, JustRight
<1>4. ASSUME verdict = "truncated" PROVE ~WellFormed(consumed)
  <2>1. CASE InPrelude
    <3>1. Len(consumed) < PreludeSize
      BY <2>1 DEF FInv, InPrelude
    <3> QED
      BY <3>1, <1>1, Constants DEF WellFormed
  <2>2. CASE ~InPrelude
    <3>1. /\ Len(consumed) >= PreludeSize
          /\ Located(consumed, metadata_remaining, record_remaining)
          /\ metadata_remaining # 0 \/ record_remaining # 0
      BY <1>4, <2>2 DEF FInv
    <3>2. Len(consumed) < Len(consumed) + metadata_remaining + record_remaining
      BY <1>1, <3>1
    <3> QED
      BY <1>1, <1>2, <3>1, <3>2, TooShort
  <2> QED
    BY <2>1, <2>2
<1> QED
  BY <1>3, <1>4 DEF VerdictExact

LEMMA CountersFollow == FInv => CountersExact
<1> SUFFICES ASSUME FInv, verdict = "open", ~InPrelude
             PROVE  /\ WellFormed(consumed \o Filler(metadata_remaining + record_remaining))
                    /\ \A n \in 0 .. metadata_remaining + record_remaining - 1 :
                         ~WellFormed(consumed \o Filler(n))
  BY DEF CountersExact
<1>1. /\ metadata_remaining \in Nat /\ record_remaining \in Nat
      /\ consumed \in Seq(Bytes) /\ Len(consumed) \in Nat
  BY Typed DEF FInv
<1>2. /\ Len(consumed) >= PreludeSize /\ HasDbnPrefix(consumed)
      /\ Located(consumed, metadata_remaining, record_remaining)
  BY DEF FInv
<1>3. ASSUME NEW n \in Nat
      PROVE  /\ consumed \o Filler(n) \in Seq(Bytes)
             /\ Len(consumed \o Filler(n)) = Len(consumed) + n
             /\ Continues(consumed \o Filler(n), consumed)
  BY <1>1, FillerIsSequence, Concat
<1>4. WellFormed(consumed \o Filler(metadata_remaining + record_remaining))
  <2>1. metadata_remaining + record_remaining \in Nat
    BY <1>1
  <2>2. Len(consumed \o Filler(metadata_remaining + record_remaining))
          = Len(consumed) + metadata_remaining + record_remaining
    BY <1>1, <1>3, <2>1
  <2> QED
    BY <1>1, <1>2, <1>3, <2>1, <2>2, JustRight
<1>5. ASSUME NEW n \in 0 .. metadata_remaining + record_remaining - 1
      PROVE  ~WellFormed(consumed \o Filler(n))
  <2>1. n \in Nat /\ n < metadata_remaining + record_remaining
    BY <1>1
  <2>2. Len(consumed \o Filler(n)) < Len(consumed) + metadata_remaining + record_remaining
    BY <1>1, <1>3, <2>1
  <2> QED
    BY <1>1, <1>2, <1>3, <2>1, <2>2, TooShort
<1> QED
  BY <1>4, <1>5

LEMMA LeastOf ==
  ASSUME NEW m \in Nat, NEW n \in Nat
  PROVE  /\ Least(m, n) \in Nat /\ Least(m, n) <= m /\ Least(m, n) <= n
         /\ Least(m, n) = m \/ Least(m, n) = n
  BY DEF Least

LEMMA FirstIsPart ==
  ASSUME NEW c \in Seq(Bytes)
  PROVE  /\ FirstOf(c) \in Seq(Bytes)
         /\ c # <<>> => /\ Len(FirstOf(c)) = 1 /\ FirstOf(c)[1] = c[1]
                        /\ c[1] \in Bytes
<1>1. CASE c = <<>>
  <2>1. Least(1, Len(c)) = 0 /\ 0 \in 0 .. Len(c)
    BY <1>1 DEF Least
  <2> QED
    BY <1>1, <2>1, Parts DEF FirstOf
<1>2. CASE c # <<>>
  <2>1. Len(c) > 0 /\ Len(c) \in Nat
    BY <1>2
  <2>2. Least(1, Len(c)) = 1
    BY <2>1, LeastOf
  <2>3. 1 \in 0 .. Len(c)
    BY <2>1
  <2>4. /\ SubSeq(c, 1, 1) \in Seq(Bytes) /\ Len(SubSeq(c, 1, 1)) = 1
        /\ \A i \in 1 .. 1 : SubSeq(c, 1, 1)[i] = c[i]
    BY <2>3, Parts
  <2>5. SubSeq(c, 1, 1)[1] = c[1] /\ c[1] \in Bytes
    BY <2>1, <2>4
  <2> QED
    BY <2>2, <2>4, <2>5 DEF FirstOf
<1> QED
  BY <1>1, <1>2

LEMMA WithFirst ==
  ASSUME NEW s \in Seq(Bytes), NEW c \in Seq(Bytes), NEW n \in Nat
  PROVE  LET t == s \o FirstOf(c) \o Filler(n)
         IN /\ t \in Seq(Bytes) /\ Continues(t, s)
            /\ c # <<>> => Len(t) > Len(s) /\ t[Len(s) + 1] = c[1]
<1> DEFINE u == s \o FirstOf(c)
           t == u \o Filler(n)
<1>1. /\ u \in Seq(Bytes) /\ Len(u) = Len(s) + Len(FirstOf(c))
      /\ Continues(u, s)
      /\ \A i \in 1 .. Len(FirstOf(c)) : u[Len(s) + i] = FirstOf(c)[i]
  BY FirstIsPart, Concat
<1>2. t \in Seq(Bytes) /\ Continues(t, u)
  <2> HIDE DEF u
  <2> QED
    BY <1>1, FillerIsSequence, Concat
<1>3. Continues(t, s)
  <2> HIDE DEF u, t
  <2> QED
    BY <1>1, <1>2, ContinuingContinues
<1>4. ASSUME c # <<>> PROVE Len(t) > Len(s) /\ t[Len(s) + 1] = c[1]
  <2> HIDE DEF u, t
  <2>1. Len(FirstOf(c)) = 1 /\ FirstOf(c)[1] = c[1]
    BY <1>4, FirstIsPart
  <2>2. u[Len(s) + 1] = c[1] /\ Len(u) = Len(s) + 1
    BY <1>1, <2>1
  <2>3. Len(s) + 1 \in 1 .. Len(u) /\ Len(s) \in Nat
    BY <2>2
  <2>4. Len(t) >= Len(u) /\ t[Len(s) + 1] = u[Len(s) + 1]
    BY <1>2, <2>3 DEF Continues
  <2>5. Len(t) \in Nat
    BY <1>2
  <2> QED
    BY <2>2, <2>3, <2>4, <2>5
<1> QED
  BY <1>2, <1>3, <1>4

LEMMA RefusalFollows == FInv => RefusalFinal
<1> SUFFICES ASSUME FInv, verdict \in {"bad prefix", "bad length"}, NEW n \in 0 .. MaxRecord
             PROVE  ~WellFormed(consumed \o FirstOf(chunk) \o Filler(n))
  BY DEF RefusalFinal
<1> DEFINE t == consumed \o FirstOf(chunk) \o Filler(n)
<1>1. /\ consumed \in Seq(Bytes) /\ chunk \in Seq(Bytes)
      /\ Len(consumed) \in Nat
      /\ chunk # <<>> => chunk[1] \in Bytes
  BY Typed DEF FInv
<1>2. ~InPrelude /\ Len(consumed) >= PreludeSize
  BY DEF FInv
<1>3. n \in Nat
  BY Bounded
<1>4. /\ t \in Seq(Bytes) /\ Continues(t, consumed)
      /\ chunk # <<>> => Len(t) > Len(consumed) /\ t[Len(consumed) + 1] = chunk[1]
  BY <1>1, <1>3, WithFirst
<1> HIDE DEF t
<1>5. CASE verdict = "bad prefix"
  <2>1. ~HasDbnPrefix(consumed)
    BY <1>5 DEF FInv
  <2>2. ~HasDbnPrefix(t)
    BY <1>1, <1>2, <1>4, <2>1, PreludeContinues
  <2> QED
    BY <2>2 DEF WellFormed, t
<1>6. CASE verdict = "bad length"
  <2>1. /\ Located(consumed, 0, 0) /\ chunk # <<>>
        /\ ~SizeOk(RecordSize(chunk[1]))
    BY <1>2, <1>6 DEF FInv
  <2>2. ~WellFormed(t)
    BY <1>1, <1>2, <1>4, <2>1, BadRecord
  <2> QED
    BY <2>2 DEF t
<1> QED
  BY <1>5, <1>6

-----------------------------------------------------------------------------
(* The steps.                                                              *)

LEMMA InitFInv == Init => FInv
<1> SUFFICES ASSUME Init PROVE FInv
  OBVIOUS
<1>1. /\ <<>> \in Seq(Bytes) /\ Len(<<>>) = 0 /\ 0 \in 0 .. MaxRecord - 1 /\ 0 \in Lengths
      /\ Len(<<>>) < PreludeSize /\ Len(<<>>) <= PreludeSize
  <2>1. <<>> \in Seq(Bytes) /\ Len(<<>>) = 0
    OBVIOUS
  <2>2. 0 \in 0 .. MaxRecord - 1
    BY Constants
  <2>3. 0 \in Lengths
    <3>1. 0 \in Bytes /\ 0 + (MaxByte + 1) * 0 = 0
      BY Constants DEF Bytes
    <3> QED
      BY <3>1, LengthsDeclared
  <2> QED
    BY <2>1, <2>2, <2>3, Constants
<1>2. <<>> \in UNION {[1 .. n -> Bytes] : n \in 0 .. PreludeSize}
  BY <1>1, PreludeIsSequence
<1> QED
  BY <1>1, <1>2 DEF Init, FInv, TypeOk, InPrelude

LEMMA Reading ==
  ASSUME TypeOk, consumed \in Seq(Bytes), NEW n \in 0 .. Len(chunk), Advance(n)
  PROVE  /\ consumed' \in Seq(Bytes) /\ Len(consumed') = Len(consumed) + n
         /\ Continues(consumed', consumed)
         /\ n > 0 => consumed'[Len(consumed) + 1] = chunk[1]
         /\ chunk' \in Chunks \cup {<<>>}
<1>0. chunk \in Chunks \cup {<<>>}
  BY DEF TypeOk
<1>1. chunk \in Seq(Bytes) /\ Len(chunk) <= ChunkLimit /\ Len(chunk) \in Nat
  <2>1. chunk \in Seq(Bytes) /\ Len(chunk) <= ChunkLimit
    BY <1>0, ChunkIsSequence
  <2> QED
    BY <2>1
<1> DEFINE part == SubSeq(chunk, 1, n)
           rest == SubSeq(chunk, n + 1, Len(chunk))
<1>2. /\ part \in Seq(Bytes) /\ Len(part) = n
      /\ \A i \in 1 .. n : part[i] = chunk[i]
      /\ rest \in Seq(Bytes) /\ Len(rest) = Len(chunk) - n
  BY <1>1, Parts
<1>3. consumed' = consumed \o part /\ chunk' = rest
  BY DEF Advance
<1> HIDE DEF part, rest
<1>4. /\ consumed' \in Seq(Bytes) /\ Len(consumed') = Len(consumed) + n
      /\ Continues(consumed', consumed)
      /\ \A i \in 1 .. n : consumed'[Len(consumed) + i] = part[i]
  BY <1>2, <1>3, Concat
<1>5. n > 0 => consumed'[Len(consumed) + 1] = chunk[1]
  BY <1>1, <1>2, <1>4
<1>6. Len(rest) <= ChunkLimit
  BY <1>1, <1>2, Constants
<1> QED
  BY <1>2, <1>3, <1>4, <1>5, <1>6, ChunkIsSequence

LEMMA ConsumePreserves ==
  ASSUME FInv, NEW bytes \in Chunks, Consume(bytes)
  PROVE  FInv'
<1>1. TypeOk'
  BY DEF FInv, TypeOk, Consume
<1> QED
  BY <1>1 DEF FInv, Consume, InPrelude

LEMMA CopyPreludePreserves ==
  ASSUME FInv, CopyPrelude
  PROVE  FInv'
<1> DEFINE n == Least(Len(chunk), PreludeSize - Len(prelude))
<1>1. /\ TypeOk /\ consumed \in Seq(Bytes) /\ prelude = consumed
      /\ metadata_remaining = 0 /\ record_remaining = 0
      /\ chunk # <<>> /\ Advance(n)
  BY DEF FInv, CopyPrelude
<1>2. /\ Len(chunk) \in Nat /\ Len(chunk) > 0
      /\ Len(consumed) \in Nat /\ Len(consumed) < 3
  BY <1>1, Typed, Constants DEF CopyPrelude, InPrelude
<1>3. n \in 0 .. Len(chunk) /\ n > 0 /\ n <= 3 - Len(consumed)
  <2>1. 3 - Len(consumed) \in Nat /\ 3 - Len(consumed) > 0
    BY <1>2
  <2>2. n = Least(Len(chunk), 3 - Len(consumed))
    BY <1>1, Constants
  <2>3. /\ n \in Nat /\ n <= Len(chunk) /\ n <= 3 - Len(consumed)
        /\ n = Len(chunk) \/ n = 3 - Len(consumed)
    BY <1>2, <2>1, <2>2, LeastOf
  <2> HIDE DEF n
  <2> QED
    BY <1>2, <2>1, <2>3
<1> HIDE DEF n
<1>4. /\ consumed' \in Seq(Bytes) /\ Len(consumed') = Len(consumed) + n
      /\ chunk' \in Chunks \cup {<<>>}
  BY <1>1, <1>3, Reading
<1>5. /\ prelude' = consumed' /\ record_remaining' = 0
      /\ Len(consumed') \in Nat /\ Len(consumed') <= 3
  <2>1. prelude' = consumed'
    BY <1>1 DEF CopyPrelude, Advance, n
  <2>2. Len(consumed') <= 3
    BY <1>2, <1>3, <1>4
  <2>3. record_remaining' = 0
    BY <1>1 DEF CopyPrelude
  <2> QED
    BY <1>4, <2>1, <2>2, <2>3
<1>6. prelude' \in UNION {[1 .. k -> Bytes] : k \in 0 .. PreludeSize}
  BY <1>4, <1>5, PreludeIsSequence, Constants
<1>7. CASE Len(consumed') # 3
  <2>1. verdict' = "open" /\ metadata_remaining' = 0
    BY <1>1, <1>5, <1>7, Constants DEF CopyPrelude, Advance, n
  <2>2. InPrelude'
    <3>1. \A k \in Nat : k <= 3 /\ k # 3 => k < 3
      OBVIOUS
    <3>2. Len(consumed') < 3
      BY <3>1, <1>5, <1>7
    <3> QED
      BY <3>2, <1>5, Constants DEF InPrelude
  <2> QED
    BY <1>1, <1>4, <1>5, <1>6, <2>1, <2>2 DEF FInv, TypeOk
<1>8. CASE Len(consumed') = 3 /\ ~HasDbnPrefix(consumed')
  <2>1. verdict' = "bad prefix" /\ metadata_remaining' = 0
    BY <1>1, <1>5, <1>8, Constants DEF CopyPrelude, Advance, n
  <2>2. ~InPrelude' /\ (Len(consumed) >= PreludeSize)'
    BY <1>5, <1>8, Constants DEF InPrelude
  <2> QED
    BY <1>1, <1>4, <1>5, <1>6, <1>8, <2>1, <2>2 DEF FInv, TypeOk
<1>9. CASE Len(consumed') = 3 /\ HasDbnPrefix(consumed')
  <2>1. verdict' = "open" /\ metadata_remaining' = DeclaredLength(consumed')
    BY <1>1, <1>5, <1>9, Constants DEF CopyPrelude, Advance, n
  <2>2. ~InPrelude' /\ Len(consumed') >= PreludeSize
    BY <1>5, <1>9, Constants DEF InPrelude
  <2>3. DeclaredLength(consumed') \in Lengths /\ MetadataEnd(consumed') = 3 + DeclaredLength(consumed')
    BY <1>4, <2>2, PreludeContinues, Constants DEF MetadataEnd, Continues
  <2>4. Located(consumed', metadata_remaining', record_remaining')
    <3>1. CASE metadata_remaining' # 0
      BY <3>1, <1>5, <1>9, <2>1, <2>3 DEF Located
    <3>2. CASE metadata_remaining' = 0
      <4>1. MetadataEnd(consumed') = 3 /\ Len(consumed') = 3 /\ 3 + 0 = 3
        BY <3>2, <1>9, <2>1, <2>3
      <4>2. FramedTo(consumed', {3}, 3) /\ Forced(consumed', 3)
        BY <4>1, <1>4, <2>2, AtMetadataEnd
      <4>3. {3} \in SUBSET Nat
        OBVIOUS
      <4> QED
        BY <3>2, <4>1, <4>2, <4>3, <1>5 DEF Located
    <3> QED
      BY <3>1, <3>2
  <2> QED
    BY <1>1, <1>4, <1>5, <1>6, <1>9, <2>1, <2>2, <2>3, <2>4 DEF FInv, TypeOk
<1> QED
  BY <1>7, <1>8, <1>9

LEMMA SkipMetadataPreserves ==
  ASSUME FInv, SkipMetadata
  PROVE  FInv'
<1> DEFINE n == Least(Len(chunk), metadata_remaining)
<1>1. /\ TypeOk /\ consumed \in Seq(Bytes) /\ Len(consumed) >= PreludeSize
      /\ verdict = "open" /\ verdict' = "open" /\ prelude' = prelude
      /\ ~InPrelude /\ chunk # <<>> /\ Advance(n) /\ HasDbnPrefix(consumed)
      /\ metadata_remaining # 0 /\ metadata_remaining' = metadata_remaining - n
      /\ record_remaining' = record_remaining
      /\ Located(consumed, metadata_remaining, record_remaining)
  BY DEF FInv, SkipMetadata
<1>2. /\ record_remaining = 0 /\ metadata_remaining \in Nat /\ metadata_remaining > 0
      /\ Len(consumed) + metadata_remaining = MetadataEnd(consumed)
      /\ Len(chunk) \in Nat /\ Len(chunk) > 0 /\ Len(consumed) \in Nat
  <2>1. record_remaining = 0 /\ Len(consumed) + metadata_remaining = MetadataEnd(consumed)
    BY <1>1 DEF Located
  <2>2. metadata_remaining \in Nat /\ Len(chunk) \in Nat /\ Len(chunk) > 0 /\ Len(consumed) \in Nat
    BY <1>1, Typed
  <2> QED
    BY <1>1, <2>1, <2>2
<1>3. n \in 0 .. Len(chunk) /\ n > 0 /\ n <= metadata_remaining
  <2>1. /\ n \in Nat /\ n <= Len(chunk) /\ n <= metadata_remaining
        /\ n = Len(chunk) \/ n = metadata_remaining
    BY <1>2, LeastOf
  <2> HIDE DEF n
  <2> QED
    BY <1>2, <2>1
<1> HIDE DEF n
<1>4. /\ consumed' \in Seq(Bytes) /\ Len(consumed') = Len(consumed) + n
      /\ Continues(consumed', consumed) /\ chunk' \in Chunks \cup {<<>>}
  BY <1>1, <1>3, Reading
<1>5. /\ MetadataEnd(consumed') = MetadataEnd(consumed)
      /\ HasDbnPrefix(consumed') /\ Len(consumed') >= PreludeSize
  BY <1>1, <1>4, PreludeContinues
<1>6. /\ metadata_remaining' \in Nat /\ metadata_remaining' <= metadata_remaining
      /\ Len(consumed') + metadata_remaining' = MetadataEnd(consumed')
      /\ Len(consumed') \in Nat
  BY <1>1, <1>2, <1>3, <1>4, <1>5
<1>7. metadata_remaining' \in Lengths
  <2>1. metadata_remaining \in Lengths
    BY <1>1 DEF TypeOk
  <2> QED
    BY <2>1, <1>6, LengthsDeclared
<1>8. Located(consumed', metadata_remaining', record_remaining')
  <2>1. CASE metadata_remaining' # 0
    BY <2>1, <1>1, <1>2, <1>6 DEF Located
  <2>2. CASE metadata_remaining' = 0
    <3>1. Len(consumed') = MetadataEnd(consumed') /\ Len(consumed') + 0 = Len(consumed')
      BY <2>2, <1>6
    <3>2. /\ FramedTo(consumed', {Len(consumed')}, Len(consumed'))
          /\ Forced(consumed', Len(consumed'))
      BY <3>1, <1>4, <1>5, AtMetadataEnd
    <3>3. {Len(consumed')} \in SUBSET Nat
      BY <1>6
    <3> QED
      BY <2>2, <3>1, <3>2, <3>3, <1>1, <1>2 DEF Located
  <2> QED
    BY <2>1, <2>2
<1>9. ~InPrelude'
  BY <1>1 DEF InPrelude
<1>10. TypeOk'
  BY <1>1, <1>4, <1>7 DEF TypeOk
<1> QED
  BY <1>1, <1>4, <1>5, <1>8, <1>9, <1>10 DEF FInv

LEMMA ReadRecordPreserves ==
  ASSUME FInv, ReadRecord
  PROVE  FInv'
<1> DEFINE size == Outstanding(record_remaining, chunk)
           n == Least(Len(chunk), size)
<1>1. /\ TypeOk /\ consumed \in Seq(Bytes) /\ Len(consumed) >= PreludeSize
      /\ verdict = "open" /\ verdict' = "open" /\ prelude' = prelude
      /\ ~InPrelude /\ chunk # <<>> /\ Advance(n) /\ HasDbnPrefix(consumed)
      /\ metadata_remaining = 0 /\ metadata_remaining' = 0
      /\ record_remaining' = size - n
      /\ record_remaining = 0 => SizeOk(RecordSize(chunk[1]))
      /\ Located(consumed, 0, record_remaining)
  BY DEF FInv, ReadRecord, InRecords
<1>2. /\ record_remaining \in Nat /\ record_remaining <= MaxRecord
      /\ chunk \in Seq(Bytes) /\ Len(chunk) \in Nat /\ Len(chunk) > 0 /\ chunk[1] \in Bytes
      /\ Len(consumed) \in Nat
  <2>1. /\ record_remaining \in Nat /\ chunk \in Seq(Bytes) /\ Len(chunk) \in Nat
        /\ Len(chunk) > 0 /\ chunk[1] \in Bytes /\ Len(consumed) \in Nat
    BY <1>1, Typed
  <2>2. record_remaining \in 0 .. MaxRecord - 1
    BY <1>1 DEF TypeOk
  <2> QED
    BY <2>1, <2>2, Constants
<1>3. size \in Nat /\ size > 0 /\ size <= MaxRecord
  <2>1. CASE record_remaining = 0
    <3>1. size = RecordSize(chunk[1])
      BY <2>1 DEF Outstanding
    <3>2. RecordSize(chunk[1]) \in Nat
      BY <1>2, Constants
    <3>3. RecordSize(chunk[1]) >= MinRecord /\ RecordSize(chunk[1]) <= MaxRecord
      BY <2>1, <1>1 DEF SizeOk
    <3> HIDE DEF size
    <3> QED
      BY <3>1, <3>2, <3>3, Constants
  <2>2. CASE record_remaining # 0
    <3>1. size = record_remaining
      BY <2>2 DEF Outstanding
    <3> QED
      BY <3>1, <2>2, <1>2
  <2> QED
    BY <2>1, <2>2
<1> HIDE DEF size
<1>4. n \in 0 .. Len(chunk) /\ n > 0 /\ n <= size
  <2>1. /\ n \in Nat /\ n <= Len(chunk) /\ n <= size
        /\ n = Len(chunk) \/ n = size
    BY <1>2, <1>3, LeastOf
  <2> HIDE DEF n
  <2> QED
    BY <1>2, <1>3, <2>1
<1> HIDE DEF n
<1>5. /\ consumed' \in Seq(Bytes) /\ Len(consumed') = Len(consumed) + n
      /\ Continues(consumed', consumed) /\ chunk' \in Chunks \cup {<<>>}
  BY <1>1, <1>4, Reading
<1>6. HasDbnPrefix(consumed') /\ Len(consumed') >= PreludeSize
  BY <1>1, <1>5, PreludeContinues
<1>7. /\ record_remaining' \in 0 .. MaxRecord - 1
      /\ Len(consumed') + record_remaining' = Len(consumed) + size
      /\ Len(consumed) + size \in Nat
  BY <1>1, <1>2, <1>3, <1>4, <1>5, Constants
<1>8. Located(consumed', 0, record_remaining')
  <2>1. CASE record_remaining = 0
    <3> DEFINE part == SubSeq(chunk, 1, n)
    <3>1. /\ part \in Seq(Bytes) /\ Len(part) = n
          /\ \A i \in 1 .. n : part[i] = chunk[i]
      BY <1>2, <1>4, Parts
    <3>2. consumed' = consumed \o part
      BY <1>1 DEF Advance
    <3> HIDE DEF part
    <3>3. Len(part) > 0 /\ part[1] = chunk[1]
      BY <3>1, <1>4
    <3>4. size = RecordSize(part[1]) /\ SizeOk(RecordSize(part[1]))
      BY <3>3, <2>1, <1>1 DEF size, Outstanding
    <3>5. Len(consumed) + record_remaining = Len(consumed)
      BY <2>1, <1>2
    <3>6. PICK cuts \in SUBSET Nat : FramedTo(consumed, cuts, Len(consumed))
      BY <1>1, <3>5 DEF Located
    <3>7. Forced(consumed, Len(consumed))
      BY <1>1, <3>5 DEF Located
    <3>8. /\ FramedTo(consumed', cuts \cup {Len(consumed) + size}, Len(consumed) + size)
          /\ Forced(consumed', Len(consumed) + size)
      BY <1>1, <3>1, <3>2, <3>3, <3>4, <3>6, <3>7, NextRecord
    <3>9. cuts \cup {Len(consumed) + size} \in SUBSET Nat
      BY <1>7
    <3> QED
      BY <1>7, <3>8, <3>9 DEF Located
  <2>2. CASE record_remaining # 0
    <3>1. size = record_remaining
      BY <2>2 DEF size, Outstanding
    <3>2. PICK cuts \in SUBSET Nat : FramedTo(consumed, cuts, Len(consumed) + size)
      BY <1>1, <3>1 DEF Located
    <3>3. Forced(consumed, Len(consumed) + size)
      BY <1>1, <3>1 DEF Located
    <3>4. /\ FramedTo(consumed', cuts, Len(consumed) + size)
          /\ Forced(consumed', Len(consumed) + size)
      BY <1>1, <1>5, <1>7, <3>2, <3>3, MoreOfRecord
    <3> QED
      BY <1>7, <3>4 DEF Located
  <2> QED
    BY <2>1, <2>2
<1>9. ~InPrelude'
  BY <1>1 DEF InPrelude
<1>10. TypeOk'
  BY <1>1, <1>5, <1>7 DEF TypeOk
<1> QED
  BY <1>1, <1>5, <1>6, <1>8, <1>9, <1>10 DEF FInv

LEMMA RejectRecordPreserves ==
  ASSUME FInv, RejectRecord
  PROVE  FInv'
<1>1. TypeOk' /\ consumed' = consumed
  BY DEF FInv, TypeOk, RejectRecord
<1> QED
  BY <1>1 DEF FInv, RejectRecord, InRecords, InPrelude

LEMMA FinishPreserves ==
  ASSUME FInv, Finish
  PROVE  FInv'
<1>1. TypeOk'
  BY DEF FInv, TypeOk, Finish
<1> QED
  BY <1>1 DEF FInv, Finish, InPrelude

LEMMA StutterPreserves ==
  ASSUME FInv, UNCHANGED vars
  PROVE  FInv'
<1>1. TypeOk'
  BY DEF FInv, TypeOk, vars
<1> QED
  BY <1>1 DEF FInv, InPrelude, vars

LEMMA Invariance == Spec => []FInv
<1>1. FInv /\ [Next]_vars => FInv'
  <2> SUFFICES ASSUME FInv, [Next]_vars PROVE FInv'
    OBVIOUS
  <2>1. ASSUME NEW bytes \in Chunks, Consume(bytes) PROVE FInv'
    BY <2>1, ConsumePreserves
  <2>2. CASE Scan
    BY <2>2, CopyPreludePreserves, SkipMetadataPreserves, ReadRecordPreserves,
       RejectRecordPreserves DEF Scan
  <2>3. CASE Finish
    BY <2>3, FinishPreserves
  <2>4. CASE UNCHANGED vars
    BY <2>4, StutterPreserves
  <2> QED
    BY <2>1, <2>2, <2>3, <2>4 DEF Next
<1> QED
  BY <1>1, InitFInv, PTL DEF Spec

-----------------------------------------------------------------------------
(* What the pass over the input promises.                                  *)

\* The two counters stay within what a byte and a record can declare, and the
\* prelude is never overrun.
THEOREM TypeCorrect == Spec => []TypeOk
<1>1. FInv => TypeOk
  BY DEF FInv
<1> QED
  BY <1>1, Invariance, PTL

\* However long the input and however it is cut into chunks, the validator
\* finds it valid exactly if it is a DBN stream: a prelude, the metadata it
\* declares, and whole records of lengths a record can have.
THEOREM ExactlyStreamsAreValid == Spec => []VerdictExact
  BY Invariance, VerdictFollows, PTL

\* While it reads, metadata_remaining_ and record_remaining_ say with how many
\* more bytes the input is a DBN stream, neither more nor fewer.
THEOREM CountersAreExact == Spec => []CountersExact
  BY Invariance, CountersFollow, PTL

\* What is refused before the input ends is no prefix of a DBN stream that
\* fillers could complete.
THEOREM RefusalsAreFinal == Spec => []RefusalFinal
  BY Invariance, RefusalFollows, PTL

-----------------------------------------------------------------------------
(* The reader.  What the decompressor's last call has left behind tells    *)
(* which piece it ended with, and that none is left at the end of the file *)
(* but what it has given out.                                              *)

Ends(i) == file[i].kind = "end"

LeftBehind ==
  /\ hostage => Ends(taken + 1)
  /\ ~remaining => held = 0 /\ taken > 0 /\ Ends(taken)
  /\ remaining /\ ~hostage => taken = 0 \/ ~Ends(taken)

Answers ==
  /\ format = "zstd" /\ verdict \in {"valid", "truncated"} => AllDecoded /\ EndsFrame
  /\ outcome = "incomplete" => ~EndsFrame
  /\ outcome = "no progress" => \E i \in DOMAIN file : file[i].kind = "stuck"

ReaderTypeOk ==
  /\ format \in {"short", "raw", "zstd", "other"}
  /\ file \in Files \cup {<<>>}
  /\ read \in 0 .. Len(file) /\ taken \in 0 .. read
  /\ held \in 0 .. MaxYield
  /\ {hostage, remaining} \subseteq BOOLEAN
  /\ hostage => held > 0 /\ taken < read
  /\ outcome \in {"detecting", "reading", "too short", "unknown format",
                  "unreadable", "corrupt", "no progress", "incomplete"}

RInv == ReaderTypeOk /\ (format = "zstd" => file # <<>>) /\ LeftBehind /\ Answers

LEMMA VTypeSplits == VTypeOk <=> TypeOk /\ ReaderTypeOk
  BY DEF VTypeOk, ReaderTypeOk

LEMMA Sizes ==
  /\ OutSize \in Nat /\ OutSize > 0 /\ OutSize <= ChunkLimit
  /\ MaxYield \in Nat /\ InSize \in Nat
  BY ValidationAssumption

LEMMA FileIsSequence ==
  ASSUME NEW x \in Files \cup {<<>>}
  PROVE  /\ x \in Seq(Piece) /\ Len(x) \in Nat /\ DOMAIN x = 1 .. Len(x)
         /\ x # <<>> => Len(x) > 0
<1>1. ASSUME NEW n \in 1 .. MaxPieces, NEW y \in [1 .. n -> Piece]
      PROVE  y \in Seq(Piece)
  <2>1. n \in Nat
    BY ValidationAssumption
  <2> QED
    BY <1>1, <2>1
<1>2. x \in Seq(Piece)
  <2>1. CASE x \in Files
    <3>1. PICK n \in 1 .. MaxPieces : x \in [1 .. n -> Piece]
      BY <2>1 DEF Files
    <3> QED
      BY <3>1, <1>1
  <2>2. CASE x = <<>>
    BY <2>2
  <2> QED
    BY <2>1, <2>2
<1> QED
  BY <1>2

LEMMA ReaderTypes ==
  ASSUME ReaderTypeOk
  PROVE  /\ Len(file) \in Nat /\ DOMAIN file = 1 .. Len(file)
         /\ file # <<>> => Len(file) > 0
         /\ read \in Nat /\ read <= Len(file) /\ taken \in Nat /\ taken <= read
         /\ held \in Nat /\ held <= MaxYield
         /\ hostage \in BOOLEAN /\ remaining \in BOOLEAN
<1>1. /\ Len(file) \in Nat /\ DOMAIN file = 1 .. Len(file)
      /\ file # <<>> => Len(file) > 0
  BY FileIsSequence DEF ReaderTypeOk
<1>2. read \in 0 .. Len(file) /\ taken \in 0 .. read /\ held \in 0 .. MaxYield
  BY DEF ReaderTypeOk
<1>3. hostage \in BOOLEAN /\ remaining \in BOOLEAN
  BY DEF ReaderTypeOk
<1> QED
  BY <1>1, <1>2, <1>3, Sizes

LEMMA NextPiece ==
  ASSUME ReaderTypeOk, taken < read
  PROVE  /\ taken + 1 \in DOMAIN file /\ taken + 1 \in 1 .. read
         /\ file[taken + 1].yield \in Nat /\ file[taken + 1].yield <= MaxYield
<1>1. taken + 1 \in DOMAIN file /\ taken + 1 \in 1 .. read
  BY ReaderTypes
<1>2. file \in Seq(Piece)
  BY FileIsSequence DEF ReaderTypeOk
<1>3. file[taken + 1] \in Piece
  BY <1>1, <1>2
<1>4. ASSUME NEW p \in Piece PROVE p.yield \in 0 .. MaxYield
  BY Sizes DEF Piece
<1>5. file[taken + 1].yield \in 0 .. MaxYield
  BY <1>3, <1>4
<1> QED
  BY <1>1, <1>5, Sizes

\* How much a call gives out, and what remains.
LEMMA GivenOut ==
  ASSUME NEW k \in Nat, k <= MaxYield
  PROVE  LET n == Least(OutSize, k)
         IN /\ n \in Nat /\ n <= k /\ n <= OutSize
            /\ k - n \in Nat /\ k - n <= MaxYield
            /\ k - n = 0 <=> n = k
<1> DEFINE n == Least(OutSize, k)
<1>1. n \in Nat /\ n <= k /\ n <= OutSize
  BY Sizes, LeastOf
<1> HIDE DEF n
<1>2. k - n \in Nat /\ k - n <= MaxYield /\ (k - n = 0 <=> n = k)
  BY <1>1, Sizes
<1> QED
  BY <1>1, <1>2 DEF n

-----------------------------------------------------------------------------
(* A step of the reader is a step of the framing validator, or none.       *)

LEMMA OutputIsConsumed ==
  ASSUME NEW n \in Nat, n <= OutSize, Output(n)
  PROVE  [Next]_vars /\ (verdict = "open" => verdict' = "open")
<1>1. CASE n = 0
  BY <1>1 DEF Output, vars
<1>2. CASE n # 0
  <2>1. PICK bytes \in [1 .. n -> Bytes] : Consume(bytes)
    BY <1>2 DEF Output
  <2>2. n \in 1 .. ChunkLimit
    BY <1>2, Sizes, Constants
  <2>3. bytes \in Chunks
    BY <2>1, <2>2 DEF Chunks
  <2> QED
    BY <2>1, <2>3 DEF Next, Consume
<1> QED
  BY <1>1, <1>2

LEMMA DecodeOutput ==
  ASSUME ReaderTypeOk, Decode
  PROVE  [Next]_vars /\ verdict' = "open" /\ verdict = "open"
<1> DEFINE k == file[taken + 1].yield
           n == Least(OutSize, k)
<1>1. taken < read /\ verdict = "open" /\ Output(n)
  BY DEF Decode, Turn, Idle
<1>2. n \in Nat /\ n <= OutSize
  BY <1>1, NextPiece, GivenOut
<1> HIDE DEF n
<1> QED
  BY <1>1, <1>2, OutputIsConsumed

LEMMA FlushOutput ==
  ASSUME ReaderTypeOk, Flush
  PROVE  [Next]_vars /\ verdict' = "open" /\ verdict = "open"
<1> DEFINE n == Least(OutSize, held)
<1>1. verdict = "open" /\ Output(n)
  BY DEF Flush, Turn, Idle
<1>2. n \in Nat /\ n <= OutSize
  BY ReaderTypes, GivenOut
<1> HIDE DEF n
<1> QED
  BY <1>1, <1>2, OutputIsConsumed

LEMMA ReaderStep ==
  ASSUME ReaderTypeOk, [VNext]_vvars
  PROVE  [Next]_vars
<1>1. CASE Detect
  BY <1>1 DEF Detect, Throw
<1>2. CASE Validate
  BY <1>2 DEF Validate, Next
<1>3. CASE ReadRaw
  BY <1>3 DEF ReadRaw, Next
<1>4. CASE FinishRaw
  BY <1>4 DEF FinishRaw, Next
<1>5. CASE ReadZstd
  BY <1>5 DEF ReadZstd
<1>6. CASE Decode
  BY <1>6, DecodeOutput
<1>7. CASE Flush
  BY <1>7, FlushOutput
<1>8. CASE Corrupt
  BY <1>8 DEF Corrupt, Throw
<1>9. CASE NoProgress
  BY <1>9 DEF NoProgress, Throw
<1>10. CASE Incomplete
  BY <1>10 DEF Incomplete, Throw
<1>11. CASE FinishZstd
  BY <1>11 DEF FinishZstd, Next
<1>12. CASE ReadError
  BY <1>12 DEF ReadError, Throw
<1>13. CASE UNCHANGED vvars
  BY <1>13 DEF vvars
<1> QED
  BY <1>1, <1>2, <1>3, <1>4, <1>5, <1>6, <1>7, <1>8, <1>9, <1>10, <1>11, <1>12, <1>13
     DEF VNext, Work

-----------------------------------------------------------------------------
(* The steps.                                                              *)

LEMMA InitRInv == VInit => RInv
<1> SUFFICES ASSUME VInit PROVE RInv
  OBVIOUS
<1>1. /\ read = 0 /\ taken = 0 /\ held = 0 /\ hostage = FALSE /\ remaining = TRUE
      /\ outcome = "detecting" /\ verdict = "open" /\ file \in Files \cup {<<>>}
      /\ format \in {"short", "raw", "zstd", "other"}
      /\ format = "zstd" => file \in Files
  BY DEF VInit, Init
<1>2. Len(file) \in Nat /\ (file \in Files => file # <<>>)
  <2>1. ASSUME NEW n \in 1 .. MaxPieces, NEW y \in [1 .. n -> Piece]
        PROVE  y # <<>>
    <3>1. n \in Nat /\ n > 0
      BY ValidationAssumption
    <3>2. 1 \in DOMAIN y /\ DOMAIN <<>> = {}
      BY <3>1
    <3> QED
      BY <3>2
  <2> QED
    BY <2>1, <1>1, FileIsSequence DEF Files
<1>3. ReaderTypeOk
  <2>1. read \in 0 .. Len(file) /\ taken \in 0 .. read /\ held \in 0 .. MaxYield
    BY <1>1, <1>2, Sizes
  <2> QED
    BY <2>1, <1>1 DEF ReaderTypeOk
<1> QED
  BY <1>1, <1>2, <1>3 DEF RInv, LeftBehind, Answers

\* Only the validator, or none of the two, has moved, and gives no verdict.
LEMMA ReaderIdle ==
  ASSUME RInv, UNCHANGED reader,
         verdict' \in {"valid", "truncated"} /\ format = "zstd" => AllDecoded /\ EndsFrame
  PROVE  RInv'
<1>1. ReaderTypeOk' /\ LeftBehind' /\ (format = "zstd" => file # <<>>)'
  BY DEF RInv, ReaderTypeOk, LeftBehind, Ends, reader
<1>2. Answers'
  BY DEF RInv, Answers, AllDecoded, EndsFrame, reader
<1> QED
  BY <1>1, <1>2 DEF RInv

LEMMA ScanGivesNoAnswer ==
  ASSUME Scan PROVE verdict' \notin {"valid", "truncated"}
  BY DEF Scan, CopyPrelude, SkipMetadata, ReadRecord, RejectRecord, InRecords

LEMMA ValidatePreserves ==
  ASSUME RInv, Validate
  PROVE  RInv'
  BY ReaderIdle, ScanGivesNoAnswer DEF Validate

LEMMA ReadRawPreserves ==
  ASSUME RInv, ReadRaw
  PROVE  RInv'
<1>1. UNCHANGED reader /\ verdict' = "open"
  BY DEF ReadRaw, Consume
<1> QED
  BY <1>1, ReaderIdle

LEMMA FinishRawPreserves ==
  ASSUME RInv, FinishRaw
  PROVE  RInv'
  BY ReaderIdle DEF FinishRaw

LEMMA FinishZstdPreserves ==
  ASSUME RInv, FinishZstd
  PROVE  RInv'
<1>1. taken = read /\ read = Len(file) /\ ~remaining /\ UNCHANGED reader
  BY DEF FinishZstd, EndOfInput
<1>2. AllDecoded /\ EndsFrame
  BY <1>1 DEF RInv, LeftBehind, Ends, AllDecoded, EndsFrame
<1> QED
  BY <1>1, <1>2, ReaderIdle

\* What is thrown ends the validation.
LEMMA ThrowPreserves ==
  ASSUME RInv, NEW what, Throw(what),
         what \in {"reading", "too short", "unknown format", "unreadable", "corrupt",
                   "no progress", "incomplete"},
         what = "incomplete" => ~EndsFrame,
         what = "no progress" => \E i \in DOMAIN file : file[i].kind = "stuck"
  PROVE  RInv'
<1>1. ReaderTypeOk' /\ LeftBehind' /\ (format = "zstd" => file # <<>>)'
  BY DEF RInv, ReaderTypeOk, LeftBehind, Ends, Throw
<1>2. Answers'
  BY DEF RInv, Answers, AllDecoded, EndsFrame, Throw, vars
<1> QED
  BY <1>1, <1>2 DEF RInv

LEMMA DetectPreserves ==
  ASSUME RInv, Detect
  PROVE  RInv'
<1>1. PICK what \in {"reading", "too short", "unknown format"} : Throw(what)
  BY DEF Detect
<1> QED
  BY <1>1, ThrowPreserves

LEMMA ReadErrorPreserves ==
  ASSUME RInv, ReadError
  PROVE  RInv'
  BY ThrowPreserves DEF ReadError

LEMMA CorruptPreserves ==
  ASSUME RInv, Corrupt
  PROVE  RInv'
  BY ThrowPreserves DEF Corrupt

LEMMA NoProgressPreserves ==
  ASSUME RInv, NoProgress
  PROVE  RInv'
<1>1. Throw("no progress") /\ taken < read /\ file[taken + 1].kind = "stuck"
  BY DEF NoProgress, Turn
<1>2. taken + 1 \in DOMAIN file
  BY <1>1, NextPiece DEF RInv
<1> QED
  BY <1>1, <1>2, ThrowPreserves

LEMMA IncompletePreserves ==
  ASSUME RInv, Incomplete
  PROVE  RInv'
<1>1. /\ Throw("incomplete") /\ format = "zstd" /\ taken = read /\ read = Len(file)
      /\ read = 0 \/ remaining
  BY DEF Incomplete, EndOfInput
<1>2. /\ file # <<>> => Len(file) > 0
      /\ Len(file) \in Nat /\ read \in Nat
  BY ReaderTypes DEF RInv
<1>3. read # 0 /\ remaining /\ taken # 0
  BY <1>1, <1>2 DEF RInv
<1>4. ~hostage
  <2>1. hostage => taken < read
    BY DEF RInv, ReaderTypeOk
  <2> QED
    BY <2>1, <1>1, <1>2
<1>5. ~EndsFrame
  BY <1>1, <1>3, <1>4 DEF RInv, LeftBehind, Ends, EndsFrame
<1> QED
  BY <1>1, <1>5, ThrowPreserves

LEMMA ReadZstdPreserves ==
  ASSUME RInv, ReadZstd
  PROVE  RInv'
<1>1. PICK n \in 1 .. InSize : read + n <= Len(file) /\ read' = read + n
  BY DEF ReadZstd
<1>2. /\ UNCHANGED <<vars, format, file, taken, held, hostage, remaining, outcome>>
      /\ verdict = "open" /\ taken = read
  BY DEF ReadZstd, Idle
<1>3. /\ read \in Nat /\ n \in Nat /\ Len(file) \in Nat /\ taken \in Nat
  BY ReaderTypes, Sizes DEF RInv
<1>4. read' \in 0 .. Len(file) /\ taken \in 0 .. read'
  BY <1>1, <1>2, <1>3
<1>5. ~hostage
  <2>1. hostage => taken < read
    BY DEF RInv, ReaderTypeOk
  <2> QED
    BY <2>1, <1>2, <1>3
<1>6. ReaderTypeOk'
  BY <1>2, <1>4, <1>5 DEF RInv, ReaderTypeOk
<1>7. LeftBehind' /\ Answers' /\ (format = "zstd" => file # <<>>)'
  BY <1>2 DEF RInv, LeftBehind, Ends, Answers, EndsFrame, vars
<1> QED
  BY <1>6, <1>7 DEF RInv

\* A call of the decompressor has left verdict and outcome as they were.
LEMMA Continued ==
  ASSUME RInv, UNCHANGED <<format, file, outcome>>, outcome = "reading", verdict' = "open"
  PROVE  Answers' /\ (format = "zstd" => file # <<>>)'
  BY DEF RInv, Answers

LEMMA DecodePreserves ==
  ASSUME RInv, Decode
  PROVE  RInv'
<1> DEFINE k == file[taken + 1].yield
           n == Least(OutSize, k)
           ends == file[taken + 1].kind = "end"
<1>1. /\ taken < read /\ outcome = "reading"
      /\ held' = k - n
      /\ hostage' = (ends /\ k - n > 0)
      /\ taken' = IF ends /\ k - n > 0 THEN taken ELSE taken + 1
      /\ remaining' = ~(ends /\ k - n = 0)
      /\ UNCHANGED <<format, file, read, outcome>>
  BY DEF Decode, Turn, Idle
<1>2. k \in Nat /\ k <= MaxYield
  BY <1>1, NextPiece DEF RInv
<1>3. k - n \in Nat /\ k - n <= MaxYield
  BY <1>2, GivenOut
<1>4. /\ taken \in Nat /\ read \in Nat /\ taken + 1 <= read /\ taken + 1 \in Nat
      /\ taken + 1 > 0
  BY <1>1, ReaderTypes DEF RInv
<1>5. Answers' /\ (format = "zstd" => file # <<>>)'
  BY <1>1, DecodeOutput, Continued DEF RInv
<1> DEFINE rest == k - n
<1>6. rest \in 0 .. MaxYield /\ (rest = 0 \/ rest > 0) /\ ~(rest = 0 /\ rest > 0)
  BY <1>3, Sizes
<1>7. /\ held' = rest
      /\ hostage' = (ends /\ rest > 0)
      /\ taken' = IF ends /\ rest > 0 THEN taken ELSE taken + 1
      /\ remaining' = ~(ends /\ rest = 0)
  BY <1>1
<1> HIDE DEF rest, k, n, ends
<1>8. CASE ends /\ rest > 0
  <2>1. taken' = taken /\ hostage' = TRUE /\ remaining' = TRUE /\ held' = rest
    BY <1>7, <1>6, <1>8, Zenon
  <2>2. ReaderTypeOk'
    BY <2>1, <1>1, <1>6, <1>8 DEF RInv, ReaderTypeOk
  <2>3. LeftBehind'
    BY <2>1, <1>1, <1>8 DEF LeftBehind, Ends, ends
  <2> QED
    BY <2>2, <2>3, <1>5 DEF RInv
<1>9. CASE ~(ends /\ rest > 0)
  <2>1. /\ taken' = taken + 1 /\ hostage' = FALSE /\ held' = rest
        /\ remaining' = ~(ends /\ rest = 0)
    BY <1>7, <1>9, Zenon
  <2>2. taken' \in 0 .. read'
    BY <2>1, <1>1, <1>4
  <2>3. ReaderTypeOk'
    BY <2>1, <2>2, <1>1, <1>6 DEF RInv, ReaderTypeOk
  <2>4. LeftBehind'
    BY <2>1, <1>1, <1>4, <1>6, <1>9 DEF LeftBehind, Ends, ends
  <2> QED
    BY <2>3, <2>4, <1>5 DEF RInv
<1> QED
  BY <1>8, <1>9

LEMMA FlushPreserves ==
  ASSUME RInv, Flush
  PROVE  RInv'
<1> DEFINE n == Least(OutSize, held)
           released == hostage /\ held = n
<1>1. /\ taken < read /\ held > 0 /\ outcome = "reading"
      /\ held' = held - n
      /\ hostage' = (hostage /\ ~released)
      /\ taken' = IF released THEN taken + 1 ELSE taken
      /\ remaining' = ~released
      /\ UNCHANGED <<format, file, read, outcome>>
  BY DEF Flush, Turn, Idle
<1>2. held \in Nat /\ held <= MaxYield
  BY ReaderTypes DEF RInv
<1>3. held - n \in Nat /\ held - n <= MaxYield /\ (held - n = 0 <=> n = held)
  BY <1>2, GivenOut
<1>4. /\ taken \in Nat /\ read \in Nat /\ taken + 1 <= read /\ taken + 1 \in Nat
      /\ taken + 1 > 0
  BY <1>1, ReaderTypes DEF RInv
<1>5. Answers' /\ (format = "zstd" => file # <<>>)'
  BY <1>1, FlushOutput, Continued DEF RInv
<1> DEFINE rest == held - n
<1>6. rest \in 0 .. MaxYield /\ rest \in Nat /\ (released <=> hostage /\ rest = 0)
  BY <1>3, Sizes
<1>7. held' = rest
  BY <1>1
<1>8. hostage \in BOOLEAN /\ remaining = TRUE
  BY <1>1, <1>2 DEF RInv, ReaderTypeOk, LeftBehind
<1> HIDE DEF rest, n, released
<1>9. CASE released
  <2>1. taken' = taken + 1 /\ hostage' = FALSE /\ remaining' = FALSE /\ rest = 0 /\ hostage
    BY <1>1, <1>9, <1>6
  <2>2. taken' \in 0 .. read'
    BY <2>1, <1>1, <1>4
  <2>3. ReaderTypeOk'
    BY <2>1, <2>2, <1>1, <1>6, <1>7 DEF RInv, ReaderTypeOk
  <2>4. LeftBehind'
    BY <2>1, <1>1, <1>4, <1>7 DEF RInv, LeftBehind, Ends
  <2> QED
    BY <2>3, <2>4, <1>5 DEF RInv
<1>10. CASE ~released
  <2>1. taken' = taken /\ hostage' = hostage /\ remaining' = TRUE /\ (hostage => rest > 0)
    <3>1. hostage => rest > 0
      BY <1>6, <1>10
    <3>2. taken' = taken /\ hostage' = hostage /\ remaining' = TRUE
      BY <1>1, <1>8, <1>10, Zenon
    <3> QED
      BY <3>1, <3>2
  <2>2. ReaderTypeOk'
    BY <2>1, <1>1, <1>6, <1>7 DEF RInv, ReaderTypeOk
  <2>3. LeftBehind'
    BY <2>1, <1>1, <1>8 DEF RInv, LeftBehind, Ends
  <2> QED
    BY <2>2, <2>3, <1>5 DEF RInv
<1> QED
  BY <1>9, <1>10

LEMMA ReaderInvariance == VSpec => []RInv
<1>1. RInv /\ [VNext]_vvars => RInv'
  <2> SUFFICES ASSUME RInv, [VNext]_vvars PROVE RInv'
    OBVIOUS
  <2>1. CASE Detect \/ Validate \/ ReadRaw \/ FinishRaw \/ ReadZstd
    BY <2>1, DetectPreserves, ValidatePreserves, ReadRawPreserves, FinishRawPreserves,
       ReadZstdPreserves
  <2>2. CASE Decode \/ Flush \/ Corrupt \/ NoProgress \/ Incomplete \/ FinishZstd
    BY <2>2, DecodePreserves, FlushPreserves, CorruptPreserves, NoProgressPreserves,
       IncompletePreserves, FinishZstdPreserves
  <2>3. CASE ReadError
    BY <2>3, ReadErrorPreserves
  <2>4. CASE UNCHANGED vvars
    <3>1. UNCHANGED reader /\ verdict' = verdict
      BY <2>4 DEF vvars, vars
    <3>2. verdict \in {"valid", "truncated"} /\ format = "zstd" => AllDecoded /\ EndsFrame
      BY DEF RInv, Answers
    <3> QED
      BY <3>1, <3>2, ReaderIdle
  <2> QED
    BY <2>1, <2>2, <2>3, <2>4 DEF VNext, Work
<1> QED
  BY <1>1, InitRInv, PTL DEF VSpec

-----------------------------------------------------------------------------
(* What the validation of a file promises.                                 *)

\* The reader is one of the callers the framing validator was written for:
\* whatever file it reads, and however the decompressor cuts up what it
\* decodes, the validator goes through steps of its own specification.
THEOREM ReaderImplementsFraming == VSpec => Spec
<1>1. VInit => Init
  BY DEF VInit
<1>2. RInv /\ [VNext]_vvars => [Next]_vars
  BY ReaderStep DEF RInv
<1> QED
  BY <1>1, <1>2, ReaderInvariance, PTL DEF VSpec, Spec

\* No more is taken from a file than was read of it, no more is held back than
\* a piece decodes to, and the end of a frame is kept only with output to come.
THEOREM ReaderTypeCorrect == VSpec => []VTypeOk
<1>1. RInv /\ TypeOk => VTypeOk
  BY VTypeSplits DEF RInv
<1> QED
  BY <1>1, ReaderInvariance, ReaderImplementsFraming, TypeCorrect, PTL

\* What is found valid is a DBN stream to its last byte; if it was compressed,
\* every piece of the file was decoded, all output was validated, and the last
\* piece ends a frame.
THEOREM AcceptedIsWhole == VSpec => []AcceptedWhole
<1>1. RInv /\ FInv => AcceptedWhole
  BY VerdictFollows DEF RInv, Answers, AcceptedWhole, VerdictExact
<1> QED
  BY <1>1, ReaderInvariance, ReaderImplementsFraming, Invariance, PTL

\* A file is called incomplete only if its last frame is, without progress only
\* where the decompressor does nothing, and truncated only if its content is
\* no DBN stream and all of it was decoded.
THEOREM RefusedForACause == VSpec => []RefusedForCause
<1>1. RInv /\ FInv => RefusedForCause
  BY VerdictFollows DEF RInv, Answers, RefusedForCause, VerdictExact
<1> QED
  BY <1>1, ReaderInvariance, ReaderImplementsFraming, Invariance, PTL
=============================================================================
