------------------------------- MODULE Framing -------------------------------
(***************************************************************************)
(* DbnFramingValidator of src/input_validator.cpp: the pass over the whole *)
(* input that checks the lengths a DBN stream declares.  The bytes arrive  *)
(* in chunks of any size (module Validation says from where), and each     *)
(* turn of the loop in Consume is a step.                                  *)
(***************************************************************************)
EXTENDS Integers, Sequences

CONSTANTS
  MaxByte,           \* 255
  Magic,             \* 'D', which stands for the three bytes of the DBN prefix
  LengthMultiplier,  \* kLengthMultiplier, the bytes in a word
  MinRecord,         \* sizeof(RecordHeader)
  MaxRecord,         \* kMaxRecordLen
  ChunkLimit,        \* the bytes of one call of Consume, at most
  InputLimit         \* bounds the input, for model checking

ASSUME FramingAssumption ==
  /\ MaxByte \in Nat /\ Magic \in 0 .. MaxByte
  /\ {LengthMultiplier, MinRecord, MaxRecord, ChunkLimit} \subseteq Nat \ {0}
  /\ InputLimit \in Nat

VARIABLES prelude,             \* the first prelude_size_ bytes of prelude_
          metadata_remaining,
          record_remaining,
          chunk,               \* data and size: what Consume has still to read
          verdict,             \* "open", "valid", or what was thrown
          consumed             \* all bytes so far read: a record for the properties

vars == <<prelude, metadata_remaining, record_remaining, chunk, verdict, consumed>>

Bytes == 0 .. MaxByte

\* kDbnPreludeSize, with one byte for the prefix and two for the length of the
\* metadata where the code has four each.
PreludeSize == 3
HasDbnPrefix(p) == p[1] = Magic

\* DecodeLittleEndian32.
DeclaredLength(p) == p[2] + (MaxByte + 1) * p[3]
Lengths == 0 .. MaxByte + (MaxByte + 1) * MaxByte

RecordSize(words) == words * LengthMultiplier

\* Mutants: no upper limit; the smallest record refused.
SizeOkUnbounded(size) == size >= MinRecord
SizeOkAbove(size) == size > MinRecord /\ size <= MaxRecord

SizeOk(size) == size >= MinRecord /\ size <= MaxRecord

Chunks == UNION {[1 .. n -> Bytes] : n \in 1 .. ChunkLimit}

TypeOk ==
  /\ prelude \in UNION {[1 .. n -> Bytes] : n \in 0 .. PreludeSize}
  /\ metadata_remaining \in Lengths
  /\ record_remaining \in 0 .. MaxRecord - 1
  /\ chunk \in Chunks \cup {<<>>}
  /\ verdict \in {"open", "valid", "bad prefix", "bad length", "truncated"}

Init ==
  /\ prelude = <<>> /\ metadata_remaining = 0 /\ record_remaining = 0
  /\ chunk = <<>> /\ verdict = "open" /\ consumed = <<>>

Least(m, n) == IF m < n THEN m ELSE n

\* data += n, size -= n.
Advance(n) ==
  /\ chunk' = SubSeq(chunk, n + 1, Len(chunk))
  /\ consumed' = consumed \o SubSeq(chunk, 1, n)

\* The reader calls Consume with what it has read, or decompressed.
Consume(bytes) ==
  /\ verdict = "open" /\ chunk = <<>>
  /\ Len(consumed) + Len(bytes) <= InputLimit
  /\ chunk' = bytes
  /\ UNCHANGED <<prelude, metadata_remaining, record_remaining, verdict, consumed>>

InPrelude == Len(prelude) < PreludeSize

CopyPrelude ==
  /\ verdict = "open" /\ chunk # <<>> /\ InPrelude
  /\ LET n == Least(Len(chunk), PreludeSize - Len(prelude))
         p == prelude \o SubSeq(chunk, 1, n)
         whole == Len(p) = PreludeSize
     IN /\ prelude' = p
        /\ Advance(n)
        /\ verdict' = IF whole /\ ~HasDbnPrefix(p) THEN "bad prefix" ELSE "open"
        /\ metadata_remaining' =
             IF whole /\ HasDbnPrefix(p) THEN DeclaredLength(p) ELSE metadata_remaining
  /\ UNCHANGED record_remaining

SkipMetadata ==
  /\ verdict = "open" /\ chunk # <<>> /\ ~InPrelude /\ metadata_remaining # 0
  /\ LET n == Least(Len(chunk), metadata_remaining)
     IN metadata_remaining' = metadata_remaining - n /\ Advance(n)
  /\ UNCHANGED <<prelude, record_remaining, verdict>>

\* Mutant: the length is read again with every chunk.
OutstandingAnew(rest, bytes) == RecordSize(bytes[1])

\* What of the record at hand is still to come: the rest of one that is under
\* way, or all of the one whose first byte is next.
Outstanding(rest, bytes) ==
  IF rest = 0 THEN RecordSize(bytes[1]) ELSE rest

InRecords == verdict = "open" /\ chunk # <<>> /\ ~InPrelude /\ metadata_remaining = 0

ReadRecord ==
  /\ InRecords
  /\ record_remaining = 0 => SizeOk(RecordSize(chunk[1]))
  /\ LET size == Outstanding(record_remaining, chunk)
         n == Least(Len(chunk), size)
     IN record_remaining' = size - n /\ Advance(n)
  /\ UNCHANGED <<prelude, metadata_remaining, verdict>>

RejectRecord ==
  /\ InRecords /\ record_remaining = 0 /\ ~SizeOk(RecordSize(chunk[1]))
  /\ verdict' = "bad length"
  /\ UNCHANGED <<prelude, metadata_remaining, record_remaining, chunk, consumed>>

\* Mutant: the record under way is forgotten.
FinishInRecord ==
  /\ verdict = "open" /\ chunk = <<>>
  /\ verdict' = IF ~InPrelude /\ metadata_remaining = 0 THEN "valid" ELSE "truncated"
  /\ UNCHANGED <<prelude, metadata_remaining, record_remaining, chunk, consumed>>

\* The input may end after any chunk.
Finish ==
  /\ verdict = "open" /\ chunk = <<>>
  /\ verdict' = IF ~InPrelude /\ metadata_remaining = 0 /\ record_remaining = 0
                THEN "valid" ELSE "truncated"
  /\ UNCHANGED <<prelude, metadata_remaining, record_remaining, chunk, consumed>>

\* One turn of the loop in Consume.
Scan == CopyPrelude \/ SkipMetadata \/ ReadRecord \/ RejectRecord

Next == (\E bytes \in Chunks : Consume(bytes)) \/ Scan \/ Finish

Spec == Init /\ [][Next]_vars

-----------------------------------------------------------------------------
(* What a DBN stream is, in one piece.                                     *)

\* Cuts between records: from the end of the metadata to the end of the
\* input, each record as long as its first byte says.
FramedBy(s, cuts) ==
  /\ PreludeSize + DeclaredLength(s) \in cuts /\ Len(s) \in cuts
  /\ \A c \in cuts \ {Len(s)} :
       LET next == c + RecordSize(s[c + 1])
       IN /\ next - c \in MinRecord .. MaxRecord /\ next \in cuts
          /\ \A d \in cuts : d <= c \/ d >= next

WellFormed(s) ==
  /\ Len(s) >= PreludeSize /\ HasDbnPrefix(s)
  /\ PreludeSize + DeclaredLength(s) <= Len(s)
  /\ \E cuts \in SUBSET (PreludeSize + DeclaredLength(s) .. Len(s)) : FramedBy(s, cuts)

Filler(n) == [i \in 1 .. n |-> Magic]

\* However the input was cut into chunks, it is found valid exactly if it is
\* a DBN stream: a prelude, the metadata it declares, and whole records.
VerdictExact ==
  /\ verdict = "valid" => WellFormed(consumed)
  /\ verdict = "truncated" => ~WellFormed(consumed)

\* Every prefix accepted so far can still become a DBN stream, and the two
\* counters say with how many bytes: they never wait for too few or too many.
CountersExact ==
  verdict = "open" /\ ~InPrelude =>
    /\ WellFormed(consumed \o Filler(metadata_remaining + record_remaining))
    /\ \A n \in 0 .. metadata_remaining + record_remaining - 1 :
         ~WellFormed(consumed \o Filler(n))

FirstOf(s) == SubSeq(s, 1, Least(1, Len(s)))

\* A stream is refused early only if nothing could have made it valid: no
\* continuation of what was read, the offending byte included, is one.
RefusalFinal ==
  verdict \in {"bad prefix", "bad length"} =>
    \A n \in 0 .. MaxRecord :
      ~WellFormed(consumed \o FirstOf(chunk) \o Filler(n))
=============================================================================
