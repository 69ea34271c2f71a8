------------------------------ MODULE Validation ------------------------------
(***************************************************************************)
(* ValidateDbnInput of src/input_validator.cpp: the format is detected, and *)
(* the whole file is read, through the Zstandard decompressor if it is     *)
(* compressed, into the framing validator.                                 *)
(*                                                                         *)
(* The decompressor is external.  A compressed file is a sequence of       *)
(* pieces, a piece being what one call takes at most: it decodes to some   *)
(* bytes, and may end a frame.  What does not fit into the output buffer   *)
(* is held for the next call.  A call reports 0 only when a frame is       *)
(* decoded and flushed; until then the piece that ends the frame stays in  *)
(* the input, as zstd keeps a frame's last byte.                           *)
(***************************************************************************)
EXTENDS Framing

CONSTANTS MaxPieces,  \* bounds a compressed file, for model checking
          MaxYield,   \* the bytes a piece decodes to, at most
          InSize,     \* ZSTD_DStreamInSize, in pieces
          OutSize     \* ZSTD_DStreamOutSize

ASSUME ValidationAssumption ==
  /\ {MaxPieces, InSize, OutSize} \subseteq Nat \ {0} /\ MaxYield \in Nat
  /\ OutSize <= ChunkLimit /\ MaxPieces * MaxYield <= InputLimit

VARIABLES format,     \* what the first bytes of the file are
          file,       \* the pieces of a compressed file
          read,       \* how many of them have been read
          taken,      \* in_buffer.pos: how many the decompressor has taken
          held,       \* the bytes it has decoded and not yet given out
          hostage,    \* it keeps the end of a frame until they are
          remaining,  \* remaining # 0: the last call did not end a frame
          outcome     \* "detecting", "reading", or what the reader has thrown

reader == <<format, file, read, taken, held, hostage, remaining, outcome>>
vvars == <<vars, reader>>

\* A corrupt piece is an error; on a stuck one a call does nothing at all.
Piece == [kind : {"data", "end"}, yield : 0 .. MaxYield]
         \cup [kind : {"corrupt", "stuck"}, yield : {0}]
Files == UNION {[1 .. n -> Piece] : n \in 1 .. MaxPieces}

VTypeOk ==
  /\ TypeOk
  /\ format \in {"short", "raw", "zstd", "other"}
  /\ file \in Files \cup {<<>>}
  /\ read \in 0 .. Len(file) /\ taken \in 0 .. read
  /\ held \in 0 .. MaxYield
  /\ {hostage, remaining} \subseteq BOOLEAN
  /\ hostage => held > 0 /\ taken < read
  /\ outcome \in {"detecting", "reading", "too short", "unknown format",
                  "unreadable", "corrupt", "no progress", "incomplete"}

VInit ==
  /\ Init
  /\ format \in {"short", "raw", "zstd", "other"}
  /\ file \in IF format = "zstd" THEN Files ELSE {<<>>}
  /\ read = 0 /\ taken = 0 /\ held = 0
  /\ hostage = FALSE /\ remaining = TRUE /\ outcome = "detecting"

Throw(what) ==
  /\ outcome' = what
  /\ UNCHANGED <<vars, format, file, read, taken, held, hostage, remaining>>

Detect ==
  /\ outcome = "detecting"
  /\ Throw(CASE format = "short" -> "too short"
             [] format = "other" -> "unknown format"
             [] OTHER -> "reading")

\* The reader's turn: every call of Consume has returned.
Idle == outcome = "reading" /\ verdict = "open" /\ chunk = <<>>

\* What DbnFramingValidator does with the chunk it was given.
Validate == outcome = "reading" /\ Scan /\ UNCHANGED reader

\* A raw file begins with what it was detected by.
ReadRaw ==
  /\ Idle /\ format = "raw"
  /\ \E bytes \in Chunks : /\ consumed = <<>> => HasDbnPrefix(bytes)
                           /\ Consume(bytes)
  /\ UNCHANGED reader

FinishRaw ==
  /\ Idle /\ format = "raw" /\ consumed # <<>>
  /\ Finish /\ UNCHANGED reader

\* The file cannot be opened or read, or the decompressor not set up.
ReadError ==
  /\ outcome = "detecting" \/ (Idle /\ taken = read)
  /\ Throw("unreadable")

\* The next buffer of compressed input, once the last is used up.
ReadZstd ==
  /\ Idle /\ format = "zstd" /\ taken = read
  /\ \E n \in 1 .. InSize : read + n <= Len(file) /\ read' = read + n
  /\ UNCHANGED <<vars, format, file, taken, held, hostage, remaining, outcome>>

-----------------------------------------------------------------------------
(* One turn of the loop around ZSTD_decompressStream.                      *)

Turn == Idle /\ format = "zstd" /\ taken < read

\* A call has left n bytes in the output buffer.
Output(n) ==
  IF n = 0 THEN UNCHANGED vars ELSE \E bytes \in [1 .. n -> Bytes] : Consume(bytes)

\* Mutant: an end that is kept back is counted as taken.
DecodeAll ==
  /\ Turn /\ held = 0
  /\ LET piece == file[taken + 1]
         n == Least(OutSize, piece.yield)
         ends == piece.kind = "end"
         rest == piece.yield - n
     IN /\ piece.kind \in {"data", "end"}
        /\ Output(n)
        /\ held' = rest /\ hostage' = (ends /\ rest > 0)
        /\ taken' = taken + 1
        /\ remaining' = ~(ends /\ rest = 0)
  /\ UNCHANGED <<format, file, read, outcome>>

\* The call decodes the next piece.
Decode ==
  /\ Turn /\ held = 0
  /\ LET piece == file[taken + 1]
         n == Least(OutSize, piece.yield)
         ends == piece.kind = "end"
         rest == piece.yield - n
     IN /\ piece.kind \in {"data", "end"}
        /\ Output(n)
        /\ held' = rest /\ hostage' = (ends /\ rest > 0)
        /\ taken' = IF ends /\ rest > 0 THEN taken ELSE taken + 1
        /\ remaining' = ~(ends /\ rest = 0)
  /\ UNCHANGED <<format, file, read, outcome>>

\* Mutant: output without input is not progress.
FlushStrict ==
  /\ Turn /\ held > 0
  /\ LET n == Least(OutSize, held)
         released == hostage /\ held = n
     IN /\ Output(n)
        /\ held' = held - n
        /\ hostage' = (hostage /\ ~released)
        /\ taken' = IF released THEN taken + 1 ELSE taken
        /\ remaining' = ~released
        /\ outcome' = IF taken' = taken THEN "no progress" ELSE outcome
  /\ UNCHANGED <<format, file, read>>

\* The call gives out what the last one could not.
Flush ==
  /\ Turn /\ held > 0
  /\ LET n == Least(OutSize, held)
         released == hostage /\ held = n
     IN /\ Output(n)
        /\ held' = held - n
        /\ hostage' = (hostage /\ ~released)
        /\ taken' = IF released THEN taken + 1 ELSE taken
        /\ remaining' = ~released
  /\ UNCHANGED <<format, file, read, outcome>>

Corrupt == Turn /\ held = 0 /\ file[taken + 1].kind = "corrupt" /\ Throw("corrupt")

\* Mutant: the loop does not notice that it goes round in circles.
NoProgressIgnored ==
  Turn /\ held = 0 /\ file[taken + 1].kind = "stuck" /\ Throw("reading")

NoProgress ==
  Turn /\ held = 0 /\ file[taken + 1].kind = "stuck" /\ Throw("no progress")

-----------------------------------------------------------------------------

EndOfInput == Idle /\ format = "zstd" /\ taken = read /\ read = Len(file)

Incomplete == EndOfInput /\ (read = 0 \/ remaining) /\ Throw("incomplete")

\* Mutant: whether the last frame is complete is not asked.
FinishAnyhow == EndOfInput /\ Finish /\ UNCHANGED reader

FinishZstd ==
  /\ EndOfInput /\ ~(read = 0 \/ remaining)
  /\ Finish /\ UNCHANGED reader

Work ==
  \/ Detect \/ Validate
  \/ ReadRaw \/ FinishRaw
  \/ ReadZstd \/ Decode \/ Flush \/ Corrupt \/ NoProgress \/ Incomplete \/ FinishZstd

VNext == Work \/ ReadError

\* One thread reads one regular file, so it goes on while there is something to
\* do; that reading fails is never relied on.
VSpec == VInit /\ [][VNext]_vvars /\ WF_vvars(Work)

-----------------------------------------------------------------------------

AllDecoded == taken = Len(file) /\ held = 0
EndsFrame == file[Len(file)].kind = "end"

\* A file is accepted only if its content, all of it, is a DBN stream; and a
\* compressed file only if it is whole frames, one or more, to its last byte.
AcceptedWhole ==
  verdict = "valid" =>
    /\ WellFormed(consumed)
    /\ format = "zstd" => AllDecoded /\ EndsFrame

\* A file is refused only for what is wrong with it.  Frames that follow one
\* another, output that does not fit into the buffer and a frame whose end
\* coincides with that of a read are not taken for a truncation or a standstill,
\* and the content is not called truncated while some of it is still held.
RefusedForCause ==
  /\ outcome = "incomplete" => ~EndsFrame
  /\ outcome = "no progress" => \E i \in DOMAIN file : file[i].kind = "stuck"
  /\ verdict = "truncated" =>
       /\ ~WellFormed(consumed)
       /\ format = "zstd" => AllDecoded /\ EndsFrame

\* Every validation comes to an end, with an answer.
Terminates == <>(verdict # "open" \/ outcome \notin {"detecting", "reading"})
=============================================================================
