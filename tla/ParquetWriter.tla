---------------------------- MODULE ParquetWriter ----------------------------
(***************************************************************************)
(* Mbp10ParquetWriter of src/parquet_writer.cpp, as ConvertFile uses it: a *)
(* row is kept until its row group is full, then copied into one builder   *)
(* for each column, and the columns are written as one batch.  Every call  *)
(* of Arrow may fail.  What fails is thrown, and the destructor tries to   *)
(* close the writer once more before the temporary file is removed.        *)
(***************************************************************************)
EXTENDS Integers, Sequences

CONSTANTS RowGroupSize,  \* options.row_group_size
          ColumnCount,   \* 73
          MaxRows        \* bounds the rows of a conversion, for model checking

ASSUME ParquetAssumption ==
  {RowGroupSize, ColumnCount} \subseteq Nat \ {0} /\ MaxRows \in Nat

Columns == 1 .. ColumnCount

VARIABLES rows,      \* rows_; the k-th record of the conversion is the number k
          builders,  \* per column, the values its builder holds
          written,   \* per column, what the row groups of the file hold
          groups,    \* where a row group ends
          footer,    \* the file has been finalized
          torn,      \* a write has failed: what the file holds is unknown
          appended,  \* how many records the sink has been given
          late,      \* the records whose timestamp int64 cannot hold
          stage      \* how far ConvertFile is

vars == <<rows, builders, written, groups, footer, torn, appended, late, stage>>

Stages == {"start", "open", "unwinding", "closed", "destroyed", "removed", "published"}
Values == Seq(1 .. MaxRows)

TypeOk ==
  /\ rows \in Values /\ Len(rows) <= RowGroupSize
  /\ {builders, written} \subseteq [Columns -> Values]
  /\ groups \subseteq 1 .. MaxRows
  /\ {footer, torn} \subseteq BOOLEAN
  /\ appended \in 0 .. MaxRows /\ late \subseteq 1 .. MaxRows
  /\ stage \in Stages

Empty == [c \in Columns |-> <<>>]

Init ==
  /\ rows = <<>> /\ builders = Empty /\ written = Empty /\ groups = {}
  /\ footer = FALSE /\ torn = FALSE /\ appended = 0 /\ late \in SUBSET (1 .. MaxRows)
  /\ stage = "start"

Goes(from, to) == stage = from /\ stage' = to

-----------------------------------------------------------------------------
(* Flush of the rows rs: AppendUnsafe for each, FinishColumns, and         *)
(* WriteRecordBatch, which takes of each column as many values as the      *)
(* batch says it has rows.                                                 *)

IsLate(rs, i) == rs[i] \in late
NoneLate(rs) == \A i \in DOMAIN rs : ~IsLate(rs, i)

\* Mutant: the rows are kept.
FlushedKept(rs) ==
  /\ NoneLate(rs)
  /\ builders' = Empty /\ rows' = rs
  /\ written' = [c \in Columns |-> written[c] \o SubSeq(builders[c] \o rs, 1, Len(rs))]
  /\ groups' = groups \cup {Len(written[1]) + Len(rs)}

Flushed(rs) ==
  IF rs = <<>> THEN UNCHANGED <<rows, builders, written, groups>>
  ELSE /\ NoneLate(rs)
       /\ builders' = Empty /\ rows' = <<>>
       /\ written' = [c \in Columns |-> written[c] \o SubSeq(builders[c] \o rs, 1, Len(rs))]
       /\ groups' = groups \cup {Len(written[1]) + Len(rs)}

\* No memory for the builders; a late timestamp after i rows; no memory for
\* column k when those before it are finished; the batch cannot be written.
ReserveFails == UNCHANGED <<builders, torn>>

AppendUnsafeFails(rs) ==
  /\ \E i \in DOMAIN rs :
       /\ IsLate(rs, i) /\ \A j \in 1 .. i - 1 : ~IsLate(rs, j)
       /\ builders' = [c \in Columns |-> builders[c] \o SubSeq(rs, 1, i - 1)]
  /\ UNCHANGED torn

FinishColumnFails(rs) ==
  /\ NoneLate(rs)
  /\ \E k \in Columns :
       builders' = [c \in Columns |-> IF c < k THEN <<>> ELSE builders[c] \o rs]
  /\ UNCHANGED torn

WriteFails(rs) == NoneLate(rs) /\ builders' = Empty /\ torn' = TRUE

\* Mutant: the rows are cleared as soon as they are in the builders.
FlushFailsCleared(rs) ==
  /\ rs # <<>> /\ UNCHANGED <<written, groups>>
  /\ \/ ReserveFails /\ rows' = rs
     \/ AppendUnsafeFails(rs) /\ rows' = rs
     \/ FinishColumnFails(rs) /\ rows' = <<>>
     \/ WriteFails(rs) /\ rows' = <<>>

FlushFails(rs) ==
  /\ rs # <<>> /\ rows' = rs /\ UNCHANGED <<written, groups>>
  /\ ReserveFails \/ AppendUnsafeFails(rs) \/ FinishColumnFails(rs) \/ WriteFails(rs)

-----------------------------------------------------------------------------

\* TemporaryOutput has its path, and the writer opens it; or does not.
Open ==
  /\ Goes("start", "open") \/ Goes("start", "destroyed")
  /\ UNCHANGED <<rows, builders, written, groups, footer, torn, appended, late>>

\* Mutant: a row group is flushed one row late.
IsFullLate(rs) == Len(rs) > RowGroupSize

IsFull(rs) == Len(rs) = RowGroupSize

\* The sink is given the next record.
Receive ==
  /\ stage = "open" /\ appended < MaxRows
  /\ appended' = appended + 1
  /\ UNCHANGED <<footer, late>>

AppendRow ==
  /\ Receive
  /\ LET rs == Append(rows, appended')
     IN IF IsFull(rs) THEN Flushed(rs)
        ELSE rows' = rs /\ UNCHANGED <<builders, written, groups>>
  /\ UNCHANGED <<torn, stage>>

AppendFails ==
  /\ Receive /\ Goes("open", "unwinding")
  /\ LET rs == Append(rows, appended') IN IsFull(rs) /\ FlushFails(rs)

\* ConvertRecords throws for a reason of its own.
Interrupt ==
  /\ Goes("open", "unwinding")
  /\ UNCHANGED <<rows, builders, written, groups, footer, torn, appended, late>>

\* Close succeeds, or throws, in Flush or when it finalizes the file.
Closes == Flushed(rows) /\ footer' = TRUE /\ UNCHANGED <<torn, appended, late>>

CloseThrows ==
  /\ FlushFails(rows) \/ (Flushed(rows) /\ torn' = TRUE)
  /\ UNCHANGED <<footer, appended, late>>

Close == Goes("open", "closed") /\ Closes
CloseFails == Goes("open", "unwinding") /\ CloseThrows

\* ~Impl closes once more, and whatever that throws is dropped.
Destroy == Goes("unwinding", "destroyed") /\ (Closes \/ CloseThrows)

\* The closed writer is destroyed, which does nothing, and the file renamed.
Publish ==
  /\ Goes("closed", "published") \/ Goes("closed", "destroyed")
  /\ UNCHANGED <<rows, builders, written, groups, footer, torn, appended, late>>

\* ~TemporaryOutput.
Remove ==
  /\ Goes("destroyed", "removed")
  /\ UNCHANGED <<rows, builders, written, groups, footer, torn, appended, late>>

Next ==
  \/ Open \/ AppendRow \/ AppendFails \/ Interrupt \/ Close \/ CloseFails
  \/ Destroy \/ Publish \/ Remove

Spec == Init /\ [][Next]_vars

-----------------------------------------------------------------------------

Appended == [i \in 1 .. appended |-> i]

\* As long as nothing has failed, every record is in the file, in all its
\* columns, or in rows, in order and once; the builders are empty between
\* calls, and fewer rows than a row group are held.
InFlightExact ==
  stage \in {"open", "closed", "published"} =>
    /\ \A c \in Columns : written[c] \o rows = Appended /\ builders[c] = <<>>
    /\ Len(rows) < RowGroupSize

\* A file with a footer, unless a write to it has failed, holds exactly the
\* records given to the writer, in every column, none of them late, in full
\* row groups but for the last: also one that the destructor has finished
\* after a failure, with rows and builders as that failure left them.  And
\* what is published has a footer, and no write to it has failed.
FileExact ==
  /\ stage = "published" => footer /\ ~torn
  /\ footer /\ ~torn =>
       /\ \A c \in Columns : written[c] = Appended
       /\ late \cap 1 .. appended = {}
       /\ \A end \in groups : end % RowGroupSize = 0 \/ end = appended
=============================================================================
