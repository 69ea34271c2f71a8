---------------------------- MODULE CompareParquet ----------------------------
(***************************************************************************)
(* main of tools/compare_parquet.py, after the schema and the metadata: an *)
(* official file and the converter's are read in batches that need not be  *)
(* cut at the same rows, and what two batches have in common is compared   *)
(* column by column.                                                       *)
(***************************************************************************)
EXTENDS Integers, Sequences

CONSTANTS ColumnCount,  \* 73
          BatchSize     \* BATCH_SIZE

VARIABLES expected, actual,  \* per column, the values of the two files
          expected_at,       \* batch and offset of the official file
          actual_at,         \* and of the converter's
          compared_rows,
          verdict            \* "running", or what is printed

vars == <<expected, actual, expected_at, actual_at, compared_rows, verdict>>

Fields == 1 .. ColumnCount
NumRows(table) == Len(table[1])

\* The rows first + 1 .. first + size of a file are its batch, of which offset
\* have been compared.  Without a row it is None: the file has ended.
Batches(table, first) ==
  LET left == NumRows(table) - first
  IN IF left = 0 THEN {[first |-> first, size |-> 0, offset |-> 0]}
     ELSE [first : {first}, size : 1 .. (IF left < BatchSize THEN left ELSE BatchSize),
           offset : {0}]

IsNone(at) == at.size = 0

\* Mutant: the rest of a batch is dropped when the other file's ends.
AdvanceBoth(table, at, count) == Batches(table, at.first + at.size)

\* After count more rows: the next batch once this one is used up.
Advance(table, at, count) ==
  IF at.offset + count = at.size THEN Batches(table, at.first + at.size)
  ELSE {[at EXCEPT !.offset = @ + count]}

RowCount ==
  LET e == expected_at.size - expected_at.offset
      a == actual_at.size - actual_at.offset
  IN IF e < a THEN e ELSE a

\* Row i (from 0) of the two slices, in column c.
Differ(c, i) ==
  expected[c][expected_at.first + expected_at.offset + i + 1]
    # actual[c][actual_at.first + actual_at.offset + i + 1]

\* first_difference: the first column that differs, and its first row.
IsFirstDifference(c, i) ==
  /\ Differ(c, i)
  /\ \A j \in 0 .. i - 1 : ~Differ(c, j)
  /\ \A d \in 1 .. c - 1, j \in 0 .. RowCount - 1 : ~Differ(d, j)

Running == verdict.kind = "running" /\ ~IsNone(expected_at) /\ ~IsNone(actual_at)

ReportDifference ==
  /\ Running
  /\ \E c \in Fields, i \in 0 .. RowCount - 1 :
       /\ IsFirstDifference(c, i)
       /\ verdict' = [kind |-> "difference", row |-> compared_rows + i, column |-> c]
  /\ UNCHANGED <<expected, actual, expected_at, actual_at, compared_rows>>

CompareSlices ==
  /\ Running
  /\ \A c \in Fields, i \in 0 .. RowCount - 1 : ~Differ(c, i)
  /\ compared_rows' = compared_rows + RowCount
  /\ expected_at' \in Advance(expected, expected_at, RowCount)
  /\ actual_at' \in Advance(actual, actual_at, RowCount)
  /\ UNCHANGED <<expected, actual, verdict>>

ReportEnd ==
  /\ verdict.kind = "running" /\ (IsNone(expected_at) \/ IsNone(actual_at))
  /\ verdict' = [kind |-> CASE ~IsNone(expected_at) -> "actual ended first"
                            [] ~IsNone(actual_at) -> "expected ended first"
                            [] OTHER -> "OK",
                 row |-> compared_rows]
  /\ UNCHANGED <<expected, actual, expected_at, actual_at, compared_rows>>

Next == ReportDifference \/ CompareSlices \/ ReportEnd

-----------------------------------------------------------------------------

\* The two files agree on rows first .. last (from 0).
Agree(first, last) ==
  \A c \in Fields, i \in first .. last : expected[c][i + 1] = actual[c][i + 1]

\* However the two files are cut into batches, they are found equal exactly if
\* they are; a file is said to end first only if it is a proper beginning of
\* the other, with its length as the row; and a row reported as different is,
\* with no earlier difference in that column.
VerdictExact ==
  LET e == NumRows(expected)
      a == NumRows(actual)
  IN CASE verdict.kind = "running" -> Agree(0, compared_rows - 1)
       [] verdict.kind = "OK" -> expected = actual /\ verdict.row = a
       [] verdict.kind = "actual ended first" -> a < e /\ verdict.row = a /\ Agree(0, a - 1)
       [] verdict.kind = "expected ended first" -> e < a /\ verdict.row = e /\ Agree(0, e - 1)
       [] OTHER ->
            /\ expected[verdict.column][verdict.row + 1] # actual[verdict.column][verdict.row + 1]
            /\ \A i \in 1 .. verdict.row :
                 expected[verdict.column][i] = actual[verdict.column][i]
=============================================================================
