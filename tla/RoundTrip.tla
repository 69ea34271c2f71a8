------------------------------- MODULE RoundTrip -------------------------------
(***************************************************************************)
(* A conversion to Parquet from the first record to the comparison of the  *)
(* published file with an official one: ParquetWriter, and CompareParquet  *)
(* on what it has published.                                               *)
(***************************************************************************)
EXTENDS ParquetWriter

CONSTANT BatchSize  \* BATCH_SIZE

ASSUME RoundTripAssumption == BatchSize \in Nat \ {0}

VARIABLES oracle,  \* per column, the values of the official file
          expected_at, actual_at, compared_rows, verdict

comparison == <<oracle, expected_at, actual_at, compared_rows, verdict>>

C == INSTANCE CompareParquet WITH expected <- oracle, actual <- written

\* Of an official file all that counts is where it says what the converter
\* was given: 0 stands for any other value.  It may have a row more or fewer.
Oracles ==
  UNION {{[c \in Columns |-> [i \in 1 .. n |-> IF <<c, i>> \in wrong THEN 0 ELSE i]] :
            wrong \in SUBSET (Columns \X (1 .. n))} :
         n \in {appended - 1, appended, appended + 1} \cap Nat}

NotCompared == [kind |-> "not compared"]

RInit ==
  /\ Init
  /\ oracle = Empty /\ verdict = NotCompared
  /\ expected_at = NotCompared /\ actual_at = NotCompared /\ compared_rows = 0

\* The tool is started on the published file.
StartComparison ==
  /\ stage = "published" /\ verdict = NotCompared
  /\ oracle' \in Oracles
  /\ expected_at' \in C!Batches(oracle', 0) /\ actual_at' \in C!Batches(written, 0)
  /\ verdict' = [kind |-> "running"]
  /\ UNCHANGED <<vars, compared_rows>>

RNext ==
  \/ Next /\ UNCHANGED comparison
  \/ StartComparison
  \/ verdict # NotCompared /\ C!Next /\ UNCHANGED vars

RSpec == RInit /\ [][RNext]_<<vars, comparison>>

\* The verdict on a published file is a verdict on the records themselves: the
\* file matches the official one exactly if the records given to the writer
\* do, each in every column, and what is reported as different, or as missing
\* at the end, is.
ComparisonExact ==
  verdict # NotCompared =>
    /\ verdict.kind = "OK" => \A c \in Columns : oracle[c] = Appended
    /\ C!VerdictExact
=============================================================================
