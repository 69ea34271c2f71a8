\* Row groups of two: none, one and two full ones, and each with a rest.
\* Batches of up to three rows, cut differently in the two files.
CONSTANTS
  RowGroupSize = 2
  ColumnCount = 2
  MaxRows = 5
  BatchSize = 3
SPECIFICATION RSpec
CHECK_DEADLOCK FALSE
INVARIANTS TypeOk InFlightExact FileExact ComparisonExact
