CONSTANTS
  MaxByte = 3
  Magic = 1
  LengthMultiplier = 2
  MinRecord = 2
  MaxRecord = 4
  ChunkLimit = 3
  InputLimit = 9
SPECIFICATION Spec
CHECK_DEADLOCK FALSE
INVARIANTS TypeOk VerdictExact CountersExact RefusalFinal
