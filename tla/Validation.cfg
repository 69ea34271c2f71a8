\* A piece may need three calls to give out what it decodes to; three pieces
\* are a whole frame and a part of the next, read together or one by one.
CONSTANTS
  MaxByte = 2
  Magic = 1
  LengthMultiplier = 2
  MinRecord = 2
  MaxRecord = 2
  ChunkLimit = 2
  InputLimit = 9
  MaxPieces = 3
  MaxYield = 3
  InSize = 2
  OutSize = 1
SPECIFICATION VSpec
CHECK_DEADLOCK FALSE
INVARIANTS VTypeOk AcceptedWhole RefusedForCause
PROPERTIES Terminates
