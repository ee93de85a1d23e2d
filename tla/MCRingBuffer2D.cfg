\* Two rows to a chunk (3 / 2 rounded up), two chunks (3 / 2 rounded up):
\* four rows where three were asked for.  Eleven pushes lap the buffer twice.
CONSTANTS
  RowSize = 2
  ChunkSize = 3
  MinCapacity = 3
  MaxPushes = 11
  MaxReservations = 2
SPECIFICATION RingSpec
INVARIANTS RingTypeOK WindowCorrect HandlesOwned OverwriteFlagged
