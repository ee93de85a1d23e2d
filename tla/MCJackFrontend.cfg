\* Snapshots of one row in the eight-row buffer requestBufferSize() asks for;
\* four rows, so that the callback sends a snapshot before, while and after the
\* stream is ended, by either thread or both.  The system stops when both have
\* returned.
CONSTANTS
  RowSize = 2
  ChunkSize = 3
  MinCapacity = 8
  MaxPushes = 4
  MaxReservations = 0
  SnapshotRows = 1
  MaxOpenFailures = 0
SPECIFICATION JackSpec
INVARIANTS OrderlyUnlessOverlapped OnlyLateRowsAreLost UndefinedOnlyByBoth
CHECK_DEADLOCK FALSE
