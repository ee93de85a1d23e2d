\* Snapshots of one row, and fewer pushes than the buffer has rows: the
\* stream does not lap it.  The system stops when the stream has ended.
CONSTANTS
  RowSize = 2
  ChunkSize = 3
  MinCapacity = 8
  MaxPushes = 6
  MaxReservations = 0
  SnapshotRows = 1
  MaxOpenFailures = 1
SPECIFICATION FairRecorderSpec
PROPERTY SnapshotsGetReleased
CHECK_DEADLOCK FALSE
