\* Meteors end after three silent rows, no longer than the advance of three: a
\* snapshot lacks its last row when it is sent.  Eight rows hold two meteors,
\* begun two rows before the stream if they are in its first row.  Snapshots
\* hold meteors of one row whole.  The system stops when the stream has ended.
CONSTANTS
  RowSize = 2
  ChunkSize = 3
  MinCapacity = 56
  MaxPushes = 8
  MaxReservations = 0
  SnapshotRows = 7
  MaxOpenFailures = 1
  Advance = 3
  Jitter = 3
SPECIFICATION FairBolidSpec
INVARIANT MeteorFilesExact
PROPERTY MeteorsGetReleased
CHECK_DEADLOCK FALSE
