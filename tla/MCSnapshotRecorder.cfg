\* Snapshots of two rows in the sixteen-row buffer requestBufferSize() asks
\* for, in chunks of two rows.  Seventeen pushes let the input lap a slow
\* worker.  The system stops when the stream has ended.
CONSTANTS
  RowSize = 2
  ChunkSize = 3
  MinCapacity = 16
  MaxPushes = 17
  MaxReservations = 0
  SnapshotRows = 2
  MaxOpenFailures = 1
SPECIFICATION RecorderSpec
INVARIANTS RecorderTypeOK SnapshotsTile ReservationsMatch CleanFilesExact
CHECK_DEADLOCK FALSE
