\* Snapshots of one row, an hour of two rows, three rows: a snapshot is sent,
\* and another when the stream ends, whose lines belong to other hours than a
\* meteor's; a stream may also end before its first row.  Two of the three fields, so that a line can mix rows; two
\* meteors, which one period can announce both; one death of the process
\* anywhere.
CONSTANTS
  Writers = {"input", "worker"}
  HourOf <- HourOfRow
  HourRows = 2
  Fields = {noise, magnitude}
  SnapshotRows = 1
  MaxRows = 3
  MaxMeteors = 2
  MaxRestarts = 1
SPECIFICATION FairMessageSpec
INVARIANTS MessageTypeOK FilesAreLogs  AnnouncedIsLogged
PROPERTIES MidiMessagesLeave
CHECK_DEADLOCK FALSE
