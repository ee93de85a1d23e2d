\* Meteors end after three silent rows, exactly enough for an advance of two.
\* Snapshots hold four rows around a meteor of up to three; longer ones are
\* cut.  Thirteen rows hold up to three meteors.
CONSTANTS
  Advance = 2
  Jitter = 3
  SnapshotRows = 7
  MaxRows = 13
SPECIFICATION DetectorSpec
INVARIANTS DetectorTypeOK MeteorsAreSent OneMeteorHeld CompleteWhenSent
PROPERTY IsMeteorDetection
CHECK_DEADLOCK FALSE
