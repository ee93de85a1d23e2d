\* Windows of four samples that share one with the next, in a raw buffer of
\* seven; reads of up to fifteen bytes of two-byte samples, so that a batch
\* fills up to three windows, or none, and a read can end inside a sample.  Three
\* samples to a second of a hundred microseconds: times are rounded.
CONSTANTS
  PhaseShift = 0
  Bins = 4
  Overlap = 1
  RawCapacity = 7
  SampleRate = 3
  UsInSecond = 100
  SampleBytes = 2
  BufferBytes = 15
  MaxBytes = 28
SPECIFICATION RawSpec
INVARIANTS NoRowWaits RowTimesClose
PROPERTY IsSlidingWindow
CHECK_DEADLOCK FALSE
