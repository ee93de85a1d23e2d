\* Files with up to two buffers of three frames, right and wrong sizes in their
\* headers, and sizes on either side of where an int ends, which is at 48; two
\* interrupts, on any two of the threads, so that two handlers can run at once;
\* no agent, or one.  The program stops, hangs on its agent or on its worker,
\* or reads on behind the end of its file.
CONSTANTS
  Files <- TheFiles
  Buffer = 3
  Half = 48
  Leftovers = {0, 8, 46, 92}
  Agents = {agent}
  MaxInterrupts = 2
SPECIFICATION FairAppSpec
INVARIANTS AppTypeOK FileComesFirst CallbackOutlivesHandlers
PROPERTIES ProgramEnds InterruptReachesFrontend
CHECK_DEADLOCK FALSE
