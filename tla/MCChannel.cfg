\* Two messages, put in the channel five times in all, so that messages are
\* sent while the worker drains, works, puts some back, sleeps and wakes.
\* The system stops once the worker has been joined and all sends are made.
CONSTANTS
  Message = {m1, m2}
  MaxSends = 5
SPECIFICATION FairChannelSpec
INVARIANTS ChannelTypeOK NoSleepOverMessages ClosedMeansDrained
PROPERTIES IsQueue MessagesGetDrained
CHECK_DEADLOCK FALSE
