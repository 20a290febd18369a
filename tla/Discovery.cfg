\* Five envelopes of one token, rejections, parse failures and outages over two lives of a
\* process; a queue of two and batches of three.  Deadlock: the bounds end the behaviours.
SPECIFICATION FairSpec
CONSTANTS
  Token = {t1}
  QueueCapacity = 2
  BatchSize = 3
  CallerRetries = TRUE
  None = None
  MaxEnvelopes = 5
  MaxStarts = 2
  t1 = t1
INVARIANTS
  MemoryConsistent
  OutagesMarked
PROPERTIES
  ReceivedIsSettled
CHECK_DEADLOCK FALSE
