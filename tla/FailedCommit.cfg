\* The worker as the only caller of run_once: a failed transaction stops the collector.
SPECIFICATION Spec
CONSTANTS
  Token = {t1}
  QueueCapacity = 2
  BatchSize = 3
  CallerRetries = FALSE
  None = None
  MaxEnvelopes = 2
  MaxStarts = 1
  t1 = t1
INVARIANTS
  FailureDiscardsNothing
CHECK_DEADLOCK FALSE
