\* A task of the retry queue that fails.
CONSTANTS
  Emails = {m1, m2, m3}
  BatchSize = 2
  MaxRetries = 4
SPECIFICATION Spec
PROPERTIES CompletedOrReenqueued
CHECK_DEADLOCK FALSE
