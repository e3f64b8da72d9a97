\* Four emails in batches of two.
CONSTANTS
  Emails = {m1, m2, m3, m4}
  BatchSize = 2
  MaxRetries = 1
SPECIFICATION FairSpec
INVARIANTS TypeOK OneBatchAtATime NobodyStranded ExitNamesUnsettled
PROPERTIES EveryEmailRuns
CHECK_DEADLOCK FALSE
