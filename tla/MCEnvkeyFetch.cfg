\* Two calls with ENVKEYs of any kind; one failover and one retry.
CONSTANTS
  Fetches = {p1, p2}
  NumFailovers = 1
  Retries = 1
SPECIFICATION Spec
INVARIANTS RemovedIsRefused WriteSettled CacheServes
PROPERTIES EveryFetchReturns
CHECK_DEADLOCK FALSE
