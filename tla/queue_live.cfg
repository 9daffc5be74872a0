SPECIFICATION FairSpec
CONSTANTS
  Ids = {1, 2}
  Providers = {p1}
  p1 = p1
  Workers = {w1}
  w1 = w1
  w2 = w2
  QueueSize = 1
  BatchSize = 1
  MaxAttempts = 2
  Backoff <- MCBackoff
  MaxRestarts = 2
  MaxFaults = 1
INVARIANTS
  NoLostWakeup
PROPERTIES
  EverySettles
  StopReturns
