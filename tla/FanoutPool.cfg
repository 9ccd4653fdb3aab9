\* Two publishes of even and uneven chunks, one of them small enough to go
\* without the pool, and a jobs channel that fills up.
CONSTANTS
  Pubs = {p1, p2}
  PoolWorkers = {k1, k2}
  JobsCap = 1
  Threshold = 2
  ListSizes = {1, 3}
  MaxFanouts = 2
SPECIFICATION FairSpec
INVARIANT FanoutExact
PROPERTY PublishReturns
CHECK_DEADLOCK FALSE
