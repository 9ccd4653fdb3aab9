CONSTANTS
  MaxCount = 1
  MaxBytes = 0
  MaxRedeliveries = 1
  Redelivery = FALSE
  Pubs = {p1}
  HistCap = 2
  Ttl = TRUE
  IdleReap = TRUE
  PumpBatch = 2
  QueueCap = 1
  Seed = 2
  Resubscribing = TRUE
  Recovering = TRUE
  Confirming = FALSE
  Stopping = TRUE
  MaxPublish = 1
  MaxEpoch = 2
  MaxWindows = 2
SPECIFICATION Spec
CHECK_DEADLOCK FALSE
INVARIANTS WindowMatchesSubscription SweeperFollowsSession LostRangeIsGone
