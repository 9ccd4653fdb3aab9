\* Two publishers, a subscriber that recovers and confirms, history enough for a gap of two.
CONSTANTS
  MaxCount = 1
  MaxBytes = 0
  MaxRedeliveries = 1
  Redelivery = TRUE
  Pubs = {p1, p2}
  HistCap = 2
  Ttl = FALSE
  IdleReap = FALSE
  PumpBatch = 2
  QueueCap = 1
  Seed = 1
  Resubscribing = FALSE
  Recovering = TRUE
  Confirming = TRUE
  Stopping = FALSE
  MaxPublish = 2
  MaxEpoch = 1
  MaxWindows = 1
SPECIFICATION FairSpec
INVARIANTS GapFree DupMeansDelivered ConfirmedWasReceived
PROPERTY OwedIsSent
CHECK_DEADLOCK FALSE
