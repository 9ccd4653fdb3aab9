\* Two publishers, batches of two, a queue of two, three requests.
CONSTANTS
  Pubs = {p1, p2}
  SendCap = 2
  BatchSize = 2
  DrainFrames = 2
  IdleLimit = 2
  MaxDeliveries = 2
  MaxRequests = 3
SPECIFICATION FairSpec
INVARIANT FramesFaithful
PROPERTY SessionEnds
CHECK_DEADLOCK FALSE
