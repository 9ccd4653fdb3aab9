\* A ring of two, a publisher against the dispatch goroutine, batches of two;
\* the peer may vanish and the session may be cancelled.
CONSTANTS
  Cap = 2
  Publishers = {p1}
  Dispatch = d
  Batch = 2
  Batching = TRUE
  Faulty = TRUE
  MaxMsgs = 2
SPECIFICATION FairSpec
INVARIANTS SentInClaimOrder RefusedOnlyWhenFull
PROPERTIES ImplementsFifo AcceptedIsSent SendReturns
CHECK_DEADLOCK FALSE
