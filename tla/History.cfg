\* A ring of three that wraps twice, two payloads, stamps up to three.
CONSTANTS
  Cap = 3
  Ttl = 1
  Payloads = {1, 2}
  MaxPublish = 7
  MaxTime = 2
SPECIFICATION Spec
INVARIANT ReplayIsExact
PROPERTY ImplementsLog
CHECK_DEADLOCK FALSE
