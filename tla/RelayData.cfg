\* Two workers, a buffer of one, two publications, two outages.
CONSTANTS
  Workers = {w1, w2}
  IncomingCap = 1
  HistCap = 1
  MaxEpoch = 2
  MaxPublish = 2
  MaxOutages = 2
  MaxLapses = 1
SPECIFICATION FairSpec
INVARIANTS OncePerTtl SuppressedWasPublished StopDrains
PROPERTY OutageIsRecovered
