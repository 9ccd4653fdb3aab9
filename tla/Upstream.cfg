\* Two sessions, one channel, a send buffer of two, two reconnects.
CONSTANTS
  Channels = {ch1}
  Clients = {c1, c2}
  SendCap = 2
  Auth = TRUE
  MaxRetries = 1
  MaxStreams = 3
  MaxCalls = 2
  MaxMsgs = 1
SPECIFICATION Spec
INVARIANT SettledCovers
PROPERTY OnlyDeadStreamsDropped
CHECK_DEADLOCK FALSE
