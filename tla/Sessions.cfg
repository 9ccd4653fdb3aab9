\* Two streams and one websocket share an arena of fewer slots than sessions opened.
CONSTANTS
  Conns = {c1, c2}
  WsConns = {w1}
  NoConn = nobody
  Pubs = {p1}
  a = a
  b = b
  s1 = s1
  s2 = s2
  Chans = {a, b}
  Tokens <- MCTokens
  NoSubject = none
  MaxSlots = 1
  SlotCap = 1
  MaxSubscriptions = 0
  GenLimit = 4
  WsOffset = 10
  Relay = TRUE
  Relayed = {a}
  MaxOpens = 2
  MaxOps = 3
  MaxPubs = 1
SPECIFICATION Spec
INVARIANTS IdentityIsItsOwn DeliveredToItsSession SlotsAccounted BooksBalance
CHECK_DEADLOCK FALSE
PROPERTY ClosesInTime
