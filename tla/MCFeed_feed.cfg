SPECIFICATION FairSpec
CONSTANTS
  q1 = q1
  q2 = q2
  p1 = p1
  p2 = p2
  none = none
  Proc = {q1, q2}
  Pkt = {p1, p2}
  NoPkt = none
  Failing = {p2}
  MaxConn = 2
  ChanCap = 1
INVARIANTS
  TypeOK
  InOrderPerProc
  SameFeed
PROPERTIES
  FeedLive
  ProcessReturns
CHECK_DEADLOCK FALSE
