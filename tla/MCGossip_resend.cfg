SPECIFICATION Spec
CONSTANTS
  a = a
  b = b
  c = c
  m1 = m1
  m2 = m2
  user = user
  miner = miner
  Caller = {user}
  NoRoute = NoRoute
  Node <- HubNode
  Bootstrap <- Hub
  LatePeer <- LateB
  Outcome <- FlakyB
  Msg = {m1}
  Ticks = {b}
  AckTimeout = TRUE
  Quota <- QuotaA2
  QueueCap = 1
  MaxLoss = 0
INVARIANTS
  TypeOK
  Integrity
  NoGap
  TruthfulStatus
  AckedSome
PROPERTIES
  InOrderOnce
  ImplementsFifoBroadcast
