SPECIFICATION FairSpec
CONSTANTS
  a = a
  b = b
  c = c
  m1 = m1
  m2 = m2
  user = user
  miner = miner
  Caller = {user}
  NoRoute = NoRoute
  Node <- PairNode
  Bootstrap <- Pair
  LatePeer <- NoLate
  Outcome <- Accepting
  Msg = {m1}
  Ticks = {b}
  AckTimeout = FALSE
  Quota <- QuotaA2
  QueueCap = 12
  MaxLoss = 1
PROPERTIES
  DistributedToAll
