SPECIFICATION Spec
CONSTANTS
  a = a
  b = b
  c = c
  m1 = m1
  m2 = m2
  user = user
  miner = miner
  Caller = {user, miner}
  NoRoute = NoRoute
  Node <- PairNode
  Bootstrap <- Pair
  LatePeer <- NoLate
  Outcome <- Accepting
  Msg = {m1, m2}
  Ticks = {b}
  AckTimeout = FALSE
  Quota <- QuotaA
  QueueCap = 1
  MaxLoss = 0
INVARIANTS
  UniqueSequence
