SPECIFICATION FairSpec
CONSTANTS
  t1 = t1
  t2 = t2
  t3 = t3
  Tx <- Txs
  Cap = 1
  MaxTxPerBlock = 2
  MayFail = TRUE
  MayStop = TRUE
  MaxLoose = 4
INVARIANTS
  TypeOK
  StopInv
  StopWaits
PROPERTIES
  StopReturns
  ListenerUnblocks
CHECK_DEADLOCK FALSE
