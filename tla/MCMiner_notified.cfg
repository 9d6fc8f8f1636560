SPECIFICATION Spec
CONSTANTS
  t1 = t1
  t2 = t2
  t3 = t3
  Tx <- Txs
  Cap = 2
  MaxTxPerBlock = 2
  MayFail = FALSE
  MayStop = FALSE
  MaxLoose = 4
INVARIANTS
  Notified
CHECK_DEADLOCK FALSE
