SPECIFICATION Spec
CONSTANTS
  n1 = n1
  n2 = n2
  NoID = ""
  NoDomain = "none"
  Node <- Nodes
  Domain = {"h", "d", "e", "g"}
  Owner = {"ann", "bob"}
  TxID = {"t1", "t2", "t3", "t4", "t5", "t6", "t7"}
  Sent <- SentSpends
  Resend = FALSE
  MaxTxPerBlock = 1
  MaxBlocks = 2
  MaxTime = 0
INVARIANTS
  SpentOnce
CHECK_DEADLOCK FALSE
