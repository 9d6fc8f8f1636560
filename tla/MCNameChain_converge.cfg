SPECIFICATION FairSpec
CONSTANTS
  n1 = n1
  n2 = n2
  NoID = ""
  NoDomain = "none"
  Node <- Nodes
  Domain = {"h", "d", "e", "g"}
  Owner = {"ann", "bob"}
  TxID = {"t1", "t2", "t3", "t4", "t5", "t6", "t7", "t8"}
  Sent <- SentConverge
  Resend = FALSE
  MaxTxPerBlock = 2
  MaxBlocks = 2
  MaxTime = 0
INVARIANTS
  Converged
  SpentOnce
  OwnershipLineage
PROPERTIES
  BlocksReachAll
CHECK_DEADLOCK FALSE
