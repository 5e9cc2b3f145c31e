SPECIFICATION FairSpec
CONSTANTS
  Paths = {p1, p2, p3}
  TxCap <- MCTxCap
  MaxTime = 2
  MaxFaults = 1
PROPERTIES StaleRemoved
