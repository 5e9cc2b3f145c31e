SPECIFICATION IdxSpec
CONSTANTS
  NumJobs = 2
  Workers = {w1, w2}
  Modes = {FALSE}
  PageSize = 2
  TxCaps = {2}
  d1 = d1
  d2 = d2
  Digests = {d1}
  Bad = Bad
  NoRow = NoRow
  MaxEvents = 0
INVARIANTS NoCrash
