SPECIFICATION MCSpec
CONSTANTS
  NumJobs = 2
  Workers = {w1, w2}
  Modes = {TRUE, FALSE}
  PageSize = 1
  TxCaps = {1, 2}
  d1 = d1
  d2 = d2
  Digests = {d1, d2}
  Bad = Bad
  NoRow = NoRow
  MaxEvents = 1
INVARIANTS IndexedMatches NothingLeftBehind CrashOnlyAfterError
PROPERTIES NoIndexingAfterError RunEnds
