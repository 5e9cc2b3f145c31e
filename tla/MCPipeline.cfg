SPECIFICATION FairSpec
CONSTANTS
  NumJobs <- MCNumJobs
  Workers = {w1, w2}
INVARIANTS NothingLost NoSendOnClosed
PROPERTIES ImplementsFanOut RunReturns
