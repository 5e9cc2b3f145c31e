SPECIFICATION FairSpec
CONSTANTS
  Ids = {1, 2, 3, 4}
  NumVersions = 3
  State <- MCState
  PageSizes <- MCPageSizes
  MaxLimit = 2
  MaxChanges = 2
  MaxFaults = 1
INVARIANTS ListedInOrder ObjectsComplete StateComplete
PROPERTIES ListingEnds
