CONSTANTS
  Heights <- MCHeights
  NumUpdates <- MCNumUpdates
  Forks <- MCForks
  CacheSize = 2
  Nil = Nil

SPECIFICATION FairSpec

INVARIANT TypeOK
PROPERTY StreamRefinement
PROPERTY CachedBlocksDelivered
