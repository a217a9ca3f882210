CONSTANTS
  Heights <- MCHeights
  NumUpdates <- MCNumUpdates
  Forks <- MCForks
  CacheSize = 2
  Nil = Nil

SPECIFICATION Spec

INVARIANT DiscrepancyOnlyAtGap
