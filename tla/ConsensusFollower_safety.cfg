CONSTANTS
  b1 = b1
  b2 = b2
  b3 = b3
  f2 = f2
  Nil = Nil
  Blocks <- MCBlocks
  HeightOf <- MCHeightOf
  Final <- MCFinal
  LookupsFail = TRUE

SPECIFICATION FairSpec

INVARIANT TypeOK
INVARIANT IndexedIsFinalized
PROPERTY StoredHeightsIndexed

CHECK_DEADLOCK FALSE
