SPECIFICATION PoolSpec
CONSTANTS
  numberOfNode = 2
  MaxBlocks = 6
  OutputLen = {127, 1250}
  WholeSize = {2048}
INVARIANTS FreeListsIntact BigEnough
