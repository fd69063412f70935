CONSTANTS
    b1 = b1  b2 = b2  p1 = p1  p2 = p2
    Malformed = Malformed
    LbOrder <- MCLbOrder
    PoolIds <- MCPoolIds
    InitLbPools <- MCInitLbPools
    MaxLinks = 2
    MaxReplaces = 1
SPECIFICATION Spec
INVARIANT EveryReferencingLbHasPool
