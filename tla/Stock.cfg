\* Two rows of stock, two requests at a time; averages with a fraction.
CONSTANTS
    None = None
    NoCost = NoCost
    CostPrice = 2
    Cent = 2
    Level = {l1, l2}
    Tx = {t1, t2}
    Moves <- MCMoves
    MaxQty = 2
SPECIFICATION FairSpec
INVARIANTS
    TypeOK
PROPERTIES
    ImplementsAtomicStock
    WorthFollowsGoods
    EveryRequestEnds
