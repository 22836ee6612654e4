\* One count of two rows and two counting requests at a time.
\* No deadlock check: the count is closed and the bounds leave no other movement.
CONSTANTS
    None = None
    NoCost = NoCost
    Uncounted = Uncounted
    CostPrice = 2
    Cent = 2
    Level = {l1, l2}
    Moves <- MCMoves
    MaxQty = 3
    Count = {c1}
    Tx = {t1, t2}
    MaxMovements = 4
SPECIFICATION CountSpec
CHECK_DEADLOCK FALSE
SYMMETRY Symmetry
INVARIANTS
    MovementsAreCounted
    InventoryAccountFollowsWorth
