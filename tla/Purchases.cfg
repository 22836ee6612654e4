\* Two purchases of one line, two requests at a time, two keys.
CONSTANTS
    None = None
    NoCost = NoCost
    CostPrice = 5
    Purchase = {p1, p2}
    Key = {k1, k2}
    Tx = {t1, t2}
    Order <- MCOrder
    Qty = {5, 10}
    Amount = {5}
    Hundredth = 10
    Cent = 10
    InitialStock = 5
    MaxIssued = 5
SPECIFICATION Spec
SYMMETRY Symmetry
INVARIANTS
    RollBacksLeaveNothing
    BooksMatchPurchase
    ReturnsAddUp
PROPERTIES
    ImplementsSettlement
