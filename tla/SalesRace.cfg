\* One sale, three requests at a time: every race on its rows.
CONSTANTS
    None = None
    Sale = {s1}
    Key = {k1, k2}
    Tx = {t1, t2, t3}
    Qty = {1, 2}
    Amount = {1, 2}
    UnitPrice = 2
    UnitCost = 1
    InitialStock = 2
    MonthlyLimit = 1
SPECIFICATION Spec
SYMMETRY Symmetry
INVARIANTS
    TypeOK
    WithinSale
    BooksMatchSale
    NeverRefundedMoreThanPaid
    OneEntryPerKey
    ReversedOnce
