\* Two tabs, two companies, two baskets, one lost message.
CONSTANTS
    Tab = {t1, t2}
    Company = {x, y}
    Basket = {b1, b2}
    Request = {q1, q2}
    Nobody = Nobody
    MaxTokens = 3
    MaxKeys = 2
    MaxEvents = 3
    MaxLosses = 1
SPECIFICATION SessionSpec
CHECK_DEADLOCK FALSE
SYMMETRY Symmetry
INVARIANTS
    TillTellsTheTruth
    SoldOnceWhereShown
    StoredTokenIsCurrent
