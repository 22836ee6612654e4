\* Two sales that compete for stock and numbers; a till and two submissions.
CONSTANTS
    None = None
    Sale = {s1, s2}
    Key = {k1}
    Tx = {t1}
    Sub = {q1, q2}
    Customer = {c1}
    MaxSecrets = 1
    Qty = {1, 2}
    Amount = {1}
    UnitPrice = 1
    UnitCost = 1
    InitialStock = 2
    MonthlyLimit = 2
SPECIFICATION QSpec
SYMMETRY Symmetry
INVARIANTS
    RollBacksLeaveNothing
    SuccessIsPayment
PROPERTIES
    AnswerIsFinal
    ImplementsSettlement
