\* Three requests at a time on one expense.
CONSTANTS
    None = None
    Expense = {e1}
    Tx = {t1, t2, t3}
    Amount = {1, 2}
    MaxEntries = 5
SPECIFICATION Spec
\* Once every expense is deleted nothing is left to ask.
CHECK_DEADLOCK FALSE
SYMMETRY Symmetry
INVARIANTS
    RowsMatchEntries
PROPERTIES
    NothingRevived
