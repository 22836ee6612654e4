\* Opening balances, reversals and periods, three requests at a time, with the
\* reports that are read meanwhile.
CONSTANTS
    Tx = {t1, t2, t3}
    OpeningLines <- MCOpeningLines
    Span <- MCSpan
    Today = 1
    MaxEntries = 3
    MaxPeriods = 1
    c1 = c1
    b1 = b1
    b2 = b2
    NoBranch = NoBranch
    Party = {c1}
    Branch = {b1, b2}
    Before <- MCBefore
    Postings <- MCPostings
    Scopes <- MCScopes
    MaxOther = 3
    MaxRows = 1
    MaxOpen = 1
SPECIFICATION ReportsSpec
SYMMETRY Symmetry
INVARIANTS
    ReportsTypeOK
    OneActiveOpening
    EntriesStand
    SubledgersTieOut
    ReportsAgree
