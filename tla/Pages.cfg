\* Two documents and two handlers, one page at a time; one loss.
\* No deadlock check: forms, documents and room for payments run out.
SPECIFICATION Spec
CONSTANTS
    r1 = r1
    r2 = r2
    h1 = h1
    h2 = h2
    s1 = s1
    NoRow = NoRow
    Row <- MCRow
    Handler <- MCHandler
    Stray <- MCStray
    MaxForms <- MCForms
    MaxLost = 1
    Total = 2
CHECK_DEADLOCK FALSE
SYMMETRY Symmetry
INVARIANTS
    PageTellsTheTruth
    RecordedOnce
    BusyIsUnderWay
