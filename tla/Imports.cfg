\* One job of each kind, two requests on it, one edit by another user.
CONSTANTS
    Empty = Empty
    a = a
    b = b
    c = c
    Name = {a, b, c}
    Entity = {"products", "barcodes", "categories", "units", "parties", "opening_stock"}
    File <- MCFile
    Existing <- MCExisting
    Caller = {q1, q2}
    MaxEdits = 1
    MaxMade = 1
SPECIFICATION ImportSpec
\* A completed or cancelled job leaves nothing to ask for.
CHECK_DEADLOCK FALSE
SYMMETRY Symmetric
INVARIANTS
    JobTellsTheTruth
    KeyedRowsOnce
    UndisturbedImportIsWhole
