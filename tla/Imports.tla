------------------------------ MODULE Imports ------------------------------
(***************************************************************************)
(* An Excel import, from the upload to the last row (imports.service.ts),  *)
(* and the catalog it writes to (catalog.service.ts, products.service.ts,  *)
(* customers.service.ts, suppliers.service.ts), which other users edit.    *)
(*                                                                         *)
(* createJob, runValidation and confirmImport are not one transaction:     *)
(* each status they write commits on its own and each row of a             *)
(* confirmation is a transaction of its own, so requests interleave        *)
(* between any two of them and a process can die there.                    *)
(***************************************************************************)
EXTENDS Integers, Sequences, FiniteSets

CONSTANTS
    Name,       \* SKUs, barcodes, names, references
    Empty,      \* an empty cell
    Entity,     \* kinds of import that are tried
    File,       \* File[e]: files of kind e: a sequence of rows per mapping, << >>
                \* for a mapping under which nothing can be read
    Existing,   \* Existing[t]: keys of the rows of table t before the import
    Caller,     \* requests on the job that can be open at the same time
    MaxEdits,   \* bound: edits of the catalog by other users
    MaxMade     \* bound: no confirmation is asked for after a row was made that often

VARIABLES
    job,        \* the row of import_jobs
    saved,      \* the uploaded file is in the storage
    live,       \* live[t][n]: rows of table t with key n that are not deleted
    gone,       \* gone[t][n]: the deleted ones
    stock,      \* quantityOnHand of each product in the target warehouse
    made,       \* made[i]: how often row i of the file was created
    edits,      \* edits made by other users
    req,        \* the requests
    crashed     \* a request died between two of its steps (bound: once)

catalog == <<live, gone, stock>>
ivars == <<job, saved, live, gone, stock, made, edits, req, crashed>>

-----------------------------------------------------------------------------
\* A row of the file as a mapping reads it.  ok: the required cells are there and
\* every number is in its range.
Row == [ok : BOOLEAN, key : Name \cup {Empty}, ref : Name \cup {Empty},
        code : Name \cup {Empty}, qty : Nat]

Table == {"product", "barcode", "category", "unit", "party"}

Kind == {"products", "barcodes", "categories", "units", "parties", "opening_stock"}

TableOf(e) == CASE e = "barcodes"   -> "barcode"
                [] e = "categories" -> "category"
                [] e = "units"      -> "unit"
                [] e = "parties"    -> "party"
                [] OTHER            -> "product"

NoFile == <<>>

\* The mapping decides how a row is read, not how many there are.  Only a party may
\* come without a key.
ASSUME ImportAssumption ==
    /\ Empty \notin Name
    /\ Entity \subseteq Kind
    /\ \A e \in Entity : \A f \in File[e] :
          /\ f \in Seq(Seq(Row)) /\ f # NoFile
          /\ \A m \in 1..Len(f) : Len(f[m]) = Len(f[1])
          /\ \A m \in 1..Len(f) : \A i \in 1..Len(f[m]) :
                f[m][i].ok /\ e # "parties" => f[m][i].key # Empty
    /\ Existing \in [Table -> SUBSET Name]
    /\ MaxEdits \in Nat

\* The table a row refers to.
RefTable(e) == IF e = "barcodes" THEN "product" ELSE "category"

NoJob == [status |-> "none", entity |-> "none", file |-> NoFile, mapping |-> 1,
          valid |-> 0, imported |-> 0, errors |-> 0, alone |-> FALSE]

Status == {"none", "uploaded", "analyzing", "ready", "validating", "validated",
           "importing", "completed", "failed", "cancelled"}

\* step: what the request does next.  rows: the file under the mapping it read.
\* accepted: rows that passed validation.  next: the row to create.  done, bad:
\* importedCount and importErrors.  alone: nothing else wrote to the catalog
\* since the rows were checked.
Idle == [step |-> "idle", mapping |-> 1, rows |-> <<>>, accepted |-> {}, next |-> 0,
         done |-> 0, bad |-> 0, alone |-> FALSE]

Step == {"idle", "save", "analyze", "parse", "map", "cancel",
         "validating", "check", "validated", "importing", "recheck", "row", "move"}

\* The rows of the uploaded file.
Total == IF job.file = NoFile THEN 0 ELSE Len(job.file[1])

AnyFile == {NoFile} \cup UNION {File[e] : e \in Entity}

Job == [status : Status, entity : Entity \cup {"none"}, file : AnyFile, mapping : Nat,
        valid : Nat, imported : Nat, errors : Nat, alone : BOOLEAN]

Call == [step : Step, mapping : Nat, rows : Seq(Row), accepted : SUBSET (1..Total),
         next : Nat, done : Nat, bad : Nat, alone : BOOLEAN]

-----------------------------------------------------------------------------
\* Names taken by a live or a deleted row: what the unique index refuses.
Taken(t, n) == live[t][n] + gone[t][n] > 0

\* Faulty variant: no unique index stands behind the checks.
FreeUnlessLive(t, n) == live[t][n] = 0

Free(t, n) == ~Taken(t, n)

\* An empty reference is allowed, another must name a live row.
Known(t, n) == n = Empty \/ live[t][n] > 0

RepeatedKey(rows, i) ==
    rows[i].key # Empty /\ \E j \in 1..(i - 1) : rows[j].key = rows[i].key

RepeatedCode(rows, i) ==
    rows[i].code # Empty /\ \E j \in 1..(i - 1) : rows[j].code = rows[i].code

\* What each kind is held against in the database.
validateProductsRows(row) ==
    /\ ~Taken("product", row.key)
    /\ Known("category", row.ref)
    /\ row.code = Empty \/ ~Taken("barcode", row.code)

validateBarcodesRows(row) ==
    ~Taken("barcode", row.key) /\ live["product"][row.ref] > 0

validateCategoriesRows(row) == Known("category", row.ref)

validateUnitsRows(row) == live["unit"][row.key] = 0

validatePartyRows(row) == row.key = Empty \/ ~Taken("party", row.key)

validateOpeningStockRows(row) == live["product"][row.key] > 0

Fits(e, row) ==
    \/ e = "products" /\ validateProductsRows(row)
    \/ e = "barcodes" /\ validateBarcodesRows(row)
    \/ e = "categories" /\ validateCategoriesRows(row)
    \/ e = "units" /\ validateUnitsRows(row)
    \/ e = "parties" /\ validatePartyRows(row)
    \/ e = "opening_stock" /\ validateOpeningStockRows(row)

\* validateRows: the malformed rows and the repeated ones are left out.
Accepted(e, rows) ==
    {i \in DOMAIN rows :
        /\ rows[i].ok
        /\ ~RepeatedKey(rows, i)
        /\ ~RepeatedCode(rows, i)
        /\ Fits(e, rows[i])}

\* The service of the kind would create the row now.
CanCreate(e, row) ==
    \/ e = "products" /\ Free("product", row.key) /\ Known("category", row.ref)
                      /\ (row.code = Empty \/ Free("barcode", row.code))
    \/ e = "barcodes" /\ Free("barcode", row.key) /\ live["product"][row.ref] > 0
    \/ e = "categories" /\ Known("category", row.ref)
    \/ e = "units" /\ Free("unit", row.key)
    \/ e = "parties" /\ (row.key = Empty \/ Free("party", row.key))

-----------------------------------------------------------------------------
Rows(keys) ==
    [t \in Table |-> [n \in Name \cup {Empty} |-> IF n \in keys[t] THEN 1 ELSE 0]]

ImportInit ==
    /\ job = NoJob
    /\ saved = FALSE
    /\ live = Rows(Existing)
    /\ gone = Rows([t \in Table |-> {}])
    /\ stock = [n \in Name |-> 0]
    /\ made = <<>>
    /\ edits = 0
    /\ req = [q \in Caller |-> Idle]
    /\ crashed = FALSE

Go(q, r) == req' = [req EXCEPT ![q] = r]

\* The next step of a request that reached step s.
Proceed(q, s) == Go(q, [req[q] EXCEPT !.step = s])

At(q, s) == req[q].step = s

\* Whoever checked rows no longer knows the catalog as it is.
Disturbed == [p \in Caller |-> [req[p] EXCEPT !.alone = FALSE]]

\* A request wrote to the catalog: it knows, the others do not.
Seen(q, r) == req' = [Disturbed EXCEPT ![q] = r]

-----------------------------------------------------------------------------
\* createJob: the row is inserted; its file and its analysis follow.  The same
\* clientReferenceId finds the row and changes nothing.
Create(q) ==
    /\ At(q, "idle")
    /\ job.status = "none"
    /\ \E e \in Entity : \E f \in File[e] :
          /\ job' = [NoJob EXCEPT !.status = "uploaded", !.entity = e, !.file = f]
          /\ made' = [i \in DOMAIN f[1] |-> 0]
    /\ Proceed(q, "save")
    /\ UNCHANGED <<saved, catalog, edits, crashed>>

\* Faulty variant: the file is stored after it was analysed.
SaveFileLate(q) ==
    \/ /\ At(q, "save")
       /\ Proceed(q, "analyze")
       /\ UNCHANGED <<job, saved, catalog, made, edits, crashed>>
    \/ /\ At(q, "idle") /\ job.status = "ready" /\ ~saved
       /\ saved' = TRUE
       /\ UNCHANGED <<job, catalog, made, edits, req, crashed>>

SaveFile(q) ==
    /\ At(q, "save")
    /\ saved' = TRUE
    /\ Proceed(q, "analyze")
    /\ UNCHANGED <<job, catalog, made, edits, crashed>>

Analyze(q) ==
    /\ At(q, "analyze")
    /\ job' = [job EXCEPT !.status = "analyzing"]
    /\ Proceed(q, "parse")
    /\ UNCHANGED <<saved, catalog, made, edits, crashed>>

\* A file that cannot be read, or without a header, has no rows either and fails
\* the job.  A mapping is suggested otherwise, also where only the header is there.
Parse(q) ==
    /\ At(q, "parse")
    /\ \E status \in {"ready", "failed"} :
          /\ status = "failed" => job.file[1] = <<>>
          /\ job' = [job EXCEPT !.status = status]
    /\ Go(q, Idle)
    /\ UNCHANGED <<saved, catalog, made, edits, crashed>>

\* setMapping reads the status, and writes by id.
BeginMapping(q) ==
    /\ At(q, "idle")
    /\ job.status \in {"ready", "validated"}
    /\ \E m \in DOMAIN job.file : Go(q, [Idle EXCEPT !.step = "map", !.mapping = m])
    /\ UNCHANGED <<job, saved, catalog, made, edits, crashed>>

SetMapping(q) ==
    /\ At(q, "map")
    /\ job' = [job EXCEPT !.status = "ready", !.mapping = req[q].mapping,
                          !.valid = 0, !.errors = 0]
    /\ Go(q, Idle)
    /\ UNCHANGED <<saved, catalog, made, edits, crashed>>

\* cancel likewise.
BeginCancel(q) ==
    /\ At(q, "idle")
    /\ job.status \in {"uploaded", "ready", "validated", "failed"}
    /\ Proceed(q, "cancel")
    /\ UNCHANGED <<job, saved, catalog, made, edits, crashed>>

Cancel(q) ==
    /\ At(q, "cancel")
    /\ job' = [job EXCEPT !.status = "cancelled"]
    /\ Go(q, Idle)
    /\ UNCHANGED <<saved, catalog, made, edits, crashed>>

-----------------------------------------------------------------------------
BeginValidation(q) ==
    /\ At(q, "idle")
    /\ job.status \in {"ready", "validated"}
    /\ Proceed(q, "validating")
    /\ UNCHANGED <<job, saved, catalog, made, edits, crashed>>

\* The update returns the row: the mapping is the one of this moment.
Reading(q, s) == Go(q, [req[q] EXCEPT !.step = s, !.rows = job.file[job.mapping]])

MarkValidating(q) ==
    /\ At(q, "validating")
    /\ job' = [job EXCEPT !.status = "validating"]
    /\ Reading(q, "check")
    /\ UNCHANGED <<saved, catalog, made, edits, crashed>>

\* validateRows: one snapshot of the catalog for the whole file.
CheckRows(q) ==
    /\ \/ At(q, "check")
       \/ At(q, "recheck")
    /\ LET ok == Accepted(job.entity, req[q].rows)
       IN  Go(q, [req[q] EXCEPT
                    !.step = IF @ = "check" THEN "validated" ELSE "row",
                    !.accepted = ok, !.alone = TRUE,
                    !.next = 1])
    /\ UNCHANGED <<job, saved, catalog, made, edits, crashed>>

StoreValidation(q) ==
    /\ At(q, "validated")
    /\ job' = [job EXCEPT !.status = "validated",
                          !.valid = Cardinality(req[q].accepted),
                          !.errors = Len(req[q].rows) - Cardinality(req[q].accepted)]
    /\ Go(q, Idle)
    /\ UNCHANGED <<saved, catalog, made, edits, crashed>>

-----------------------------------------------------------------------------
\* confirmImport of a job that is importing or completed returns it as it is.
BeginConfirm(q) ==
    /\ At(q, "idle")
    /\ job.status = "validated"
    /\ \A i \in DOMAIN made : made[i] < MaxMade
    /\ Proceed(q, "importing")
    /\ UNCHANGED <<job, saved, catalog, made, edits, crashed>>

MarkImporting(q) ==
    /\ At(q, "importing")
    /\ job' = [job EXCEPT !.status = "importing"]
    /\ Reading(q, "recheck")
    /\ UNCHANGED <<saved, catalog, made, edits, crashed>>

Current(q) == req[q].rows[req[q].next]

More(q) == req[q].next <= Len(req[q].rows)

\* Faulty variant: an import stops at the first row that cannot be created.
CountedUntilFailure(q, ok) ==
    [req[q] EXCEPT !.step = "row",
                   !.next = IF ok THEN @ + 1 ELSE Len(req[q].rows) + 1,
                   !.done = IF ok THEN @ + 1 ELSE @,
                   !.bad = IF ok THEN @ ELSE Len(req[q].rows) - req[q].done]

\* A row counts as imported or as an error, and the next one follows.
Counted(q, ok) ==
    [req[q] EXCEPT !.step = "row", !.next = @ + 1,
                   !.done = IF ok THEN @ + 1 ELSE @,
                   !.bad = IF ok THEN @ ELSE @ + 1]

\* A row that was rejected, or whose creation fails: the import goes on.
SkipRow(q) ==
    /\ At(q, "row") /\ More(q)
    /\ \/ req[q].next \notin req[q].accepted
       \/ job.entity = "opening_stock"
          /\ (live["product"][Current(q).key] = 0 \/ stock[Current(q).key] # 0)
       \/ job.entity # "opening_stock" /\ ~CanCreate(job.entity, Current(q))
    /\ Go(q, Counted(q, FALSE))
    /\ UNCHANGED <<job, saved, catalog, made, edits, crashed>>

\* The tables after row r of kind e was created.
Added(e, row) ==
    LET keyed == [live EXCEPT ![TableOf(e)][row.key] = @ + 1]
    IN  IF e = "products" /\ row.code # Empty
        THEN [keyed EXCEPT !["barcode"][row.code] = @ + 1]
        ELSE keyed

CreateRow(q) ==
    /\ At(q, "row") /\ More(q)
    /\ req[q].next \in req[q].accepted
    /\ job.entity # "opening_stock"
    /\ CanCreate(job.entity, Current(q))
    /\ live' = Added(job.entity, Current(q))
    /\ made' = [made EXCEPT ![req[q].next] = @ + 1]
    /\ Seen(q, Counted(q, TRUE))
    /\ UNCHANGED <<job, saved, gone, stock, edits, crashed>>

\* setOpeningBalance finds the row of stock empty and moves it a statement later.
FindEmpty(q) ==
    /\ At(q, "row") /\ More(q)
    /\ req[q].next \in req[q].accepted
    /\ job.entity = "opening_stock"
    /\ live["product"][Current(q).key] > 0
    /\ stock[Current(q).key] = 0
    /\ Proceed(q, "move")
    /\ UNCHANGED <<job, saved, catalog, made, edits, crashed>>

MoveOpening(q) ==
    /\ At(q, "move")
    /\ stock' = [stock EXCEPT ![Current(q).key] = @ + Current(q).qty]
    /\ made' = [made EXCEPT ![req[q].next] = @ + 1]
    /\ Seen(q, Counted(q, TRUE))
    /\ UNCHANGED <<job, saved, live, gone, edits, crashed>>

FinishImport(q) ==
    /\ At(q, "row") /\ ~More(q)
    /\ job' = [job EXCEPT !.status = "completed", !.imported = req[q].done,
                          !.errors = req[q].bad,
                          !.valid = Cardinality(req[q].accepted),
                          !.alone = req[q].alone]
    /\ Go(q, Idle)
    /\ UNCHANGED <<saved, catalog, made, edits, crashed>>

\* The process dies between two steps of a request.
Crash(q) ==
    /\ ~At(q, "idle")
    /\ ~crashed
    /\ crashed' = TRUE
    /\ Go(q, Idle)
    /\ UNCHANGED <<job, saved, catalog, made, edits>>

-----------------------------------------------------------------------------
\* The tables an import of kind e reads or writes: edits of others are not tried.
Touched(e) ==
    IF e = "none" THEN {}
    ELSE {TableOf(e)} \cup (CASE e = "products" -> {"category", "barcode"}
                              [] e = "barcodes" -> {"product"}
                              [] OTHER -> {})

\* Other users work on the catalog.
Edit(t) ==
    /\ edits < MaxEdits
    /\ t \in Touched(job.entity)
    /\ edits' = edits + 1
    /\ UNCHANGED <<job, saved, made, crashed>>

\* createUnit, createCategory, create of products and parties: by the key alone.
\* (Categories may share a name; others do not try that.)
CreateEntry(t, n) ==
    /\ Edit(t)
    /\ Free(t, n)
    /\ live' = [live EXCEPT ![t][n] = @ + 1]
    /\ req' = Disturbed
    /\ UNCHANGED <<gone, stock>>

\* A barcode is deleted, everything else is marked as deleted.
DeleteEntry(t, n) ==
    /\ Edit(t)
    /\ live[t][n] > 0
    /\ live' = [live EXCEPT ![t][n] = @ - 1]
    /\ gone' = [gone EXCEPT ![t][n] = IF t = "barcode" THEN @ ELSE @ + 1]
    /\ req' = Disturbed
    /\ UNCHANGED stock

\* The rows of a request after n was renamed to m: what it looked up it holds by id.
Following(t, n, m, r) ==
    IF r.step \notin {"row", "move"} THEN r.rows
    ELSE [i \in DOMAIN r.rows |->
             [r.rows[i] EXCEPT
                !.ref = IF @ = n /\ t = RefTable(job.entity) THEN m ELSE @,
                !.key = IF @ = n /\ job.entity = "opening_stock" THEN m ELSE @]]

\* An update that changes the key: the unique index refuses a name in use.
RenameEntry(t, n, m) ==
    /\ Edit(t)
    /\ n # m
    /\ live[t][n] > 0
    /\ Free(t, m)
    /\ live' = [live EXCEPT ![t][n] = @ - 1, ![t][m] = @ + 1]
    /\ stock' = IF t # "product" THEN stock ELSE [stock EXCEPT ![n] = 0, ![m] = stock[n]]
    /\ req' = [q \in Caller |->
                  [req[q] EXCEPT !.alone = FALSE, !.rows = Following(t, n, m, req[q])]]
    /\ UNCHANGED gone

-----------------------------------------------------------------------------
\* What a request that was started goes on to do.
Continue(q) ==
    \/ SaveFile(q) \/ Analyze(q) \/ Parse(q)
    \/ SetMapping(q) \/ Cancel(q)
    \/ MarkValidating(q) \/ CheckRows(q) \/ StoreValidation(q)
    \/ MarkImporting(q) \/ SkipRow(q) \/ CreateRow(q) \/ FindEmpty(q)
    \/ MoveOpening(q) \/ FinishImport(q)

createUnit(n) == CreateEntry("unit", n)
createCategory(n) == CreateEntry("category", n)
createProduct(n) == CreateEntry("product", n)
createParty(n) == CreateEntry("party", n)
addBarcode(n) == (\E p \in Name : live["product"][p] > 0) /\ CreateEntry("barcode", n)

updateUnit(n, m) == RenameEntry("unit", n, m)
updateCategory(n, m) == RenameEntry("category", n, m)
updateProduct(n, m) == RenameEntry("product", n, m)
updateParty(n, m) == RenameEntry("party", n, m)

deleteUnit(n) == DeleteEntry("unit", n)
deleteCategory(n) == DeleteEntry("category", n)
softDeleteProduct(n) == DeleteEntry("product", n)
softDeleteParty(n) == DeleteEntry("party", n)
removeBarcode(n) == DeleteEntry("barcode", n)

ImportNext ==
    \/ \E q \in Caller :
          \/ Create(q) \/ BeginMapping(q) \/ BeginCancel(q)
          \/ BeginValidation(q) \/ BeginConfirm(q)
          \/ Continue(q)
          \/ Crash(q)
    \/ \E n \in Name :
          \/ createUnit(n) \/ createCategory(n) \/ createProduct(n)
          \/ createParty(n) \/ addBarcode(n)
          \/ deleteUnit(n) \/ deleteCategory(n) \/ softDeleteProduct(n)
          \/ softDeleteParty(n) \/ removeBarcode(n)
    \/ \E n, m \in Name :
          \/ updateUnit(n, m) \/ updateCategory(n, m)
          \/ updateProduct(n, m) \/ updateParty(n, m)

\* A request that runs is run to its end: its steps follow one another in the
\* same process, unless that dies (Crash).
Fairness == \A q \in Caller : WF_ivars(Continue(q))

ImportSpec == ImportInit /\ [][ImportNext]_ivars /\ Fairness

-----------------------------------------------------------------------------
ImportTypeOK ==
    /\ job \in Job
    /\ saved \in BOOLEAN
    /\ live \in [Table -> [Name \cup {Empty} -> Nat]]
    /\ gone \in [Table -> [Name \cup {Empty} -> Nat]]
    /\ stock \in [Name -> Nat]
    /\ edits \in 0..MaxEdits
    /\ made \in [1..Total -> Nat]
    /\ req \in [Caller -> Call]
    /\ crashed \in BOOLEAN

\* Every row of a completed import is reported, as imported or as an error,
\* however many confirmations and other users worked at the same time.
EveryRowReported == job.status = "completed" => job.imported + job.errors = Total

\* No import reports a row it did not create.
ReportedWereMade ==
    job.imported <= Cardinality({i \in DOMAIN made : made[i] > 0})

\* A key that the database keeps unique is created once, even when the job is
\* confirmed twice and other users create and rename at the same time.
KeyedRowsOnce ==
    job.entity \in {"products", "barcodes", "units"} =>
        \A n \in Name :
            LET t == TableOf(job.entity) IN live[t][n] + gone[t][n] <= 1

\* An import that nobody disturbed since it checked its rows creates every row it
\* accepted: one row that fails does not take others with it.  (Names of deleted
\* units, and stock that is already there, are only found while importing.)
UndisturbedImportIsWhole ==
    job.status = "completed" /\ job.alone /\ job.entity \notin {"units", "opening_stock"} =>
        job.imported = job.valid

\* Whatever is validated or imported can be read again from the storage.
FileSavedBeforeUse ==
    job.status \in {"ready", "validating", "validated", "importing", "completed"} => saved

\* What the row of the job says is so: its file can be read, its counters are true.
JobTellsTheTruth == ImportTypeOK /\ EveryRowReported /\ ReportedWereMade /\ FileSavedBeforeUse

-----------------------------------------------------------------------------
\* Confirming twice does not import the rows twice (docs/IMPORT_EXCEL.md, 7).
RowsImportedOnce == \A i \in DOMAIN made : made[i] <= 1

\* A row that was found valid is imported when nobody disturbs the import.
ValidRowsAreImported ==
    job.status = "completed" /\ job.alone => job.imported = job.valid

\* completed and cancelled are final (docs/IMPORT_EXCEL.md, 2).
FinalStatus ==
    [][job.status \in {"completed", "cancelled"} => job'.status = job.status]_ivars

\* A job that is importing gets out of it, also when the process died.
ImportAlwaysEnds == job.status = "importing" ~> job.status # "importing"
=============================================================================
