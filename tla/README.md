# Verification of the Qeedha business core

TLA+ models of the commercial core of Qeedha: the services of the backend that keep
sales, purchases, stock, books, imports and subscriptions (`src/backend/src/modules`),
and the part of the web client that holds the session, sells and shows lists, forms and
details (`src/frontend/src`). TLC checks them on small instances; TLAPS proves, for every
value of the constants, the properties of sales, purchases, the integration, the books and
their reports, expenses, subscriptions and pages.

All modules are translated from the code. Where a document and the code disagree the
model follows the code, and the statement of the document is kept in the module as a
property that TLC refutes (section 5).

## 1. Inventory of the system

Every operation is an HTTP request handled by a NestJS service. Requests run
concurrently (one process or several) and meet only in PostgreSQL: most are one READ
COMMITTED transaction opened by `withTenant` (`prisma.service.ts`). Nothing is kept in
memory between requests. A request that throws rolls back everything its transaction
did; a client that got no answer may send it again, with the same
`clientReferenceId` where the operation has one. The client is a single-page
application: tabs of one browser share `localStorage` and nothing else, and the code of
a tab runs between two awaits without a break.

| Component | State it keeps | Operations | Talks to | What is hard | What makes it correct |
|---|---|---|---|---|---|
| Sales (`sales/`) | sales, sale_items, payments, sale_returns, invoices, invoice_sequences | createSale, recordPayment, createReturn, cancelSale | inventory, journal, subscription, e-invoicing | checks made before a lock and used after it; two requests on one sale; duplicates; roll-back after stock or a number was drawn | paid ≤ total, returned ≤ sold, books agree with the rows, stock and numbers survive roll-backs, a key takes effect once |
| Journal (`accounting/journal.service.ts`) | journal_entries, journal_lines | postJournalEntry, reverseJournalEntry | called by every operation in its transaction | a reversal reads, checks, then marks by id | entries balance, an entry is undone once, a reversal is not undone |
| Opening balance (`opening-balance.service.ts`) | the journal entry of reference OpeningBalance, a partial unique index | create, reverse | journal | three unlocked reads before the write | one opening balance in effect |
| Fiscal periods (`fiscal-periods.service.ts`) | fiscal_periods | create, close, reopen, assertNotLocked | read by the journal | the check is not ordered with the close | no entry on a locked day; periods disjoint |
| Expenses (`expenses/`) | expenses | createExpense, updateExpense, deleteExpense | journal | which posted entry is found; stale status and fields | a row has its entry, a deletion is final |
| Inventory (`inventory/inventory.service.ts`) | stock_levels, stock_movements | recordMovement, recordMovementWithValueDelta, setOpeningBalance, adjustStock, transferStock | called by sales, purchases, stock counts, imports | several row locks in one transaction, deadlock, a moving average under concurrency | each request is atomic, stock ≥ 0, what is posted follows the change in worth up to the rounding, every request is answered |
| Stock count (`stock-count.service.ts`) | stock_counts and their lines | create, updateLines, complete, cancel | inventory, journal | expected quantities that are stale at completion; two completions; one line of several that fails | no movement is lost, the inventory account is worth what is on the shelves, up to the rounding |
| Purchases (`purchases/`) | purchases, items, payments, returns, number sequence | create, receive, pay, return, cancel | inventory, journal | a cancellation that races a receipt; rounding of partial returns; duplicates | books agree with the rows, payments stay within the total, parts add up to the whole, up to the rounding |
| Subscription (`subscriptions/`) | subscriptions, plans | loadContext (lazy expiry), assertWithinLimit, and the administrators' changes | guard of every request | expiry noticed by several requests; limits shared under one lock; a commission after the commit | a limit is never exceeded, a trial is given once, an activation pays |
| Qeedha integration (`qeedha-integration/`) | transactions, connection, customer mappings | link, revoke, resolveCustomer, submitTransaction, cancel | sales | a transaction submitted twice; a step that fails after the payment | success means a payment in the books, an answer is final |
| Reports and sub-ledgers (`accounting-reports`, `subledger`, `bank-reconciliation`) | bank_reconciliations | queries, one insert | journal | several queries with postings in between; which entries they count | reports agree with each other and with the books |
| Authentication (`auth/`) | refresh tokens | login, selectTenant, switchTenant, refresh, logout | client | renewal is three statements; two uses of one token | the browser keeps a token that is current |
| Imports (`imports/`) | import_jobs, a stored file | createJob, setMapping, runValidation, confirmImport, cancel | catalog, inventory, storage | no transaction around the whole; a second request, other users, a crash | every row is reported, reported rows were made, unique keys are made once |
| Web client (`frontend/src`) | tokens in localStorage; lists, forms, details, errors of a page | request with renewal and second attempt, the point of sale, handlers of the pages | all of the above | lost answers, handlers that cross, stale closures, another tab | what the page shows is so, a form makes one document while nothing is lost, buttons match the work under way |
| Roles, catalog, affiliates and platform administration | rows of their own | create, update, delete | subscription, imports | only where a limit, an import or a commission meets them | see subscription and imports |
| Tenancy, e-invoicing, e-mail, storage, audit, careers, website, health | rows of their own | create, read, update, delete | – | little beyond single rows | – |

`PROJECT.json` lists every component with its status, and the hazards at the line
where each bites.

## 2. Modules

| Module | Models | Built from |
|---|---|---|
| `Journal` | an entry, what posting and reversing do to a journal, what the service promises of one | no variables |
| `Sales` | the life of a sale | extends `Journal` |
| `Settlement` | what payments promise of a document: once per key, within what is due, nothing lost | no other module |
| `Purchases` | the life of a purchase | extends `Journal`, `Valuation`; implements `Settlement` |
| `Qeedha` | the integration, composed with every request of `Sales` | extends `Sales`; implements `Settlement` |
| `Accounting` | opening balance and fiscal periods | extends `Journal` |
| `Reports` | reports, sub-ledgers, bank reconciliation, composed with the opening balance and the periods and with what other services post | extends `Accounting` |
| `Expenses` | the life of an expense | extends `Journal` |
| `Valuation` | the guarded UPDATE of a stock row and its weighted average | no variables |
| `AtomicStock` | what the inventory promises: each request at one instant | extends `Valuation` |
| `StockLevels` | the rows of stock and the requests for them, which the next two share | extends `Valuation` |
| `Stock` | the requests with row locks, uncommitted rows, deadlocks and roll-backs | extends `StockLevels`; implements `AtomicStock` |
| `StockCount` | the physical count, over rows that move as `AtomicStock` says | extends `StockLevels` |
| `Imports` | a job from the upload to its last row, the catalog it writes to, and the users who edit that | – |
| `Subscription` | guard, limits, administrators, commission | – |
| `Sessions` | tokens, the renewal in the client, the tabs, the point of sale | – |
| `Pages` | lists, forms and details of invoices, purchases, expenses, four tabs of accounting, the team, and three tabs of the administration (companies, plans, staff) | – |
| `MC...` | symmetry and constant values for TLC | the module named after it (`MCAccounting`: `Reports`) |
| `JournalProofs` | lemmas: posting and reversing, counting entries, sums over finite sets | extends `Journal` |
| `SalesProofs` (also of `Qeedha`), `PurchasesProofs`, `AccountingProofs` (also of `Reports`), `ExpensesProofs` (also of `Imports`), `StockProofs` (also of `StockCount`), `SubscriptionProofs`, `PagesProofs` (also of `Sessions`) | theorems | extend the modules they are about; the first five also `JournalProofs` |

### How a request is cut into steps

Under READ COMMITTED a plain read sees whatever is committed when it runs, takes no
lock, and says nothing about a later moment. A write or a `FOR UPDATE` read locks its
row until the transaction ends. So:

* an unlocked read whose result is used later is a step of its own (`Begin...` in `Sales`,
  `Purchases`, `Qeedha`, `StockCount` and `Expenses`; `FindNoActive`, `CheckPeriod`,
  `CheckOriginal`, `FindNoOverlap` in `Accounting`; `FindEntry`, `CheckEntry` in
  `Expenses`), and any other request may commit after it;
* what follows the first lock that conflicting requests need is one step, the commit:
  whoever could see or change the rows it uses waits for the lock. That several rows can be
  locked one after the other without losing this is not assumed for the stock: `Stock`
  takes the locks one at a time and is shown to implement `AtomicStock`, where a request
  is one step;
* what is not one transaction is cut at every commit: each status of an import and each
  of its rows, the three statements of a token renewal, the guard of a request and the
  request, an activation and its commission, a posted report and its second query;
* in the client a step is what a tab does between two awaits, and a message under way
  may be lost before it is served (`Lose` of an unserved request) or after it. A request that
  the page has given up may still arrive, at any later moment (`Stray`).

For a sale the locks are: the subscription row for createSale (`assertWithinLimit` takes
it `FOR UPDATE` before it counts), the sale row for recordPayment, the sale items for
createReturn, whose insert into sale_returns also takes a key-share lock on the sale row
and so excludes the `FOR UPDATE` of a payment. cancelSale takes none before it restores
the stock; its check on the status is part of `BeginCancel`. For a purchase: the guarded
UPDATE of receivePurchase, the purchase row for a payment, its items for a return, none
for a cancellation.

`submitTransaction` of the integration does not fit this scheme: it catches what
`recordPaymentCore` throws, stores a failed transaction and commits. `Qeedha` has a
commit of its own for it (`CommitUnposted`). What `Sales` shows alone, and its theorems
prove, is about requests that roll back when they throw.

### Correspondence

* **Sales.** `sale` is the sale row with its one line and its invoice number,
  `payments` and `returns` are the rows that carry a key (a payment made with the sale
  carries none), `paid`, `returned`, `moved` and `ledger` are the sums the code computes by
  aggregate queries. `Rejected` is what the code checks under the lock before it inserts,
  `Recorded` the unique index on the key, `Failed` what can throw after the insert, in that
  order; `Refuse`, `Replay` and `Lose` are the three ways a request changes nothing.
  `closed` is the period lock, which `Accounting` models with its check split from the
  commit.
* **Purchases.** The same pattern; a line has a quantity, a cost, a discount and a VAT
  rate, and the parts of a return are rounded (`ReturnNet`, `ReturnTax`) as the code rounds
  them. `Returnable` is what is left of the line, rounded to hundredths as
  purchase-return.service.ts:123 does: where three decimals arrived, a little more
  than that may go back. `IssueElsewhere` is a sale of the goods. The weighted average of the
  receipt is in `Stock`.
* **Qeedha.** `connection` and `mapped` are single rows; `transaction` is the stored
  outcome of a key; a submission reads it before the lock and its unique index decides
  the rest. A secret is the number of its generation.
* **Journal.** An account's net debit stands for the lines of an entry. Cash and bank are
  one account, and so are, in sales, revenue, VAT and sales returns, which every entry
  moves together: VAT arithmetic is in `Purchases` only.
* **Accounting.** One program counter (`at`) per request; `WriteOpening` carries the
  partial unique index of the migration, `Abort` every refusal.
* **Reports.** `journal` holds the opening balance, `other` the entries of all other
  services, dated yesterday or today. A report of one query is an operator of the state;
  one of two queries (balance sheet, ledger, statement, reconciliation) is a reader that keeps
  the first result (`report`) while transactions commit. `report.moved` says whether
  any did.
* **Expenses.** `amount` stands for the three fields an entry is made from; `seen` is what
  the transaction read and writes back for fields the client left out. createExpense and
  updateExpense write the row before they look for the entry to reverse, deleteExpense looks
  first: its two reads are steps.
* **Stock.** A request is a list of movements, each a row, a signed quantity and a unit cost or
  none. `work[t]` holds the rows transaction t has updated and, by that, locked. `Posted` (in
  `StockLevels`) is what each caller adds to its journal entry, in cents:
  `recordMovementWithValueDelta` rounds the change in worth, `recordIssue` and a receipt round
  quantity times cost, and an amount below half a cent, which is no entry, is what rounds to
  nothing.
* **StockCount.** `applied` and `others` are the movements by their cause, `movements` is how many
  there were; `inventory` is the balance of the inventory account, in cents. Each line of a
  completion is rounded (`ValueDelta`) before gains and losses are added up.
* **Imports.** A file is a sequence of rows for every mapping; a cell is abstracted to the key or
  the reference that is held against the database. `live` and `gone` count the rows of each
  table by key, deleted ones apart, for a deleted unit still holds its name. `made` and
  `alone` are history variables: how often a row was created, and that nobody disturbed the job.
* **Subscription.** `sub.over` is that `trialEndsAt` has passed. `lock` is the `FOR UPDATE` on
  the row, held from the count to the insert; the steps of a handler are `Continue`.
  createUser counts people under the lock, makes the membership and, where a role is asked for,
  goes on through the steps of assignRole (`ReadRole`, `LockRole`, `CheckRole`, `InsertRole`), each
  an await after which others may have committed; member and role appear with its commit
  (`Joined`).
  `due`, `lost` and `raced` are history variables.
* **Sessions.** `storage` names the pair of tokens in localStorage; a request carries the
  tokens it was made with, its step, and whether the code that waits for it (`alive`) and its
  page (`page`) still run. `token`, `fresh` and `sales` are the server.
* **Pages.** One record per handler that waits (`calls`), with what it captured
  before its await; `Continue` is the code after the answer, catch and finally included. The
  server is what a page sees of it. The pages differ in tables: which actions a row has, which
  errors are caught, which server compares contents (`Unique`), and where an index of the database
  stands behind the comparison (`Backed`). The server's search (`ServeSearch`) and its insert
  (`ServeInsert`) are two steps, and the insert is refused where the index sees what was committed
  in between. Periods have no index; neither has a role that holds in the whole company, whose
  missing branch the index takes for different ones, and the roles of the team are modelled as
  such. `Lose` leaves a request that was not served to the server where it can, as a stray request
  that is searched for and inserted at any later moment, its answer going nowhere. `unsure` is
  a history variable: the forms of which a sending, or its answer, was lost. A button of a row, a
  payment and a return are served in one step each: their handlers hold the row, or, where they do
  not, section 5 has the race in the module of the service. The detail of an invoice shows the
  payments of the row the list had when it was clicked, with the returns as they are (`OpenCall`).

## 3. Runs

| Run | Question | Instance | States |
|---|---|---|---|
| `SalesRace` | Do rows and books of one sale stay right when three requests race, fail, are repeated or are lost? | 1 sale, 3 transactions, 2 keys, quantities and amounts 1 and 2, stock 2, limit 1 | 600 thousand |
| `Qeedha` | Do the till and the integration settle two sales together, which compete for stock and numbers? | 2 sales, 1 transaction, 2 submissions, 1 key, 1 customer | 787 thousand |
| `Purchases` | The same for purchases, with rounded parts | 2 purchases of one line of 15 thousandths, 2 transactions, 2 keys | 557 thousand |
| `Accounting` | One opening balance, a journal that stands, and reports that agree with each other and the books | 3 transactions, 3 entries, 1 period, 2 days, 2 branches, 1 party | 298 thousand |
| `ExpenseRace` | Is an expense created once, with its entry, and deleted for good? | 1 expense, 3 transactions, 5 entries | 19 thousand |
| `Stock` | Do locks, guards and roll-backs make each request atomic, does what it posts follow the change it made, is it answered? | 2 rows, 2 transactions, at most 2 units a row; transfers and sales lock both ways | 44 thousand |
| `StockCount` | Do counts and other requests keep each other's movements, and the account its worth? | 1 count of 2 rows, 2 transactions, 4 movements | 587 thousand |
| `Imports` | Does an import tell the truth while a second request, another user and a crash interfere? | a file of each of six kinds, 2 requests, 1 edit, 1 crash | 347 thousand |
| `Subscription` | Do limits hold, is a trial given once, is an activation paid? | 2 people, 1 branch beyond the first, 2 plans, 2 requests, 4 events | 827 thousand |
| `Sessions` | One session in two tabs, one sale per basket, in its own company | 2 tabs, 2 companies, 2 baskets, 2 requests, 3 pairs of tokens, 1 loss | 1.5 million |
| `Pages` | Does each page show what the server did? | 11 pages, 2 documents, 2 handlers, 1 stray request, 1 loss | 3.3 million |
| `ReportsShowLedger` | a statement of a comment the code does not keep | as `Accounting` | stops at the counterexample |

The properties are conjunctions of named parts, one per question of the run:

* `WithinSale` (`NeverOverpaid`, `NeverOverReturned`): two requests that each fit. The lock
  on the sale (on its items) prevents it; without the check under the lock TLC breaks it.
* `BooksMatchSale`, `BooksMatchPurchase`: after any order of payments and returns, the
  accounts of a document that is not cancelled equal what its rows say.
* `NeverRefundedMoreThanPaid`: a return pays out only what exceeds the receivable; it holds
  even though the receivable itself may be used twice (section 5).
* `OneEntryPerKey`, and `OnceEach` within `RollBacksLeaveNothing`: a repeated key never posts
  twice, a purchase is received once.
* `RollBacksLeaveNothing` (types, `StockIsSumOfMovements`, `InvoicesGapless` or
  `NumbersGapless`): a request that fails after it took stock and a number leaves neither.
* `ReturnsAddUp` (`NeverOverReturned`, `ReturnDriftBounded`): what goes back exceeds what arrived
  by half of 0.01 at most, which is the rounding of the check (that it never exceeds it is
  refuted, section 5), and the parts of a line, each rounded, are off from the whole by half a
  cent per return at most.
* `ImplementsSettlement`: the refinement of `Settlement`, for purchases and for the sales of the
  till and the integration together.
* `SuccessIsPayment`, `AnswerIsFinal`: what the caller of the integration relies on.
* `OneActiveOpening`: the service's own check cannot prevent two; the partial unique index
  does, and reversing entries must not count as active.
* `ReversedOnce`, `EntriesStand` (`EntriesBalance`, `OnlyOriginalsReversed`): what an
  auditor expects of the journal. `ReversedOnce` holds for sales, not for opening balances.
* `ReportsAgree` (`SheetBalances`, `LedgerCloses`, `StatementAgrees`,
  `ReconciliationHolds`), `SubledgersTieOut`: two queries of a report, two reports, or a
  report and what was stored from it, agree unless the books moved in between.
* `RowsMatchEntries`, `NothingRevived`: creation under duplicate keys, no row without its
  entry, and an update that cannot revive a deleted expense.
* `ImplementsAtomicStock`: the refinement, with the identity on the committed rows.
  `WorthFollowsGoods` (`PostedFollowsWorth`, `TransferKeepsWorth`): what a request posts is the
  change it makes in the worth of the goods, up to half a cent for each of its movements, whatever
  else moved the rows since it began, and a transfer creates no worth beyond the rounding of one
  average. `EveryRequestEnds`: no
  request waits for ever.
* `MovementsAreCounted`, `InventoryAccountFollowsWorth`: a completion and a sale lose none of
  each other's movements; the account agrees with the worth up to half a cent for each movement
  there was, gains at the cost price in an empty row included.
* `JobTellsTheTruth`, `KeyedRowsOnce`, `UndisturbedImportIsWhole`: counters and stored file,
  the unique keys under two confirmations, and one failing row that takes no other with it.
* `LimitsHold` (`CreationsWithinLimit`, `CashiersWithinLimit`): no step of a request, whichever step
  it is, adds a person, a branch or a cashier beyond the limit the request was checked against,
  a cashier added with a new user included. It is not the limit in force: updatePlan locks the
  plan only, so a limit that is lowered between the check and the insert binds later requests.
* `TrialGivenOnce`, `CommissionIsDue`, `CommissionPaid`.
* `SoldOnceWhereShown`, `TillTellsTheTruth`, `StoredTokenIsCurrent`: lost answers, renewals
  that cross in two tabs, another company in another tab.
* `PageTellsTheTruth`, `BusyIsUnderWay`: errors, details and buttons when handlers cross.
  `RecordedOnce`: on every page a form makes a second document only after one of its sendings, or
  the answer, was lost; and where an index refuses the content, two never stand, also when the
  lost request arrives between the search and the insert of the next.

Every property has a mutant: a plausible bug in one definition (a check, an index, a guard, a
lock or a mark that is missing) that TLC finds to violate it. `TypeOK` is broken by mutants
where it contains a rule the code must keep (an entry is posted or reversed, stock ≥ 0).

### Bounds, and why they are enough

Three transactions let two requests race while a third changes what they read; every race that the
code guards against or misses is between two, and where the third only repeats one of them
(`Purchases`, `Stock`, `StockCount`, `Imports`) there are two. `Qeedha` has one transaction of the
till and two submissions. Two keys give a duplicate and a second payment or return. Prices and
quantities of 1 and 2 make a payment or a return partial, exact or too large. In `Purchases` a
quantity is a number of thousandths, `Hundredth = 10` of them the step to which what is left is
rounded: of a line of 15 parts of 5 and 10 go back, so what is left ends in half a step and is
rounded up, and net and tax divide with a rest. `Cent` is what a cent is in digits of quantity
times cost: with quantities of three decimals, 1000 for the costs of purchases, which have two,
and 100000 for the averages of stock, which have four; for TLC it is 10 in `Purchases` and 2 in
`Stock` and `StockCount`, which is enough for amounts that are no whole cents. The proofs hold for
any values. Quantities and costs with more decimals, which the dto's admit and the client does not
send, are not modelled. The code computes with floating point numbers, which may tip a half either
way; the bounds of the properties allow both. The number of sales needs no bound, since a sale is
named by its key; payments and returns are bounded by their keys, and the journal of `Sales` with
them. `MaxEntries`, `MaxPeriods`, `MaxOther`, `MaxRows`, `MaxOpen`, `MaxQty`, `MaxMovements`,
`MaxIssued`, `MaxSecrets`, `MaxEdits`, `MaxMade`, `MaxEvents`, `MaxAdmin`, `MaxTokens`, `MaxKeys`,
`MaxLosses`, `MaxLost` and `MaxForms` are guards that bound the rest: five entries of an expense
hold a creation, two corrections or a correction and a deletion; with two units a row, averages
that do not divide evenly occur; `MaxOpen` lets one request of `Accounting` be between two of its
steps when another service posts or a report reads; one loss and two forms give a second attempt
whose first took effect, or takes effect later; one place for a stray request is enough for one
loss. On the pages of purchases, companies and staff one form is filled in.

`CHECK_DEADLOCK FALSE` is set where the system may stop: every expense deleted, the job at a
final status, the subscription restricted for good, the count closed, and, for `Sessions` and
`Pages`, the bounded number of things a user does.

### Fairness

* `Stock`: a transaction with nothing to wait for commits (WF), the deadlock detector of
  PostgreSQL breaks a ring (WF on `Victim`), and a waiting transaction gets its lock or its
  refusal (SF on `Move` and `Refuse`): lock queues are first come, first served, so a lock
  that is freed again and again is granted. Arrival of requests, and losses, are not fair.
  Without `Victim` the property fails, which shows that opposite lock orders do occur.
* `Subscription`: an activation that committed goes on to its commission in the same handler
  (WF on `Commission`), which also may be lost.
* `Imports`: a request that runs is run on (WF on `Continue`), unless its process dies. It
  serves the refutation of `ImportAlwaysEnds` only.
* `Sessions` and `Pages` have no liveness: an answer may be lost for good and a browser need
  not report it. Their invariants `SubmittingIsUnderWay` and `BusyIsUnderWay` are what
  is left of it: whoever shows "busy" waits for something that is under way.

## 4. Proofs

`tlapm` proves, for any number of sales, keys, transactions, any prices, stock and limit that
satisfy `SalesAssumption`:

* `TypeCorrect`: the type invariant with stock ≥ 0. `TypeOK` is not inductive: a commit uses
  the fields of the open request. `Inv1` adds that an open request names a sale, which exists
  unless it is being created, and a key where it has one.
* `PaidWithinTotal`, `ReturnedWithinSold` and with them `SaleIsTheLimit`, `BooksFollowRows`,
  `RefundsWithinPayments`: from `SalesInv`, one invariant per sale. `Fresh` (a sale that does
  not exist has no sums) makes createSale start from zero; `Books` is the agreement of rows and
  ledger; `RefundBound` ties the receivable to the outstanding balance, which is what makes
  "cash never negative" inductive even though a second return may credit the receivable again.
  The multiplications by the price are isolated in lemmas (`SaleLinesValue`,
  `ReturnLinesValue`), as the solver treats them badly inside a step.
* `CancellationsUndoOnce`, `JournalOnlyGrows`: from `JournalProofs`, where posting and
  reversing keep any journal sound: `PostEntrySound`, `ReverseEntrySound`. `PointsBack` (a
  reversal names an earlier entry) is the strengthening.

and, for the accounting module, under `AccountingAssumption`:

* `AccTypeCorrect`, `OpeningIsUnique`, `JournalBalances` and `ReversalsStand` with `PostedStands`,
  `OpeningsOnlyGrow`: from `AccInv`. It adds `RequestsOK`: a request that holds an entry number
  holds one that exists and is an original. That is what survives the gap between `findActive`
  and the write, for a concurrent reversal may mark the entry but never removes it or turns
  it into a reversal.
* `SubledgersAlwaysTieOut`, `ReportsAlwaysAgree`, `ReportsTypeCorrect`, `StandsAmongReports`: for
  any parties, branches, scopes and entries that satisfy `ReportsAssumption`. Beyond types it
  assumes of what the other services post what their code shows: the entries of yesterday
  balance, only those of sales move the receivables and only those of purchases the payables
  (`KeepsControl`). `BooksOK` carries that to every state, and in every such state a sheet
  balances, a ledger closes, a statement ends with the balance of its party and the parties
  add up to the control account (`SheetBooks`, `LedgerBooks`, `StatementBooks`,
  `TieOutBooks`). `RepInv` says that a reader keeps what it read until the books move
  (`SheetHeld`, `LedgerHeld`, `StatementHeld`), and that the book balance of yesterday stays while
  no entry of yesterday is reversed (`BookHeld`): a reversed entry is never posted again, so
  "none is reversed" speaks of the moment of the reading too.

and, for the Qeedha integration composed with the requests of `Sales`, from `SalesAssumption`
alone, for any number of submissions:

* `SettlementImplemented`: the refinement of `Settlement`. Initial states map to initial
  states; createSale maps to `Issue`, a payment at the till and one of the integration, with
  or without its entry, to `Settle`, and every other step is invisible. It needs `QInv`: a
  submission keeps what it read of the sale and of its key (`SubsOK`), requests are for
  positive quantities (`Positive`), and a sale that is not recorded has no total and no
  payments (`Unissued`), so that issuing starts from zero. The lemmas of `SalesProofs` about
  single steps carry over; its books of a sale do not, since a submission on a locked day
  commits a payment that has no entry.
* `AnswersStay`: the outcome stored for a key only goes from failed to cancelled.
* `SuccessBacked`: success means a payment of the key, of its sale, in the books. The
  strengthening is `Outcome`: a payment without its entry always belongs to a transaction
  that failed, so a later submission that finds a payment of its key finds one with an entry,
  and an entry that is there stays (`BackedStays`).
* `SalesProofs!RollBacksWriteNothing`: types, stock and invoice numbers, from `GoodsInv`. A gap
  is ruled out by counting: the number drawn next is one more than the sales that exist, which
  makes it the number that is missing (`NumbersOK`).

and, for keys, purchases, expenses, subscriptions and pages, for any number of rows, keys and
requests:

* `KeysTakeEffectOnce`: a sale has as many entries of a kind as keys were recorded for it.
  `KeyInv` keeps the two counts equal per sale: a commit adds one entry and one row of its kind
  or none of either. It adds that a sale that is not recorded has no entry, so that
  createSale posts the only one. The counts are cardinalities of sets of positions, which the
  library's theorems on finite sets handle (`PostAdds`, `RecordAdds`).
* `PurchasesProofs!SettlementImplemented` and `ReturnedWithinReceived`: from `PInv`. What a
  request read survives until it commits because a purchase that was received may be
  cancelled meanwhile but is never ordered again; and a purchase that is not received has
  neither payments nor returns nor goods, although its cancellation is decided on an unlocked
  read. `RowsOK` keeps the discount within the line, which makes every total a natural
  number.
* `PurchasesProofs!RollBacksWriteNothing`, `BooksFollowPurchase`, `ReturnsDriftWithinRounding`: from
  `BInv`. Entries and keyed rows are counted against each other (`CountsOK`), and a purchase
  that waits for its goods has no receipt, so it is received once. `BooksOK` says what each
  account holds at every status, with the parts that went back as sums: a return adds one part to
  its own purchase (`BackGrows`), each part is off by half a unit at most (`RoundBound`), and the
  drift is bounded by the number of returns. `StockIsSumOfMovements` needs what one movement
  does to a sum (`SumMoves`).
* `RowsAndEntriesBelong`, `NothingTakenBack`: from `EInv`, which counts the originals and the
  reversals of every expense instead of following which entry reverses which: a change that
  reverses the wrong entry (section 5) still adds one of each, and a deletion only a reversal.
  The entry a deletion holds stays an entry of its expense.

* `CommissionDue`, `LimitsAlwaysHold`, `TrialsGivenOnce`: from `SubInv`. A request that counted
  holds the row of the subscription until it ends, so what it counted stands when it inserts
  (`RequestOK`), through the steps of assignRole too when createUser goes on to it; one that did
  not count a cashier relies on a role that only a revocation takes away. A role may be there
  twice where the unique index does not see it, so `RolesOK` bounds the rows of a role by those
  who were past the check at once.
* `PagesTellTheTruth`, `FormsRecordedOnce`, `ButtonsFollowHandlers`: from `PagesInv`, the life of a
  handler. It begins under a mark nobody else holds (`BeginMarks`), goes on as the request it was
  (`AdvanceMarks`) and takes its mark off when it ends (`FinishMarks`); `CallsOK` fixes what it asks
  the server for when it begins, and `RowsOK` that what a form made is there. `FormsOK` carries
  `RecordedOnce`. Of two handlers never both send one form (`NumbersOK`), and a stray request is of a
  form that is `unsure` (`SentOnceOK`). When a form that lost nothing has made its document, its
  handler has the answer or is past it, and the form is closed or waits for that answer, so it is
  not sent again. Hence an insert of such a form is the first (`FirstToInsert`); of one that is
  `unsure` the index decides on what is there at that moment. `NetworkKeeps` and `StrayKeeps` say that
  losing a request, or serving one that was given up, changes none of it.

and, for the inventory, under `ValuationAssumption` and `LevelsAssumption`, for any rows, lists of
movements and transactions:

* `StockIsAtomic`: the refinement of `AtomicStock`. A commit maps to `Request`, every other step
  is invisible. What has to be shown is that rows read and updated at different moments make one
  course. `Serial` says it before the commit: on *all* rows that agree with the committed ones
  where the transaction holds a lock, the first movements of its request fit and lead to what it
  sees. Quantified that way it survives the commits of others, for these change no row that is
  locked (`Exclusive`), and at its own commit it is instantiated with the rows of that moment.
  `AtomicStock!Run` is a recursive function; that every request has a course is shown by the
  least number of movements without one (`RunExists`), since induction is not at hand.
* `TypeCorrect`: quantities and averages are natural numbers also in rows that are not committed.
* `WorthAlwaysFollows`: `Serial` also keeps what a request will post equal to the change in worth
  its movements make, up to half a cent for each of them. A received average is off by half a
  digit for each unit (`RoundBound`, `ReceivedWorth`), which bounds a transfer.
* `CountsMoveWhatTheyCounted`, `AccountFollowsWorth`: from `CInv`, also under `StockCountAssumption`. A
  completion applies the lines it read, not those that are there when it commits; `CountingOK`
  says that a line it found counted is counted still, for nobody takes a number away, and that
  a count somebody works on is no longer new. `GainLessLoss` makes the two lines of the entry one
  sum of rounded differences, each off by half a cent at most, as many as `movements` grows by.

and, for imports, under `ImportAssumption` (the mappings of a file read the same number of rows, and
a complete row has a key unless it is a party), for any files, requests on the job, confirmations,
and edits by other users:

* `JobAlwaysTellsTheTruth`, `KeyedRowsStayUnique`, `UndisturbedAlwaysWhole`: from `ImportInv`. A
  request in the middle of the file has counted every row it passed and has at most as many
  imported as rows up to there were ever made (`ProgressOK`), whoever made them: two
  confirmations create the same rows, and each tells the truth about what it counted.
  `SavedOK` says who can be under way before the file is stored. `UndisturbedOK` is the argument
  for a whole import: what it imported is what it accepted so far, and each accepted row still
  ahead can be created now. A row it creates leaves room for the others (`RoomLeft`), for no
  two accepted rows share a key or a code. Where somebody else writes to the catalog the request is no
  longer `alone`, and only the first part remains (`OthersDisturbed`); its rows may have been
  renamed, but are as many and have a key if they had one (`FollowingIs`).

and, for sessions and the till, under `SessionAssumption` (there is a company, a first pair of tokens,
and `Nobody` is neither a tab, a company nor a basket), for any tabs, baskets, requests, and any
number of tokens, keys and lost messages:

* `TillAlwaysTellsTheTruth`, `BasketsSoldOnceWhereShown`, `StoredTokenStaysCurrent`: from
  `SessionInv`, which has four parts that need each other.
  Tokens are issued in order (`TokensOK`), so a new pair is one that nothing refers to; and the pair
  a request was given is its own until the browser stores it (`HolderOK`): no other request
  renews it and it is not replaced. That makes the stored token current through renewals
  that cross, since whoever replaces it holds the pair that comes after it.
  `Orders` are the sales that are recorded and those on their way. They, not the recorded ones,
  are what is unique: a basket that no page gave up was asked for under one key, in one company
  (`OrdersOK`), and a page shares neither key nor basket with another (`PageOK`). When
  the answer is lost the request goes, but its order may stay in the books, and the page
  keeps key and basket, so that the next attempt is the same order.
  `FormOK` is the shape of a busy form: exactly one sale is on its way for it, under the key it
  shows, and there is none while the warehouses are being loaded, which makes the company a
  page names fixed from its first attempt on. `MessageOK` says that what is on the way is
  complete and that an answered sale is recorded.

Sums over finite sets are recursive functions. The library's induction theorems do not help,
for they take an operator as a parameter; `JournalProofs` uses instead that a non-empty set of
finite sets has a least member (`LeastSet`, from the well-foundedness of the strict subset
order) and refutes a least counterexample. What it proves of `SumFunctionOnSet` that way (one
element more, one element changed, disjoint parts, the parts a function makes) is all that the
proofs use of sums.

Only model-checked: liveness (`EveryRequestEnds`, `CommissionPaid`), which is out of this prover's
reach, and the refutations of section 5, which are counterexamples.

## 5. Where the code and its documents disagree

`ReportsShowLedger` is a run: reports count entries with status posted; a reversed entry is
no longer posted and its reversal is, so the effect shows once, with the opposite sign.
`PROJECT.json` quotes the lines.

The modules state further claims of documents, comments and tests that the code does not keep.
TLC refutes each, most within seconds, when it takes the place of the properties of the
configuration named:

| Claim | Configuration | Because |
|---|---|---|
| `CancelledIsFinal` | `SalesRace` | recordPayment, createReturn and cancelSale read the status before any lock (sales.service.ts:454, :625, sales-return.service.ts:86) and not again under it |
| `CancelReversesSaleEntry` | `SalesRace` | cancelSale (:667) reverses "a posted entry of the sale"; payments and returns post under the same reference |
| `CancelRestoresStock` | `SalesRace` | a cancellation after a return gives the returned units back again (:629) |
| `RefundWithinReceivable`, `ReceivableIsTotalLessPayments` | `SalesRace` | the balance leaves returns out (sales-return.service.ts:228), so a second return credits the receivable again |
| `DuplicateSaleIsReplayed` | `SalesRace` | the duplicate of the sale that filled the limit counts that sale |
| `DuplicatePaymentIsReplayed` | `SalesRace` | the duplicate of the last payment is refused as an overpayment |
| `FailedMovedNoMoney` | `Qeedha` | the catch around the payment (qeedha-transaction.service.ts:220) commits the payment whose entry was refused on a locked day |
| `CancelledIsEmpty` | `Purchases` | cancelPurchase reads "ordered" (:412), a receipt commits, the update by id (:424) overwrites it |
| `ReturnedWithinOrdered` | `Purchases` | the remainder is rounded to hundredths before the comparison (purchase-return.service.ts:123), so of 1.006 received 1.01 may go back; the comment on CreatePurchaseReturnDto (create-purchase-return.dto.ts:24-29) bounds it by what was ordered |
| `PayableIsTotalLessPayments` | `Purchases` | a return debits the payable too |
| `ReversedOnce` | `Accounting` | the status is checked on an unlocked read, the mark is by id |
| `NoEntryWhenLocked` | `Accounting` | the check of the period takes no lock |
| `PeriodsDisjoint` | `Accounting`, with `MaxPeriods = 2` | no constraint backs the search for an overlap |
| `PastIsFixed` | `Accounting` | a reversal of today changes the status of an entry of yesterday |
| `SheetAlwaysBalances` | `Accounting` | the profit is a second query |
| `BooksMatchExpense` | `ExpenseRace` | from the second correction on, "the active entry" (expenses.service.ts:321) may be a reversal, for reversals are posted too |
| `NoChangeOfCancelled`, `DeletedOnce`, `EveryChangeIsPosted` | `ExpenseRace` | status and fields are read before the row is locked |
| `OpeningOnlyOnEmpty` | `Stock` | the empty row is read without a lock |
| `AppliedOnce`, `CancelledMovedNothing`, `CompletedIsFrozen` | `StockCount` | complete, cancel and updateLines check a draft they read without a lock and write it by id |
| `RowsImportedOnce` | `Imports` | two confirmations both read validated (imports.service.ts:392) |
| `FinalStatus` | `Imports` | cancel and setMapping write the status by id after an import ended |
| `ValidRowsAreImported` | `Imports` | the name of a deleted unit and stock that is already there pass the validation |
| `ImportAlwaysEnds` | `Imports` | a job whose process died stays in importing |
| `OnlyTrialsExpire` | `Subscription` | loadContext (subscription.service.ts:121) writes expired over an activation that committed meanwhile |
| `GuardReadsEffectiveProducts` | `Subscription` | the guard reads the products of the row, not the effective ones |
| `RoleAssignedOnce` | `Subscription` | the unique index does not see a scope that is NULL |
| `NewCashiersAreCounted` | `Subscription` | that a person has a role is read before the lock |
| `CommissionAlwaysPaid` | `Subscription` | the commission follows the commit of the activation |
| `PeriodMadeOnce` | `Pages` | fiscal-periods.service.ts:43-51 searches for an overlap and inserts in two awaits, and nothing backs it: a period sent again after a lost answer is there twice if the first request arrives late |
| `SessionGone` | `Sessions` | the second attempt runs inside the try of the renewal (client.ts:81): a refusal or a lost answer of it signs the cashier out of a session that is alive |
| `CompletedIsTheBasket` | `Sessions` | the key of a lost attempt stays when the basket is changed, so the page shows the first sale as completed |
| `RenewalsDoNotCollide` | `Sessions` | two tabs renew the same token; when one comes after the other, every session is ended |

On the pages the parts of the invariants name the pages they hold on. On the others TLC finds:

| Where | What happens |
|---|---|
| InvoicesPage.tsx:162 | the refresh after a payment is inside the same try: a failed refresh is shown as a failed payment, with the amount still in its field (`ErrorMeansRefused` leaves this page out) |
| PurchasesPage.tsx:199 and :302, ExpensesPage.tsx:144 | every click makes a new `clientReferenceId`, so a form sent again after a lost answer makes a second document (the first part of `RecordedOnce` allows it once a sending was lost) |
| PurchasesPage.tsx:271, :275 | a late answer of details replaces the document under an amount that is typed, which then goes to the other document |
| PurchasesPage.tsx:213 | `busyId` holds one row: a receipt and a cancellation of one purchase can both be under way |
| InvoicesPage.tsx:120, PurchasesPage.tsx:127 | an older answer replaces a newer one; the list can stay old at rest although nothing was lost |
| PurchasesPage.tsx:199 | the answer of a form that was dismissed closes the form that is open now |
| MerchantsTab.tsx:189, :190 | the overrides of the company that was opened before arrive late: they are shown under, and saved to, the company that is open now |
| MerchantsTab.tsx:229 | the overrides are read again inside the try of the save: a failed refresh is shown as a failed save (`ErrorMeansRefused` leaves this place out) |
| MerchantsTab.tsx:247 | the answer of a change of the status closes the company that is open now |
| AccountingPage.tsx:284 | the opening balance is reversed without naming it: a second click that arrives late reverses the one posted meanwhile |

## 6. Not modelled

* Row level security, e-mail, storage beyond "the file is there", audit, careers, website and
  health: policies of the database, single rows or pure input and output. E-invoicing encodes
  one row in the transaction of the sale.
* Of authentication: passwords, verification of an address, and the expiry of a refresh token
  after thirty days. Permissions and branch scopes are read only; a membership is never
  deactivated by the code.
* In sales, VAT and discounts within a line and quantities with decimals. Several lines per sale
  are in `Stock`, not in `Sales`. The row of stock that the first movement of a product inserts
  is a row of zero from the start: the insert (ON CONFLICT DO NOTHING) waits for a
  concurrent one as for a lock.
* In the reports, the cap on the lines of a ledger (the order of entries within a day is not
  part of the model); VAT payable is within `revenue`, so a balance sheet has it in its profit.
* In the integration, the comparison of submitted references with those of the sale, which
  refuses without effect, and the list of transactions.
* Of the client: the import wizard, the reports pages, the website, the tabs of the administration
  for markets, affiliates and applications, the window with the credentials of a company just
  made, and pages that are forms of the shape `Pages` has already.

## 7. Plan

1. Done: all modules of section 2.
2. Done: theorems for every invariant, action property and refinement that a run checks.
3. The allocation of a returned sale line with three decimals and rounding to two, as an operator
   against a reference definition.
