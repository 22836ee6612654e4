------------------------------- MODULE Sales -------------------------------
(***************************************************************************)
(* The life of a sale: createSale, recordPayment, createReturn and         *)
(* cancelSale (sales/sales.service.ts, sales/sales-return.service.ts), as  *)
(* concurrent requests against one database.                               *)
(*                                                                         *)
(* Each request runs in one READ COMMITTED transaction (withTenant).  It   *)
(* starts with reads that take no lock (does the key exist, is the sale    *)
(* completed), then takes its first row lock and keeps every lock until it *)
(* commits.  What follows the first lock conflicts with other requests     *)
(* only on locked rows, so it is one step; the unlocked reads before it    *)
(* are another, and any other request may commit in between.  A request    *)
(* that throws rolls back and changes nothing.                             *)
(*                                                                         *)
(* The external payments of the Qeedha integration are not among the       *)
(* requests: submitTransaction catches what recordPaymentCore throws and   *)
(* commits, so it is no all-or-nothing payment.                            *)
(*                                                                         *)
(* One product in one warehouse, one line per sale, one price and one cost *)
(* (the weighted average is the subject of Stock.tla).                     *)
(***************************************************************************)
EXTENDS Journal, FiniteSets, Functions

CONSTANTS
    Sale,          \* clientReferenceIds of sales; a sale is named by its key
    Key,           \* clientReferenceIds of payments and of returns
    Tx,            \* requests that can be open at the same time
    None,          \* no row
    Qty,           \* quantities a client asks for
    Amount,        \* payment amounts a client asks for
    UnitPrice,     \* price of a unit, VAT included
    UnitCost,      \* cost of a unit
    InitialStock,  \* quantity_on_hand before the first sale
    MonthlyLimit   \* plan.maxMonthlySales

ASSUME SalesAssumption ==
    /\ IsFiniteSet(Sale)
    /\ None \notin Sale
    /\ Qty \subseteq Nat \ {0}
    /\ Amount \subseteq Nat \ {0}
    /\ UnitPrice \in Nat \ {0}
    /\ UnitCost \in Nat
    /\ InitialStock \in Nat
    /\ MonthlyLimit \in Nat

VARIABLES
    sale,        \* rows of sales with their only line and their invoice
    invoiceSeq,  \* invoice_sequences.next_number
    payments,    \* rows of payments that carry a key
    paid,        \* SUM(payments.amount) of each sale
    returns,     \* rows of sale_returns
    returned,    \* SUM(sale_return_items.quantity) of each sale
    stock,       \* stock_levels.quantity_on_hand
    moved,       \* SUM(stock_movements.quantity) of each sale
    journal,     \* journal_entries with their lines
    ledger,      \* SUM(journal_lines) of each sale, by account
    closed,      \* today falls in a closed fiscal period (Accounting.tla splits
                 \* the check from the commit)
    tx           \* the request each transaction is running

rows   == <<sale, invoiceSeq, payments, paid, returns, returned>>
books  == <<journal, ledger>>
vars   == <<rows, stock, moved, books, closed, tx>>

-----------------------------------------------------------------------------
NoSale == [status |-> "none", qty |-> 0, invoice |-> 0]

SaleRow == [status : {"none", "completed", "cancelled"}, qty : Nat, invoice : Nat]

\* A row of payments or of sale_returns: its sale, and the amount or quantity.
NoRow == [sale |-> None, n |-> 0]

Row == [sale : Sale \cup {None}, n : Nat]

NoRequest == [op |-> "none", sale |-> None, key |-> None, qty |-> 0, amount |-> 0]

Request == [op : {"none", "create", "pay", "return", "cancel"},
            sale : Sale \cup {None}, key : Key \cup {None},
            qty : Nat, amount : Nat]

\* A journal entry of a sale.
SaleEntry == EntryOf(Sale, {"sale", "payment", "return"})

Open(t) == tx[t].op # "none"

Total(s) == UnitPrice * sale[s].qty

\* recordPaymentCore recomputes this under the lock on the sale row, and so
\* does createReturn: the returns already made are not part of it.
Outstanding(s) == Total(s) - paid[s]

Returnable(s) == sale[s].qty - returned[s]

SalesThisMonth == Cardinality({s \in Sale : sale[s].status # "none"})

\* The journal lines of the three operations that post an entry.
SaleLines(r) ==
    LET total == UnitPrice * r.qty
        cost  == UnitCost * r.qty
    IN  LinesOf([cash |-> r.amount, ar |-> total - r.amount, revenue |-> -total,
                 cogs |-> cost, inventory |-> -cost])

PaymentLines(r) == LinesOf([cash |-> r.amount, ar |-> -r.amount])

\* Math.max(0, total - paid): what a return may still take off the receivable.
OutstandingAR(s) == IF Outstanding(s) > 0 THEN Outstanding(s) ELSE 0

\* Faulty variant: the whole refund is paid out, whatever is still owed.
RefundToARCashFirst(r) == 0

RefundToAR(r) ==
    LET total == UnitPrice * r.qty
    IN  IF total < OutstandingAR(r.sale) THEN total ELSE OutstandingAR(r.sale)

\* Faulty variant: the cost of the goods that come back is not posted.
ReturnLinesNoCost(r) ==
    LET total == UnitPrice * r.qty
    IN  LinesOf([ar |-> -RefundToAR(r), cash |-> RefundToAR(r) - total, revenue |-> total])

ReturnLines(r) ==
    LET total == UnitPrice * r.qty
        cost  == UnitCost * r.qty
    IN  LinesOf([ar |-> -RefundToAR(r), cash |-> RefundToAR(r) - total,
                 revenue |-> total, inventory |-> cost, cogs |-> -cost])

-----------------------------------------------------------------------------
Init ==
    /\ sale = [s \in Sale |-> NoSale]
    /\ invoiceSeq = 1
    /\ payments = [k \in Key |-> NoRow]
    /\ paid = [s \in Sale |-> 0]
    /\ returns = [k \in Key |-> NoRow]
    /\ returned = [s \in Sale |-> 0]
    /\ stock = InitialStock
    /\ moved = [s \in Sale |-> 0]
    /\ journal = <<>>
    /\ ledger = [s \in Sale |-> LinesOf(<<>>)]
    /\ closed = FALSE
    /\ tx = [t \in Tx |-> NoRequest]

(***************************************************************************)
(* The unlocked reads.  A request that fails one of them, or that finds    *)
(* its key already used, is answered at once and changes nothing, so only  *)
(* those that go on are steps.                                             *)
(***************************************************************************)
Begin(t, r) ==
    /\ ~Open(t)
    /\ tx' = [tx EXCEPT ![t] = r]
    /\ UNCHANGED <<rows, stock, moved, books, closed>>

BeginCreate(t) ==
    \E s \in Sale, q \in Qty, a \in Amount \cup {0} :
        /\ sale[s].status = "none"
        /\ Begin(t, [op |-> "create", sale |-> s, key |-> None,
                     qty |-> q, amount |-> a])

BeginPay(t) ==
    \E s \in Sale, k \in Key, a \in Amount :
        /\ payments[k] = NoRow
        /\ sale[s].status = "completed"
        /\ Begin(t, [op |-> "pay", sale |-> s, key |-> k, qty |-> 0, amount |-> a])

BeginReturn(t) ==
    \E s \in Sale, k \in Key, q \in Qty :
        /\ returns[k] = NoRow
        /\ sale[s].status = "completed"
        /\ Begin(t, [op |-> "return", sale |-> s, key |-> k, qty |-> q, amount |-> 0])

BeginCancel(t) ==
    \E s \in Sale :
        /\ sale[s].status = "completed"
        /\ Begin(t, [op |-> "cancel", sale |-> s, key |-> None, qty |-> 0, amount |-> 0])

-----------------------------------------------------------------------------
(***************************************************************************)
(* How the locked part of a request can end.  Checked in the order of the  *)
(* code: the checks before the row is inserted, the unique index on the    *)
(* key, and what can still throw after the insert.                         *)
(***************************************************************************)
\* Faulty variant: a payment is not held against the balance.
RejectedNoPaymentCheck(r) ==
    \/ r.op = "create" /\ (SalesThisMonth >= MonthlyLimit \/ r.amount > UnitPrice * r.qty)
    \/ r.op = "return" /\ r.qty > Returnable(r.sale)

Rejected(r) ==
    \/ r.op = "create" /\ (SalesThisMonth >= MonthlyLimit \/ r.amount > UnitPrice * r.qty)
    \/ r.op = "pay"    /\ r.amount > Outstanding(r.sale)
    \/ r.op = "return" /\ r.qty > Returnable(r.sale)

\* Faulty variant: payments without a unique index on the key.
RecordedNoPaymentKey(r) ==
    \/ r.op = "create" /\ sale[r.sale].status # "none"
    \/ r.op = "return" /\ returns[r.key] # NoRow

Recorded(r) ==
    \/ r.op = "create" /\ sale[r.sale].status # "none"
    \/ r.op = "pay"    /\ payments[r.key] # NoRow
    \/ r.op = "return" /\ returns[r.key] # NoRow

Failed(r) ==
    \/ closed
    \/ r.op = "create" /\ (r.qty > stock \/ ~Postable(SaleLines(r)))
    \/ r.op = "pay"    /\ ~Postable(PaymentLines(r))
    \/ r.op = "return" /\ ~Postable(ReturnLines(r))

Goes(r) == ~Rejected(r) /\ ~Recorded(r) /\ ~Failed(r)

Finish(t) == tx' = [tx EXCEPT ![t] = NoRequest]

Post(s, kind, l) ==
    /\ journal' = PostEntry(journal, s, kind, l)
    /\ ledger' = [ledger EXCEPT ![s] = AddLines(@, l)]

\* recordMovement of the sale's line: the guarded UPDATE and the movement row.
Move(s, q) ==
    /\ stock' = stock + q
    /\ moved' = [moved EXCEPT ![s] = @ + q]

CommitCreate(t) ==
    LET r == tx[t] IN
    /\ r.op = "create" /\ Goes(r)
    /\ sale' = [sale EXCEPT ![r.sale] =
                  [status |-> "completed", qty |-> r.qty, invoice |-> invoiceSeq]]
    /\ invoiceSeq' = invoiceSeq + 1
    /\ paid' = [paid EXCEPT ![r.sale] = @ + r.amount]
    /\ Move(r.sale, -r.qty)
    /\ Post(r.sale, "sale", SaleLines(r))
    /\ Finish(t)
    /\ UNCHANGED <<payments, returns, returned, closed>>

\* The status read in BeginPay is not read again under the lock.
CommitPay(t) ==
    LET r == tx[t] IN
    /\ r.op = "pay" /\ Goes(r)
    /\ payments' = [payments EXCEPT ![r.key] = [sale |-> r.sale, n |-> r.amount]]
    /\ paid' = [paid EXCEPT ![r.sale] = @ + r.amount]
    /\ Post(r.sale, "payment", PaymentLines(r))
    /\ Finish(t)
    /\ UNCHANGED <<sale, invoiceSeq, returns, returned, stock, moved, closed>>

\* The insert into sale_returns holds a foreign-key lock on the sale row, so
\* no payment commits between the sum of the payments and the entry.
CommitReturn(t) ==
    LET r == tx[t] IN
    /\ r.op = "return" /\ Goes(r)
    /\ returns' = [returns EXCEPT ![r.key] = [sale |-> r.sale, n |-> r.qty]]
    /\ returned' = [returned EXCEPT ![r.sale] = @ + r.qty]
    /\ Move(r.sale, r.qty)
    /\ Post(r.sale, "return", ReturnLines(r))
    /\ Finish(t)
    /\ UNCHANGED <<sale, invoiceSeq, payments, paid, closed>>

\* Restores the whole line, whatever was returned before, and reverses one
\* posted entry of the sale: findFirst has no order, so any of them.  There
\* always is one (createSale posts it, and a reversal is itself posted).
CommitCancel(t) ==
    LET r == tx[t] IN
    /\ r.op = "cancel" /\ Goes(r)
    /\ sale' = [sale EXCEPT ![r.sale].status = "cancelled"]
    /\ Move(r.sale, sale[r.sale].qty)
    /\ \E i \in PostedEntries(journal, r.sale) :
          /\ journal' = ReverseEntry(journal, i)
          /\ ledger' = [ledger EXCEPT ![r.sale] =
                           AddLines(@, SwapLines(journal[i].lines))]
    /\ Finish(t)
    /\ UNCHANGED <<invoiceSeq, payments, paid, returns, returned, closed>>

\* Faulty variant: the number is drawn outside the transaction.
RolledBackNumberKept(t) ==
    /\ Open(t)
    /\ Finish(t)
    /\ invoiceSeq' = IF tx[t].op = "create" THEN invoiceSeq + 1 ELSE invoiceSeq
    /\ UNCHANGED <<sale, payments, paid, returns, returned, stock, moved, books, closed>>

RolledBack(t) ==
    /\ Open(t)
    /\ Finish(t)
    /\ UNCHANGED <<rows, stock, moved, books, closed>>

\* The request is answered with an error.
Refuse(t) == RolledBack(t) /\ (Rejected(tx[t]) \/ (~Recorded(tx[t]) /\ Failed(tx[t])))

\* The unique index refuses the row (P2002); the controller answers with the
\* record that is already there.
Replay(t) == RolledBack(t) /\ ~Rejected(tx[t]) /\ Recorded(tx[t])

\* The connection is lost or the process dies before the commit.  The client
\* may send the same request, with the same key, again.
Lose(t) == RolledBack(t)

\* FiscalPeriodsService.close and reopen, for the period that holds today.
ClosePeriod ==
    /\ ~closed
    /\ closed' = TRUE
    /\ UNCHANGED <<rows, stock, moved, books, tx>>

ReopenPeriod ==
    /\ closed
    /\ closed' = FALSE
    /\ UNCHANGED <<rows, stock, moved, books, tx>>

Next ==
    \/ \E t \in Tx :
          \/ BeginCreate(t) \/ BeginPay(t) \/ BeginReturn(t) \/ BeginCancel(t)
          \/ CommitCreate(t) \/ CommitPay(t) \/ CommitReturn(t) \/ CommitCancel(t)
          \/ Refuse(t) \/ Replay(t) \/ Lose(t)
    \/ ClosePeriod
    \/ ReopenPeriod

Spec == Init /\ [][Next]_vars

-----------------------------------------------------------------------------
(* Properties *)

TypeOK ==
    /\ sale \in [Sale -> SaleRow]
    /\ invoiceSeq \in Nat
    /\ payments \in [Key -> Row]
    /\ paid \in [Sale -> Nat]
    /\ returns \in [Key -> Row]
    /\ returned \in [Sale -> Nat]
    /\ stock \in Nat
    /\ moved \in [Sale -> Int]
    /\ journal \in Seq(SaleEntry)
    /\ ledger \in [Sale -> Lines]
    /\ closed \in BOOLEAN
    /\ tx \in [Tx -> Request]

\* The payments of a sale never add up to more than its total, however many
\* payments are recorded at the same time (the FOR UPDATE in recordPaymentCore).
NeverOverpaid == \A s \in Sale : paid[s] <= Total(s)

\* The returns of a sale never add up to more than what was sold, however many
\* are recorded at the same time (the FOR UPDATE on sale_items in createReturn).
NeverOverReturned == \A s \in Sale : returned[s] <= sale[s].qty

\* A sale is never paid or returned beyond what it is.
WithinSale == NeverOverpaid /\ NeverOverReturned

\* As long as a sale is not cancelled its journal lines agree with its rows:
\* what is owed and what was collected is the price of the goods kept, and
\* inventory and cost of sales move with the stock movements of the sale.
BooksMatchSale ==
    \A s \in Sale : sale[s].status = "completed" =>
        LET kept == sale[s].qty - returned[s]
        IN  /\ moved[s] = -kept
            /\ ledger[s]["cash"] + ledger[s]["ar"] = UnitPrice * kept
            /\ ledger[s]["revenue"] = -(UnitPrice * kept)
            /\ ledger[s]["inventory"] = -(UnitCost * kept)
            /\ ledger[s]["cogs"] = UnitCost * kept

\* No sale gives back more money than it took in, in whatever order payments
\* and returns come (the refund allocation of createReturn).
NeverRefundedMoreThanPaid ==
    \A s \in Sale : sale[s].status = "completed" => ledger[s]["cash"] >= 0

\* A key takes effect once: as many entries of a kind were posted for a sale as
\* there are keys recorded for it, however often a request is sent again.
OneEntryPerKey ==
    \A s \in Sale :
        LET Posted(kind) == {i \in 1..Len(journal) : journal[i].ref = s /\ journal[i].kind = kind}
            Keyed(table) == {k \in Key : table[k].sale = s}
        IN  /\ Cardinality(Posted("payment")) = Cardinality(Keyed(payments))
            /\ Cardinality(Posted("return")) = Cardinality(Keyed(returns))
            /\ Cardinality(Posted("sale")) <= 1

\* On-hand stock is the opening stock plus every movement, and a request that
\* rolled back left neither a movement nor a deduction behind.
StockIsSumOfMovements ==
    stock = InitialStock + SumFunction(moved)

\* Every sale that committed holds a number of its own and no number is
\* missing: a rolled-back sale gives its number back.
InvoicesGapless ==
    {sale[s].invoice : s \in {z \in Sale : sale[z].status # "none"}} = 1..SalesThisMonth

\* The only reversals of a sale's entries are those of cancelSale, and each
\* undoes an entry once, two cancellations of one sale included.
ReversedOnce == UndoneOnce(journal)

\* The history loses nothing: no operation of a sale edits or drops an entry,
\* a reversal only marks the one it reverses.
HistoryKept == [][Continues(journal, journal')]_vars

-----------------------------------------------------------------------------
(***************************************************************************)
(* What the documentation, the comments and the tests say of a sale, and   *)
(* the code does not keep.                                                 *)
(***************************************************************************)

\* A cancelled sale is closed for good: no payment and no return is recorded on
\* it (test/milestone7.e2e-spec.ts: both are refused with 409) and it is not
\* cancelled again (docs/SALES.md, "Cancel/void"), so its stock moves no more.
CancelledIsFinal ==
    [][\A s \in Sale : sale[s].status = "cancelled" =>
          <<paid[s], returned[s], moved[s]>>' = <<paid[s], returned[s], moved[s]>>]_vars

\* Cancelling a sale reverses the entry posted when it was completed
\* (docs/JOURNAL_ENTRIES.md, "when a reversal is used").
CancelReversesSaleEntry ==
    [][\A s \in Sale :
          (sale[s].status = "completed" /\ sale'[s].status = "cancelled") =>
              journal'[journal'[Len(journal')].reverses].kind = "sale"]_vars

\* After a cancellation the goods of the sale are back, no more and no less
\* (docs/SALES.md, "Cancel/void": the stock of every line is reversed).
CancelRestoresStock ==
    [][\A s \in Sale :
          (sale[s].status = "completed" /\ sale'[s].status = "cancelled") =>
              moved'[s] = 0]_vars

\* The receivable of a sale is always its total less the sum of its payments
\* (the comment of recordPayment).
ReceivableIsTotalLessPayments ==
    \A s \in Sale : sale[s].status = "completed" => ledger[s]["ar"] = Total(s) - paid[s]

\* A return is credited to the receivable up to the balance the sale still
\* has (the comment of SalesReturnService): it never makes it negative.
RefundWithinReceivable ==
    [][\A s \in Sale :
          (/\ sale[s].status = "completed"
           /\ returned'[s] > returned[s]
           /\ ledger[s]["ar"] >= 0) => ledger'[s]["ar"] >= 0]_vars

\* The lines of the posted entries, as every report and sub-ledger adds them.
PostedBalance(s, a) ==
    SumFunction([i \in PostedEntries(journal, s) |-> journal[i].lines[a]])

\* "reversed" only points to where the effect of an entry went (the comment of
\* reverseJournalEntry): a report shows the ledger, reversals included.
ReportsShowLedger ==
    \A s \in Sale, a \in Account : PostedBalance(s, a) = ledger[s][a]

\* A duplicate of a sale that is already stored is answered with that sale, and
\* is not held against the monthly limit (the comment at the limit check of
\* createSale; docs/SALES.md, "Idempotency").
DuplicateSaleIsReplayed ==
    [][\A t \in Tx : (Refuse(t) /\ tx[t].op = "create") =>
          ~( sale[tx[t].sale].status # "none" /\ sale[tx[t].sale].qty = tx[t].qty
             /\ paid[tx[t].sale] = tx[t].amount )]_vars

\* A duplicate of a payment that is already stored is answered with it, as a
\* duplicate sale is (SalesController.recordPayment: "same duplicate-race
\* handling as createSale").
DuplicatePaymentIsReplayed ==
    [][\A t \in Tx : (Refuse(t) /\ tx[t].op = "pay") =>
          payments[tx[t].key] # [sale |-> tx[t].sale, n |-> tx[t].amount]]_vars
=============================================================================
