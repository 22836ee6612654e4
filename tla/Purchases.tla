----------------------------- MODULE Purchases -----------------------------
(***************************************************************************)
(* The life of a purchase: createPurchase, receivePurchase, recordPayment, *)
(* cancelPurchase (purchases/purchases.service.ts) and createReturn        *)
(* (purchases/purchase-return.service.ts), as concurrent requests.         *)
(*                                                                         *)
(* As in Sales, a request is one transaction: the reads it makes before    *)
(* its first row lock are one step, and all it does from there to its      *)
(* commit is another.  receivePurchase decides nothing on what it reads    *)
(* before its guarded UPDATE, so it is one step.                           *)
(*                                                                         *)
(* One product in one warehouse and one line per purchase.  Money is       *)
(* counted in cents, so round2 rounds to an integer; quantities and unit   *)
(* costs are counted in the last digit their columns keep.                 *)
(***************************************************************************)
EXTENDS Journal, Valuation, FiniteSets, Functions

CONSTANTS
    Purchase,      \* clientReferenceIds; a purchase is named by its key
    Key,           \* clientReferenceIds of payments and of returns
    Tx,            \* requests that can be open at the same time
    None,          \* no row
    Order,         \* lines clients order: [qty, unitCost, discount, rate]
    Qty,           \* quantities a client returns
    Amount,        \* amounts a client pays
    Hundredth,     \* digits of a quantity that make 0.01
    Cent,          \* digits of unitCost * quantity that make one cent
    InitialStock,  \* quantity_on_hand before the first receipt
    MaxIssued      \* bound: goods other operations take out of the warehouse

ASSUME PurchasesAssumption ==
    /\ IsFiniteSet(Purchase)
    /\ None \notin Purchase
    /\ Order \subseteq [qty : Nat \ {0}, unitCost : Nat, discount : Nat, rate : Nat]
    /\ Qty \subseteq Nat \ {0}
    /\ Amount \subseteq Nat \ {0}
    /\ Hundredth \in Nat \ {0}
    /\ Cent \in Nat \ {0}
    /\ InitialStock \in Nat
    /\ MaxIssued \in Nat

VARIABLES
    purchase,  \* rows of purchases with their only line
    sequence,  \* purchase_sequences.next_number
    payments,  \* rows of supplier_payments
    paid,      \* SUM(supplier_payments.amount) of each purchase
    returns,   \* rows of purchase_returns
    returned,  \* SUM(purchase_return_items.quantity) of each purchase
    stock,     \* stock_levels.quantity_on_hand
    issued,    \* goods taken out by operations that are not of a purchase
    moved,     \* SUM(stock_movements.quantity) of each purchase
    journal,   \* journal_entries with their lines
    ledger,    \* SUM(journal_lines) of each purchase, by account
    tx         \* the request each transaction is running

rows  == <<purchase, sequence, payments, paid, returns, returned>>
goods == <<stock, issued, moved>>
books == <<journal, ledger>>
vars  == <<rows, goods, books, tx>>

-----------------------------------------------------------------------------
NoLine == [qty |-> 0, unitCost |-> 0, discount |-> 0, rate |-> 0]

NoPurchase == [status |-> "none", number |-> 0, line |-> NoLine]

PurchaseRow == [status : {"none", "ordered", "received", "cancelled"},
                number : Nat, line : Order \cup {NoLine}]

NoRow == [purchase |-> None, n |-> 0]

KeyedRow == [purchase : Purchase \cup {None}, n : Nat]

NoRequest == [op |-> "none", purchase |-> None, key |-> None, line |-> NoLine, n |-> 0]

Request == [op : {"none", "create", "receive", "pay", "return", "cancel"},
            purchase : Purchase \cup {None}, key : Key \cup {None},
            line : Order \cup {NoLine}, n : Nat]

PurchaseEntry == EntryOf(Purchase, {"receipt", "payment", "return"})

Open(t) == tx[t].op # "none"

\* The totals createPurchase stores.
Gross(o) == RoundDiv(o.unitCost * o.qty, Cent)

Net(o) == Gross(o) - o.discount

Tax(o) == RoundDiv(Net(o) * o.rate, 100)

Total(p) == Net(purchase[p].line) + Tax(purchase[p].line)

\* Recomputed under the lock on the purchase: returns are not part of it.
Outstanding(p) == Total(p) - paid[p]

\* What is left of the line, rounded to 0.01: up to half of that too much.  The
\* 0.0005 the code adds is less than a digit and admits nothing more.
Returnable(p) ==
    Hundredth * RoundDiv(purchase[p].line.qty - returned[p], Hundredth)

\* What the supplier takes back: the parts of the line's stored amounts, each
\* rounded on its own.
ReturnNet(p, q) == RoundDiv(Net(purchase[p].line) * q, purchase[p].line.qty)

\* Faulty variant: the part of the tax is always rounded up.
ReturnTaxUp(p, q) ==
    (Tax(purchase[p].line) * q + purchase[p].line.qty) \div purchase[p].line.qty

ReturnTax(p, q) == RoundDiv(Tax(purchase[p].line) * q, purchase[p].line.qty)

\* The journal lines of the three operations that post an entry.
\* Faulty variant: the tax becomes part of the cost of the goods.
ReceiptLinesTaxInCost(p) ==
    LinesOf([inventory |-> Total(p), ap |-> -Total(p)])

ReceiptLines(p) ==
    LET o == purchase[p].line
    IN  LinesOf([inventory |-> Net(o), vat |-> Tax(o), ap |-> -Total(p)])

PaymentLines(n) == LinesOf([ap |-> n, cash |-> -n])

ReturnLines(p, q) ==
    LinesOf([ap |-> ReturnNet(p, q) + ReturnTax(p, q),
             inventory |-> -ReturnNet(p, q), vat |-> -ReturnTax(p, q)])

-----------------------------------------------------------------------------
Init ==
    /\ purchase = [p \in Purchase |-> NoPurchase]
    /\ sequence = 1
    /\ payments = [k \in Key |-> NoRow]
    /\ paid = [p \in Purchase |-> 0]
    /\ returns = [k \in Key |-> NoRow]
    /\ returned = [p \in Purchase |-> 0]
    /\ stock = InitialStock
    /\ issued = 0
    /\ moved = [p \in Purchase |-> 0]
    /\ journal = <<>>
    /\ ledger = [p \in Purchase |-> LinesOf(<<>>)]
    /\ tx = [t \in Tx |-> NoRequest]

(***************************************************************************)
(* The unlocked reads: only the requests that go on are steps, for one     *)
(* that is answered at once changes nothing.                               *)
(***************************************************************************)
Begin(t, r) ==
    /\ ~Open(t)
    /\ tx' = [tx EXCEPT ![t] = r]
    /\ UNCHANGED <<rows, goods, books>>

\* A discount above the line's gross is refused before anything is written.
BeginCreate(t) ==
    \E p \in Purchase, o \in Order :
        /\ purchase[p].status = "none"
        /\ o.discount <= Gross(o)
        /\ Begin(t, [NoRequest EXCEPT !.op = "create", !.purchase = p, !.line = o])

BeginReceive(t) ==
    \E p \in Purchase :
        /\ purchase[p].status # "none"
        /\ Begin(t, [NoRequest EXCEPT !.op = "receive", !.purchase = p])

BeginPay(t) ==
    \E p \in Purchase, k \in Key, n \in Amount :
        /\ payments[k] = NoRow
        /\ purchase[p].status = "received"
        /\ Begin(t, [NoRequest EXCEPT !.op = "pay", !.purchase = p, !.key = k, !.n = n])

BeginReturn(t) ==
    \E p \in Purchase, k \in Key, q \in Qty :
        /\ returns[k] = NoRow
        /\ purchase[p].status = "received"
        /\ Begin(t, [NoRequest EXCEPT !.op = "return", !.purchase = p, !.key = k, !.n = q])

BeginCancel(t) ==
    \E p \in Purchase :
        /\ purchase[p].status = "ordered"
        /\ Begin(t, [NoRequest EXCEPT !.op = "cancel", !.purchase = p])

-----------------------------------------------------------------------------
\* The checks under the lock, before a row is inserted.
Rejected(r) ==
    \/ r.op = "receive" /\ purchase[r.purchase].status # "ordered"
    \/ r.op = "pay"     /\ r.n > Outstanding(r.purchase)
    \/ r.op = "return"  /\ r.n > Returnable(r.purchase)

RecordedNoPaymentKey(r) ==
    \/ r.op = "create" /\ purchase[r.purchase].status # "none"
    \/ r.op = "return" /\ returns[r.key] # NoRow

\* The unique indexes on the keys.
Recorded(r) ==
    \/ r.op = "create" /\ purchase[r.purchase].status # "none"
    \/ r.op = "pay"    /\ payments[r.key] # NoRow
    \/ r.op = "return" /\ returns[r.key] # NoRow

\* What can still throw: goods to return that were sold, a return or a receipt
\* worth nothing.
Failed(r) ==
    \/ r.op = "receive" /\ ~Postable(ReceiptLines(r.purchase))
    \/ r.op = "return"  /\ ( ~CanMove([qty |-> stock, avg |-> 0], -r.n)
                             \/ ~Postable(ReturnLines(r.purchase, r.n)) )

Goes(r) == ~Rejected(r) /\ ~Recorded(r) /\ ~Failed(r)

Finish(t) == tx' = [tx EXCEPT ![t] = NoRequest]

Post(p, kind, l) ==
    /\ journal' = PostEntry(journal, p, kind, l)
    /\ ledger' = [ledger EXCEPT ![p] = AddLines(@, l)]

\* recordReceipt and recordIssue of the purchase's line.
Move(p, q) ==
    /\ stock' = stock + q
    /\ moved' = [moved EXCEPT ![p] = @ + q]

CommitCreate(t) ==
    LET r == tx[t] IN
    /\ r.op = "create" /\ Goes(r)
    /\ purchase' = [purchase EXCEPT ![r.purchase] =
                       [status |-> "ordered", number |-> sequence, line |-> r.line]]
    /\ sequence' = sequence + 1
    /\ Finish(t)
    /\ UNCHANGED <<payments, paid, returns, returned, goods, books>>

CommitReceive(t) ==
    LET r == tx[t]
        p == tx[t].purchase
    IN  /\ r.op = "receive" /\ Goes(r)
        /\ purchase' = [purchase EXCEPT ![p].status = "received"]
        /\ Move(p, purchase[p].line.qty)
        /\ Post(p, "receipt", ReceiptLines(p))
        /\ Finish(t)
        /\ UNCHANGED <<sequence, payments, paid, returns, returned, issued>>

\* The status read in BeginPay is not read again under the lock.
CommitPay(t) ==
    LET r == tx[t] IN
    /\ r.op = "pay" /\ Goes(r)
    /\ payments' = [payments EXCEPT ![r.key] = [purchase |-> r.purchase, n |-> r.n]]
    /\ paid' = [paid EXCEPT ![r.purchase] = @ + r.n]
    /\ Post(r.purchase, "payment", PaymentLines(r.n))
    /\ Finish(t)
    /\ UNCHANGED <<purchase, sequence, returns, returned, goods>>

CommitReturn(t) ==
    LET r == tx[t] IN
    /\ r.op = "return" /\ Goes(r)
    /\ returns' = [returns EXCEPT ![r.key] = [purchase |-> r.purchase, n |-> r.n]]
    /\ returned' = [returned EXCEPT ![r.purchase] = @ + r.n]
    /\ Move(r.purchase, -r.n)
    /\ Post(r.purchase, "return", ReturnLines(r.purchase, r.n))
    /\ Finish(t)
    /\ UNCHANGED <<purchase, sequence, payments, paid, issued>>

\* The update names the purchase by id only: it overwrites whatever status a
\* request that committed since BeginCancel left there.
CommitCancel(t) ==
    LET r == tx[t] IN
    /\ r.op = "cancel"
    /\ purchase' = [purchase EXCEPT ![r.purchase].status = "cancelled"]
    /\ Finish(t)
    /\ UNCHANGED <<sequence, payments, paid, returns, returned, goods, books>>

\* Faulty variant: the number is drawn outside the transaction.
RolledBackNumberKept(t) ==
    /\ Open(t)
    /\ Finish(t)
    /\ sequence' = IF tx[t].op = "create" THEN sequence + 1 ELSE sequence
    /\ UNCHANGED <<purchase, payments, paid, returns, returned, goods, books>>

RolledBack(t) ==
    /\ Open(t)
    /\ Finish(t)
    /\ UNCHANGED <<rows, goods, books>>

\* The request is answered with an error.
Refuse(t) == RolledBack(t) /\ (Rejected(tx[t]) \/ (~Recorded(tx[t]) /\ Failed(tx[t])))

\* P2002: the controller answers with what the key recorded.
Replay(t) == RolledBack(t) /\ ~Rejected(tx[t]) /\ Recorded(tx[t])

\* The connection is lost, the process dies or the fiscal period is closed; the
\* client may send the same request, with the same key, again.
Lose(t) == RolledBack(t)

\* Sales and adjustments take goods out of the warehouse.
IssueElsewhere ==
    \E q \in Qty :
        /\ q <= stock
        /\ issued + q <= MaxIssued
        /\ stock' = stock - q
        /\ issued' = issued + q
        /\ UNCHANGED <<rows, moved, books, tx>>

Next ==
    \/ \E t \in Tx :
          \/ BeginCreate(t) \/ BeginReceive(t) \/ BeginPay(t)
          \/ BeginReturn(t) \/ BeginCancel(t)
          \/ CommitCreate(t) \/ CommitReceive(t) \/ CommitPay(t)
          \/ CommitReturn(t) \/ CommitCancel(t)
          \/ Refuse(t) \/ Replay(t) \/ Lose(t)
    \/ IssueElsewhere

Spec == Init /\ [][Next]_vars

-----------------------------------------------------------------------------
TypeOK ==
    /\ purchase \in [Purchase -> PurchaseRow]
    /\ sequence \in Nat
    /\ payments \in [Key -> KeyedRow]
    /\ paid \in [Purchase -> Nat]
    /\ returns \in [Key -> KeyedRow]
    /\ returned \in [Purchase -> Nat]
    /\ stock \in Nat
    /\ issued \in Nat
    /\ moved \in [Purchase -> Int]
    /\ journal \in Seq(PurchaseEntry)
    /\ ledger \in [Purchase -> Lines]
    /\ tx \in [Tx -> Request]

\* However many returns are recorded, one after the other or at the same time
\* (the FOR UPDATE on purchase_items), the goods that go back to the supplier
\* exceed those that arrived by half of 0.01 at most, the rounding of one check:
\* it does not add up.  Money and goods move only once the purchase was received.
NeverOverReturned ==
    \A p \in Purchase :
        /\ 2 * (returned[p] - purchase[p].line.qty) <= Hundredth
        /\ purchase[p].status \in {"none", "ordered"} =>
              paid[p] = 0 /\ returned[p] = 0 /\ moved[p] = 0

Posted(p, kind) == {i \in 1..Len(journal) : journal[i].ref = p /\ journal[i].kind = kind}

Keyed(table, p) == {k \in Key : table[k].purchase = p}

\* A purchase arrives once and a key takes effect once, whatever is sent again:
\* two receipts that both read an ordered purchase included.
OnceEach ==
    \A p \in Purchase :
        /\ Cardinality(Posted(p, "receipt")) <= 1
        /\ Cardinality(Posted(p, "payment")) = Cardinality(Keyed(payments, p))
        /\ Cardinality(Posted(p, "return")) = Cardinality(Keyed(returns, p))

Back(p, Part(_, _)) ==
    SumFunction([k \in Keyed(returns, p) |-> Part(p, returns[k].n)])

\* The books of a received purchase follow its rows: the supplier is owed the
\* total less what was paid and what went back, inventory and VAT hold the rest,
\* and its movements are the goods that stayed.
BooksMatchPurchase ==
    \A p \in Purchase : purchase[p].status = "received" =>
        LET o == purchase[p].line
            net == Net(o) - Back(p, ReturnNet)
            tax == Tax(o) - Back(p, ReturnTax)
        IN  /\ ledger[p] = LinesOf([ap |-> paid[p] - net - tax, cash |-> -paid[p],
                                    inventory |-> net, vat |-> tax])
            /\ moved[p] = o.qty - returned[p]

\* The parts of a line returned in steps are rounded one by one: what they add
\* up to is off by at most half a unit of money per return and per amount.
ReturnDriftBounded ==
    \A p \in Purchase : purchase[p].status = "received" =>
        LET o == purchase[p].line
            n == Cardinality(Keyed(returns, p))
            Off(part, whole) == 2 * (part * o.qty - whole * returned[p])
            InRange(d) == -(n * o.qty) <= d /\ d <= n * o.qty
        IN  /\ InRange(Off(Back(p, ReturnNet), Net(o)))
            /\ InRange(Off(Back(p, ReturnTax), Tax(o)))

\* On-hand stock is what was there, what purchases moved and what others took.
StockIsSumOfMovements ==
    stock = InitialStock - issued + SumFunction(moved)

\* The purchases have the numbers 1, 2, ...: one that rolled back gives its
\* number back.
NumbersGapless ==
    LET there == {p \in Purchase : purchase[p].status # "none"}
    IN  {purchase[p].number : p \in there} = 1..Cardinality(there)

\* What goes back to the supplier adds up, in goods and in money.
ReturnsAddUp == NeverOverReturned /\ ReturnDriftBounded

\* Requests that are sent twice, fail or are cut off leave the rows of no purchase
\* out of step with the entries, the stock and the numbers.
RollBacksLeaveNothing == TypeOK /\ OnceEach /\ StockIsSumOfMovements /\ NumbersGapless

\* Payments take effect one after the other, once per key, within what is due.
Payments == INSTANCE Settlement
    WITH Doc <- Purchase, Key <- Key, NoDoc <- None,
         total <- [p \in Purchase |-> Total(p)], paid <- paid,
         payment <- [k \in Key |-> [doc |-> payments[k].purchase, n |-> payments[k].n]]

ImplementsSettlement == Payments!Spec

-----------------------------------------------------------------------------
\* Only an ordered purchase is cancelled, for a received one has stock and a
\* payable (the comment of cancelPurchase; docs/PURCHASING.md, "Cancel").
CancelledIsEmpty ==
    \A p \in Purchase : purchase[p].status = "cancelled" =>
        moved[p] = 0 /\ ledger[p] = LinesOf(<<>>)

\* The returned quantity of a line never exceeds what was received (the comment
\* of CreatePurchaseReturnDto, dto/create-purchase-return.dto.ts:24-29).
ReturnedWithinOrdered == \A p \in Purchase : returned[p] <= purchase[p].line.qty

\* The balance owed to a supplier is the total less the payments (the comment of
\* recordPayment: the AP balance is never stored, always recomputed).
PayableIsTotalLessPayments ==
    \A p \in Purchase : purchase[p].status = "received" =>
        -ledger[p]["ap"] = Total(p) - paid[p]
=============================================================================
