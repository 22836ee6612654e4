---------------------------- MODULE SalesProofs ----------------------------
(***************************************************************************)
(* Theorems about Sales, for any number of sales, keys and concurrent      *)
(* requests, any prices, quantities, amounts and stock.                    *)
(*                                                                         *)
(* Type correctness needs that an open request names rows that exist, and  *)
(* keeps them existing (Inv1).  The properties of the rows and the books   *)
(* follow from one invariant per sale (SaleInv), which a request on        *)
(* another sale cannot disturb (SaleFrame); those of the journal from      *)
(* JournalInv and the lemmas of JournalProofs.  The last part is about the *)
(* composition with the Qeedha integration.                                *)
(***************************************************************************)
EXTENDS Qeedha, JournalProofs, FiniteSetTheorems, TLAPS

\* The facts of integer arithmetic the proofs use: the products of prices and
\* quantities are hidden from the provers except for these.
LEMMA MulInt == \A m, n \in Int : m * n \in Int
  OBVIOUS

\* A price times a quantity is a natural number.
LEMMA MulNat == \A m, n \in Nat : m * n \in Nat
  OBVIOUS

\* Multiplication distributes over sums.
LEMMA MulAdd == \A m, n, p \in Int : m * (n + p) = m * n + m * p
  OBVIOUS

\* Multiplication distributes over differences.
LEMMA MulSub == \A m, n, p \in Int : m * (n - p) = m * n - m * p
  OBVIOUS

\* A larger quantity costs at least as much.
LEMMA MulMono == \A m, n, p \in Nat : n <= p => m * n <= m * p
  OBVIOUS

\* The entry of a sale, account by account.
LEMMA SaleLinesValue ==
  ASSUME NEW r \in Request
  PROVE  /\ SaleLines(r) \in Lines
         /\ SaleLines(r)["cash"] = r.amount
         /\ SaleLines(r)["ar"] = UnitPrice * r.qty - r.amount
         /\ SaleLines(r)["revenue"] = -(UnitPrice * r.qty)
         /\ SaleLines(r)["inventory"] = -(UnitCost * r.qty)
         /\ SaleLines(r)["cogs"] = UnitCost * r.qty
<1> DEFINE total == UnitPrice * r.qty
           cost  == UnitCost * r.qty
           l == [cash |-> r.amount, ar |-> total - r.amount, revenue |-> -total,
                 cogs |-> cost, inventory |-> -cost]
<1>1. r.qty \in Nat /\ r.amount \in Nat
  BY DEF Request
<1>2. total \in Nat /\ cost \in Nat
  BY <1>1, SalesAssumption, MulNat
<1>3. SaleLines(r) = LinesOf(l)
  BY DEF SaleLines
<1>4. DOMAIN l = {"cash", "ar", "revenue", "cogs", "inventory"}
  OBVIOUS
<1> HIDE DEF total, cost
<1>5. \A a \in DOMAIN l : l[a] \in Int
  BY <1>1, <1>2, <1>4
<1>6. LinesOf(l) \in Lines
  BY <1>5, LinesOfType
<1>7. /\ LinesOf(l)["cash"] = r.amount
      /\ LinesOf(l)["ar"] = total - r.amount
      /\ LinesOf(l)["revenue"] = -total
      /\ LinesOf(l)["inventory"] = -cost
      /\ LinesOf(l)["cogs"] = cost
  BY <1>4 DEF LinesOf, Account
<1> QED
  BY <1>3, <1>6, <1>7 DEF total, cost

\* The entry of a payment, account by account.
LEMMA PaymentLinesValue ==
  ASSUME NEW r, r.amount \in Nat
  PROVE  /\ PaymentLines(r) \in Lines
         /\ PaymentLines(r)["cash"] = r.amount
         /\ PaymentLines(r)["ar"] = -r.amount
         /\ \A a \in Account \ {"cash", "ar"} : PaymentLines(r)[a] = 0
<1> DEFINE l == [cash |-> r.amount, ar |-> -r.amount]
<1>1. r.amount \in Nat
  OBVIOUS
<1>2. PaymentLines(r) = LinesOf(l)
  BY DEF PaymentLines
<1>3. DOMAIN l = {"cash", "ar"}
  OBVIOUS
<1>4. \A a \in DOMAIN l : l[a] \in Int
  BY <1>1, <1>3
<1>5. LinesOf(l) \in Lines
  BY <1>4, LinesOfType
<1>6. /\ LinesOf(l)["cash"] = r.amount
      /\ LinesOf(l)["ar"] = -r.amount
      /\ \A a \in Account \ {"cash", "ar"} : LinesOf(l)[a] = 0
  BY <1>3 DEF LinesOf, Account
<1> QED
  BY <1>2, <1>5, <1>6

\* The entry of a return, account by account.
LEMMA ReturnLinesValue ==
  ASSUME NEW r \in Request, RefundToAR(r) \in Int
  PROVE  /\ ReturnLines(r) \in Lines
         /\ ReturnLines(r)["cash"] = RefundToAR(r) - UnitPrice * r.qty
         /\ ReturnLines(r)["ar"] = -RefundToAR(r)
         /\ ReturnLines(r)["revenue"] = UnitPrice * r.qty
         /\ ReturnLines(r)["inventory"] = UnitCost * r.qty
         /\ ReturnLines(r)["cogs"] = -(UnitCost * r.qty)
<1> DEFINE total == UnitPrice * r.qty
           cost  == UnitCost * r.qty
           toAR  == RefundToAR(r)
           l == [ar |-> -toAR, cash |-> toAR - total, revenue |-> total,
                 inventory |-> cost, cogs |-> -cost]
<1>1. r.qty \in Nat
  BY DEF Request
<1>2. total \in Nat /\ cost \in Nat /\ toAR \in Int
  BY <1>1, SalesAssumption, MulNat
<1>3. ReturnLines(r) = LinesOf(l)
  BY DEF ReturnLines
<1>4. DOMAIN l = {"ar", "cash", "revenue", "inventory", "cogs"}
  OBVIOUS
<1> HIDE DEF total, cost, toAR
<1>5. \A a \in DOMAIN l : l[a] \in Int
  BY <1>2, <1>4
<1>6. LinesOf(l) \in Lines
  BY <1>5, LinesOfType
<1>7. /\ LinesOf(l)["cash"] = toAR - total
      /\ LinesOf(l)["ar"] = -toAR
      /\ LinesOf(l)["revenue"] = total
      /\ LinesOf(l)["inventory"] = cost
      /\ LinesOf(l)["cogs"] = -cost
  BY <1>4 DEF LinesOf, Account
<1> QED
  BY <1>3, <1>6, <1>7 DEF total, cost, toAR

-----------------------------------------------------------------------------
\* An open request names rows that are there: rows of sales are never deleted,
\* so what the unlocked reads found still exists when the locks are taken.
RequestsOK ==
    \A t \in Tx :
        LET r == tx[t] IN
        /\ r.op # "none" => r.sale \in Sale
        /\ r.op \in {"pay", "return"} => r.key \in Key
        /\ r.op \in {"pay", "return", "cancel"} => sale[r.sale].status # "none"

\* The inductive form of the type invariant.
Inv1 == TypeOK /\ RequestsOK

\* Totals, balances and refunds are integers, and no refund is negative.
LEMMA MoneyType ==
  ASSUME TypeOK, NEW s \in Sale
  PROVE  /\ Total(s) \in Nat /\ Outstanding(s) \in Int /\ OutstandingAR(s) \in Nat
         /\ Returnable(s) \in Int
         /\ \A r \in Request : r.sale = s => RefundToAR(r) \in Nat
<1>1. sale[s].qty \in Nat /\ paid[s] \in Nat /\ returned[s] \in Nat
  BY DEF TypeOK, SaleRow
<1>2. Total(s) \in Nat
  BY <1>1, MulNat, SalesAssumption DEF Total
<1>3. Outstanding(s) \in Int /\ OutstandingAR(s) \in Nat
  BY <1>1, <1>2 DEF Outstanding, OutstandingAR
<1>4. ASSUME NEW r \in Request, r.sale = s
      PROVE  RefundToAR(r) \in Nat
  <2>1. UnitPrice * r.qty \in Nat
    BY MulNat, SalesAssumption DEF Request
  <2> QED
    BY <1>3, <1>4, <2>1 DEF RefundToAR
<1> QED
  BY <1>1, <1>2, <1>3, <1>4 DEF Returnable

\* Posting an entry keeps the journal and the ledger well-typed.
LEMMA PostType ==
  ASSUME TypeOK, NEW s \in Sale, NEW kind \in {"sale", "payment", "return"},
         NEW l \in Lines, Post(s, kind, l)
  PROVE  journal' \in Seq(SaleEntry) /\ ledger' \in [Sale -> Lines]
<1>1. journal' \in Seq(SaleEntry)
  BY PostEntryType DEF TypeOK, SaleEntry, Post
<1>2. AddLines(ledger[s], l) \in Lines
  BY AddLinesType DEF TypeOK
<1>3. ledger' \in [Sale -> Lines]
  BY <1>2 DEF Post, TypeOK
<1> QED
  BY <1>1, <1>3

\* The type invariant holds of an empty database.
LEMMA InitInv1 == Init => Inv1
<1> SUFFICES ASSUME Init PROVE Inv1
  OBVIOUS
<1> USE SalesAssumption
<1>1. LinesOf(<<>>) \in Lines
  BY LinesOfType
<1>2. NoSale \in SaleRow /\ NoRow \in Row /\ NoRequest \in Request
  BY DEF NoSale, SaleRow, NoRow, Row, NoRequest, Request
<1>3. TypeOK
  <2>1. journal \in Seq(SaleEntry) /\ ledger \in [Sale -> Lines]
    BY <1>1 DEF Init
  <2>2. /\ sale \in [Sale -> SaleRow] /\ payments \in [Key -> Row]
        /\ returns \in [Key -> Row] /\ tx \in [Tx -> Request]
    BY <1>2 DEF Init
  <2>3. /\ invoiceSeq \in Nat /\ stock \in Nat
        /\ paid \in [Sale -> Nat] /\ returned \in [Sale -> Nat] /\ moved \in [Sale -> Int]
    BY DEF Init
  <2>4. closed \in BOOLEAN
    BY DEF Init
  <2> QED
    BY <2>1, <2>2, <2>3, <2>4 DEF TypeOK
<1>4. RequestsOK
  BY DEF Init, RequestsOK, NoRequest
<1> QED
  BY <1>3, <1>4 DEF Inv1

\* Every step keeps the types and the rows of open requests.
LEMMA StepInv1 == Inv1 /\ [Next]_vars => Inv1'
<1> SUFFICES ASSUME Inv1, [Next]_vars
             PROVE  Inv1'
  OBVIOUS
<1> USE SalesAssumption DEF Inv1
<1>1. ASSUME NEW t \in Tx, BeginCreate(t)
      PROVE  Inv1'
  <2>1. PICK s \in Sale, q \in Qty, a \in Amount \cup {0} :
           Begin(t, [op |-> "create", sale |-> s, key |-> None, qty |-> q, amount |-> a])
    BY <1>1 DEF BeginCreate
  <2>2. TypeOK'
    BY <2>1 DEF TypeOK, Begin, Request, rows, books
  <2>3. RequestsOK'
    BY <2>1 DEF TypeOK, RequestsOK, Begin, rows
  <2> QED
    BY <2>2, <2>3
<1>2. ASSUME NEW t \in Tx, BeginPay(t)
      PROVE  Inv1'
  <2>1. PICK s \in Sale, k \in Key, a \in Amount :
           /\ sale[s].status = "completed"
           /\ Begin(t, [op |-> "pay", sale |-> s, key |-> k, qty |-> 0, amount |-> a])
    BY <1>2 DEF BeginPay
  <2>2. TypeOK'
    BY <2>1 DEF TypeOK, Begin, Request, rows, books
  <2>3. RequestsOK'
    BY <2>1 DEF TypeOK, RequestsOK, Begin, rows
  <2> QED
    BY <2>2, <2>3
<1>3. ASSUME NEW t \in Tx, BeginReturn(t)
      PROVE  Inv1'
  <2>1. PICK s \in Sale, k \in Key, q \in Qty :
           /\ sale[s].status = "completed"
           /\ Begin(t, [op |-> "return", sale |-> s, key |-> k, qty |-> q, amount |-> 0])
    BY <1>3 DEF BeginReturn
  <2>2. TypeOK'
    BY <2>1 DEF TypeOK, Begin, Request, rows, books
  <2>3. RequestsOK'
    BY <2>1 DEF TypeOK, RequestsOK, Begin, rows
  <2> QED
    BY <2>2, <2>3
<1>4. ASSUME NEW t \in Tx, BeginCancel(t)
      PROVE  Inv1'
  <2>1. PICK s \in Sale :
           /\ sale[s].status = "completed"
           /\ Begin(t, [op |-> "cancel", sale |-> s, key |-> None, qty |-> 0, amount |-> 0])
    BY <1>4 DEF BeginCancel
  <2>2. TypeOK'
    BY <2>1 DEF TypeOK, Begin, Request, rows, books
  <2>3. RequestsOK'
    BY <2>1 DEF TypeOK, RequestsOK, Begin, rows
  <2> QED
    BY <2>2, <2>3
<1>5. ASSUME NEW t \in Tx, CommitCreate(t)
      PROVE  Inv1'
  <2> DEFINE r == tx[t]
  <2>1. r \in Request /\ r.sale \in Sale /\ r.qty \in Nat /\ r.amount \in Nat
    BY <1>5 DEF TypeOK, RequestsOK, Request, CommitCreate
  <2>2. r.qty <= stock
    BY <1>5, <2>1 DEF CommitCreate, Goes, Failed, TypeOK
  <2>3. SaleLines(r) \in Lines
    BY <2>1, SaleLinesValue
  <2>4. journal' \in Seq(SaleEntry) /\ ledger' \in [Sale -> Lines]
    BY <1>5, <2>1, <2>3, PostType DEF CommitCreate
  <2>5. stock' \in Nat /\ moved' \in [Sale -> Int]
    BY <1>5, <2>1, <2>2 DEF CommitCreate, Move, TypeOK
  <2>6. tx' \in [Tx -> Request]
    BY <1>5 DEF CommitCreate, Finish, NoRequest, Request, TypeOK
  <2>7. sale' \in [Sale -> SaleRow]
    BY <1>5, <2>1 DEF CommitCreate, SaleRow, TypeOK
  <2>8. invoiceSeq' \in Nat /\ paid' \in [Sale -> Nat]
    BY <1>5, <2>1 DEF CommitCreate, TypeOK
  <2>9. TypeOK'
    BY <1>5, <2>4, <2>5, <2>6, <2>7, <2>8 DEF CommitCreate, TypeOK
  <2>10. RequestsOK'
    BY <1>5, <2>1 DEF CommitCreate, Finish, NoRequest, TypeOK, RequestsOK
  <2> QED
    BY <2>9, <2>10
<1>6. ASSUME NEW t \in Tx, CommitPay(t)
      PROVE  Inv1'
  <2> DEFINE r == tx[t]
  <2>1. r \in Request /\ r.sale \in Sale /\ r.key \in Key /\ r.amount \in Nat
    BY <1>6 DEF TypeOK, RequestsOK, Request, CommitPay
  <2>2. journal' \in Seq(SaleEntry) /\ ledger' \in [Sale -> Lines]
    BY <1>6, <2>1, PaymentLinesValue, PostType DEF CommitPay
  <2>3. tx' \in [Tx -> Request]
    BY <1>6 DEF CommitPay, Finish, NoRequest, Request, TypeOK
  <2>4. payments' \in [Key -> Row] /\ paid' \in [Sale -> Nat]
    BY <1>6, <2>1 DEF CommitPay, Row, TypeOK
  <2>5. TypeOK'
    BY <1>6, <2>2, <2>3, <2>4 DEF CommitPay, TypeOK
  <2>6. RequestsOK'
    BY <1>6, <2>1 DEF CommitPay, Finish, NoRequest, TypeOK, RequestsOK
  <2> QED
    BY <2>5, <2>6
<1>7. ASSUME NEW t \in Tx, CommitReturn(t)
      PROVE  Inv1'
  <2> DEFINE r == tx[t]
  <2>1. r \in Request /\ r.sale \in Sale /\ r.key \in Key /\ r.qty \in Nat
    BY <1>7 DEF TypeOK, RequestsOK, Request, CommitReturn
  <2>2. ReturnLines(r) \in Lines
    BY <2>1, MoneyType, ReturnLinesValue
  <2>3. journal' \in Seq(SaleEntry) /\ ledger' \in [Sale -> Lines]
    BY <1>7, <2>1, <2>2, PostType DEF CommitReturn
  <2>4. tx' \in [Tx -> Request]
    BY <1>7 DEF CommitReturn, Finish, NoRequest, Request, TypeOK
  <2>5. returns' \in [Key -> Row] /\ returned' \in [Sale -> Nat]
    BY <1>7, <2>1 DEF CommitReturn, Row, TypeOK
  <2>6. stock' \in Nat /\ moved' \in [Sale -> Int]
    BY <1>7, <2>1 DEF CommitReturn, Move, TypeOK
  <2>7. TypeOK'
    BY <1>7, <2>3, <2>4, <2>5, <2>6 DEF CommitReturn, TypeOK
  <2>8. RequestsOK'
    BY <1>7, <2>1 DEF CommitReturn, Finish, NoRequest, TypeOK, RequestsOK
  <2> QED
    BY <2>7, <2>8
<1>8. ASSUME NEW t \in Tx, CommitCancel(t)
      PROVE  Inv1'
  <2> DEFINE r == tx[t]
  <2>1. r \in Request /\ r.sale \in Sale
    BY <1>8 DEF TypeOK, RequestsOK, CommitCancel
  <2>2. sale[r.sale].qty \in Nat /\ sale[r.sale] \in SaleRow
    BY <2>1 DEF TypeOK, SaleRow
  <2>3. PICK i \in PostedEntries(journal, r.sale) :
           /\ journal' = ReverseEntry(journal, i)
           /\ ledger' = [ledger EXCEPT ![r.sale] = AddLines(@, SwapLines(journal[i].lines))]
    BY <1>8 DEF CommitCancel
  <2>4. i \in 1..Len(journal)
    BY DEF PostedEntries
  <2>5. journal' \in Seq(SaleEntry) /\ SwapLines(journal[i].lines) \in Lines
    <3>1. journal[i] \in SaleEntry
      BY <2>4 DEF TypeOK
    <3>2. journal[i].lines \in Lines
      BY <3>1 DEF SaleEntry, EntryOf
    <3> QED
      BY <2>3, <2>4, <3>2, ReverseEntryType, SwapLinesType DEF TypeOK, SaleEntry
  <2>6. ledger' \in [Sale -> Lines]
    <3>1. AddLines(ledger[r.sale], SwapLines(journal[i].lines)) \in Lines
      BY <2>1, <2>5, AddLinesType DEF TypeOK
    <3> QED
      BY <2>3, <3>1 DEF TypeOK
  <2>7. tx' \in [Tx -> Request]
    BY <1>8 DEF CommitCancel, Finish, NoRequest, Request, TypeOK
  <2>8. stock' \in Nat /\ moved' \in [Sale -> Int]
    BY <1>8, <2>1, <2>2 DEF CommitCancel, Move, TypeOK
  <2>9. sale' \in [Sale -> SaleRow]
    BY <1>8, <2>1, <2>2 DEF CommitCancel, SaleRow, TypeOK
  <2>10. TypeOK'
    BY <1>8, <2>5, <2>6, <2>7, <2>8, <2>9 DEF CommitCancel, TypeOK
  <2>11. RequestsOK'
    BY <1>8, <2>1, <2>2 DEF CommitCancel, Finish, NoRequest, TypeOK, RequestsOK, SaleRow
  <2> QED
    BY <2>10, <2>11
<1>9. ASSUME NEW t \in Tx, RolledBack(t)
      PROVE  Inv1'
  <2>1. TypeOK'
    BY <1>9 DEF RolledBack, Finish, NoRequest, Request, TypeOK, rows, books
  <2>2. RequestsOK'
    BY <1>9 DEF RolledBack, Finish, NoRequest, TypeOK, RequestsOK, rows
  <2> QED
    BY <2>1, <2>2
<1>10. CASE ClosePeriod \/ ReopenPeriod
  BY <1>10 DEF ClosePeriod, ReopenPeriod, TypeOK, RequestsOK, rows, books
<1>11. CASE UNCHANGED vars
  BY <1>11 DEF vars, TypeOK, RequestsOK, rows, books
<1> QED
  BY <1>1, <1>2, <1>3, <1>4, <1>5, <1>6, <1>7, <1>8, <1>9, <1>10, <1>11
     DEF Next, Refuse, Replay, Lose

\* Every variable keeps its type; in particular stock never becomes negative,
\* whatever requests run at the same time (the guarded UPDATE of recordMovement).
THEOREM TypeCorrect == Spec => []TypeOK
<1>1. Spec => []Inv1
  BY InitInv1, StepInv1, PTL DEF Spec
<1> QED
  BY <1>1, PTL DEF Inv1

-----------------------------------------------------------------------------
\* A key no sale was recorded for has no payment, return, movement or entry.
Fresh(s) ==
    /\ sale[s].qty = 0 /\ paid[s] = 0 /\ returned[s] = 0 /\ moved[s] = 0
    /\ \A a \in Account : ledger[s][a] = 0

\* The conjunct of BooksMatchSale for one sale.
Books(s) ==
    /\ moved[s] = -Returnable(s)
    /\ ledger[s]["cash"] + ledger[s]["ar"] = UnitPrice * Returnable(s)
    /\ ledger[s]["revenue"] = -(UnitPrice * Returnable(s))
    /\ ledger[s]["inventory"] = -(UnitCost * Returnable(s))
    /\ ledger[s]["cogs"] = UnitCost * Returnable(s)

\* Money given back for a sale: collected by its payments and no longer in cash.
Refunded(s) == paid[s] - ledger[s]["cash"]

\* NeverRefundedMoreThanPaid is not inductive: a return pays out in cash what
\* exceeds the open balance, so the money given back is bounded by the goods
\* returned less that balance.
RefundBound(s) ==
    Refunded(s) <= 0 \/ Refunded(s) <= UnitPrice * returned[s] - Outstanding(s)

\* The inductive invariant of one sale.
SaleInv(s) ==
    /\ paid[s] <= Total(s)
    /\ returned[s] <= sale[s].qty
    /\ sale[s].status = "none" => Fresh(s)
    /\ sale[s].status = "completed" => Books(s) /\ RefundBound(s)

\* The inductive invariant of the rows and the books.
SalesInv == \A s \in Sale : SaleInv(s)

\* A step that changes no row of a sale keeps its invariant.
LEMMA SaleFrame ==
  ASSUME NEW s \in Sale, SaleInv(s),
         sale'[s] = sale[s], paid'[s] = paid[s], returned'[s] = returned[s],
         moved'[s] = moved[s], ledger'[s] = ledger[s]
  PROVE  SaleInv(s)'
  BY DEF SaleInv, Fresh, Books, Refunded, RefundBound, Total, Outstanding, Returnable

\* createSale establishes the invariant of its sale.
LEMMA CreateSale ==
  ASSUME Inv1, NEW s \in Sale, SaleInv(s), NEW t \in Tx, CommitCreate(t), tx[t].sale = s
  PROVE  SaleInv(s)'
<1> DEFINE r == tx[t]
           total == UnitPrice * r.qty
           cost == UnitCost * r.qty
<1>1. r \in Request /\ s \in Sale /\ r.qty \in Nat /\ r.amount \in Nat
  BY DEF Inv1, TypeOK, RequestsOK, Request, CommitCreate
<1>2. sale[s].status = "none" /\ r.amount <= total
  <2>1. ~Recorded(r) /\ ~Rejected(r) /\ r.op = "create"
    BY DEF CommitCreate, Goes
  <2>2. total \in Nat
    BY <1>1, MulNat, SalesAssumption
  <2> QED
    BY <1>1, <2>1, <2>2 DEF Recorded, Rejected
<1>3. Fresh(s)
  BY <1>2 DEF SaleInv
<1>4. /\ sale'[s] = [status |-> "completed", qty |-> r.qty, invoice |-> invoiceSeq]
      /\ paid'[s] = r.amount /\ returned'[s] = 0 /\ moved'[s] = -r.qty
  BY <1>1, <1>3 DEF CommitCreate, Move, Fresh, Inv1, TypeOK
<1>5. ledger'[s] = AddLines(ledger[s], SaleLines(r))
  BY <1>1 DEF CommitCreate, Post, Inv1, TypeOK
<1>6. \A a \in Account : ledger'[s][a] = SaleLines(r)[a]
  <2>1. ledger[s] \in Lines /\ SaleLines(r) \in Lines
    BY <1>1, SaleLinesValue DEF Inv1, TypeOK
  <2>2. \A a \in Account : ledger'[s][a] = ledger[s][a] + SaleLines(r)[a]
    BY <1>5, <2>1, AddLinesType
  <2> QED
    BY <1>3, <2>1, <2>2 DEF Fresh, Lines
<1>7. /\ ledger'[s]["cash"] = r.amount
      /\ ledger'[s]["ar"] = total - r.amount
      /\ ledger'[s]["revenue"] = -total
      /\ ledger'[s]["inventory"] = -cost
      /\ ledger'[s]["cogs"] = cost
  BY <1>1, <1>6, SaleLinesValue DEF Account
<1>8. total \in Nat /\ cost \in Nat
  BY <1>1, MulNat, SalesAssumption
<1>9. /\ Total(s)' = total /\ Returnable(s)' = r.qty
      /\ Refunded(s)' = 0
  BY <1>1, <1>4, <1>7 DEF Total, Returnable, Refunded
<1> HIDE DEF total, cost
<1>10. Books(s)'
  BY <1>1, <1>4, <1>7, <1>8, <1>9 DEF Books, total, cost
<1>11. RefundBound(s)'
  BY <1>9 DEF RefundBound
<1> QED
  BY <1>1, <1>2, <1>4, <1>8, <1>9, <1>10, <1>11 DEF SaleInv

\* recordPayment keeps the invariant of its sale, even a cancelled one.
LEMMA PayOnSale ==
  ASSUME Inv1, NEW s \in Sale, SaleInv(s), NEW t \in Tx, CommitPay(t), tx[t].sale = s
  PROVE  SaleInv(s)'
<1> DEFINE r == tx[t]
<1>1. r \in Request /\ s \in Sale /\ r.amount \in Nat /\ sale[s].status # "none"
  BY DEF Inv1, TypeOK, RequestsOK, Request, CommitPay
<1>2. /\ sale'[s] = sale[s] /\ returned'[s] = returned[s] /\ moved'[s] = moved[s]
      /\ paid'[s] = paid[s] + r.amount
  BY <1>1 DEF CommitPay, Inv1, TypeOK
<1>3. /\ Total(s) \in Nat /\ paid[s] \in Nat /\ returned[s] \in Nat
      /\ Outstanding(s) \in Int /\ UnitPrice * returned[s] \in Nat
      /\ \A a \in Account : ledger[s][a] \in Int
  BY <1>1, MoneyType, MulNat, SalesAssumption DEF Inv1, TypeOK, Lines
<1>4. r.amount <= Outstanding(s)
  BY <1>1, <1>3 DEF CommitPay, Goes, Rejected
<1>5. /\ ledger'[s]["cash"] = ledger[s]["cash"] + r.amount
      /\ ledger'[s]["ar"] = ledger[s]["ar"] - r.amount
      /\ \A a \in Account \ {"cash", "ar"} : ledger'[s][a] = ledger[s][a]
  <2>1. ledger'[s] = AddLines(ledger[s], PaymentLines(r))
    BY <1>1 DEF CommitPay, Post, Inv1, TypeOK
  <2>2. ledger[s] \in Lines /\ PaymentLines(r) \in Lines
    BY <1>1, PaymentLinesValue DEF Inv1, TypeOK
  <2>3. \A a \in Account : ledger'[s][a] = ledger[s][a] + PaymentLines(r)[a]
    BY <2>1, <2>2, AddLinesType
  <2> QED
    BY <1>1, <1>3, <2>3, PaymentLinesValue DEF Account
<1>6. /\ Total(s)' = Total(s) /\ Returnable(s)' = Returnable(s)
      /\ Outstanding(s)' = Outstanding(s) - r.amount
      /\ Refunded(s)' = Refunded(s)
  BY <1>1, <1>2, <1>3, <1>5 DEF Total, Returnable, Outstanding, Refunded, Account
<1>7. Books(s) => Books(s)'
  BY <1>1, <1>2, <1>3, <1>5, <1>6 DEF Books, Account
<1>8. RefundBound(s) => RefundBound(s)'
  BY <1>1, <1>2, <1>3, <1>6 DEF RefundBound, Refunded, Account
<1>9. (paid[s] <= Total(s))'
  BY <1>1, <1>2, <1>3, <1>4, <1>6 DEF Outstanding
<1> QED
  BY <1>1, <1>2, <1>7, <1>8, <1>9 DEF SaleInv

\* createReturn keeps the invariant of its sale, even a cancelled one.
LEMMA ReturnOnSale ==
  ASSUME Inv1, NEW s \in Sale, SaleInv(s), NEW t \in Tx, CommitReturn(t), tx[t].sale = s
  PROVE  SaleInv(s)'
<1> DEFINE r == tx[t]
           total == UnitPrice * r.qty
           cost == UnitCost * r.qty
           toAR == RefundToAR(r)
<1>1. r \in Request /\ s \in Sale /\ r.qty \in Nat /\ sale[s].status # "none"
  BY DEF Inv1, TypeOK, RequestsOK, Request, CommitReturn
<1>2. /\ sale'[s] = sale[s] /\ paid'[s] = paid[s] /\ moved'[s] = moved[s] + r.qty
      /\ returned'[s] = returned[s] + r.qty
  BY <1>1 DEF CommitReturn, Move, Inv1, TypeOK
<1>3. /\ Total(s) \in Nat /\ paid[s] \in Nat /\ returned[s] \in Nat
      /\ sale[s].qty \in Nat /\ moved[s] \in Int
      /\ Outstanding(s) \in Int /\ OutstandingAR(s) \in Nat
      /\ \A a \in Account : ledger[s][a] \in Int
  BY <1>1, MoneyType DEF Inv1, TypeOK, Lines, SaleRow
<1>4. total \in Nat /\ cost \in Nat /\ toAR \in Nat
  BY <1>1, MulNat, MoneyType, SalesAssumption DEF Inv1
<1>5. r.qty <= Returnable(s)
  BY <1>1, <1>3 DEF CommitReturn, Goes, Rejected, Returnable
<1>6. /\ ledger'[s]["cash"] = ledger[s]["cash"] + toAR - total
      /\ ledger'[s]["ar"] = ledger[s]["ar"] - toAR
      /\ ledger'[s]["revenue"] = ledger[s]["revenue"] + total
      /\ ledger'[s]["inventory"] = ledger[s]["inventory"] + cost
      /\ ledger'[s]["cogs"] = ledger[s]["cogs"] - cost
  <2>1. ledger'[s] = AddLines(ledger[s], ReturnLines(r))
    BY <1>1 DEF CommitReturn, Post, Inv1, TypeOK
  <2>2. ledger[s] \in Lines /\ ReturnLines(r) \in Lines
    BY <1>1, <1>4, ReturnLinesValue DEF Inv1, TypeOK
  <2>3. \A a \in Account : ledger'[s][a] = ledger[s][a] + ReturnLines(r)[a]
    BY <2>1, <2>2, AddLinesType
  <2>4. /\ ReturnLines(r)["cash"] = toAR - total
        /\ ReturnLines(r)["ar"] = -toAR
        /\ ReturnLines(r)["revenue"] = total
        /\ ReturnLines(r)["inventory"] = cost
        /\ ReturnLines(r)["cogs"] = -cost
    BY <1>1, <1>4, ReturnLinesValue
  <2> HIDE DEF total, cost, toAR
  <2> QED
    BY <1>3, <1>4, <2>3, <2>4 DEF Account
<1>7. /\ Total(s)' = Total(s) /\ Returnable(s)' = Returnable(s) - r.qty
      /\ Outstanding(s)' = Outstanding(s) /\ Returnable(s) \in Int
  BY <1>1, <1>2, <1>3 DEF Total, Returnable, Outstanding
<1>8. /\ UnitPrice * Returnable(s)' = UnitPrice * Returnable(s) - total
      /\ UnitCost * Returnable(s)' = UnitCost * Returnable(s) - cost
      /\ UnitPrice * returned'[s] = UnitPrice * returned[s] + total
  BY <1>1, <1>2, <1>3, <1>7, MulAdd, MulSub, SalesAssumption
<1>9. /\ UnitPrice * Returnable(s) \in Int /\ UnitCost * Returnable(s) \in Int
      /\ UnitPrice * returned[s] \in Nat
  <2>1. /\ UnitPrice \in Int /\ UnitPrice \in Nat /\ UnitCost \in Int
        /\ Returnable(s) \in Int /\ returned[s] \in Nat
    BY <1>3, <1>7, SalesAssumption
  <2> QED
    BY <2>1, MulInt, MulNat, Zenon
<1>10. /\ OutstandingAR(s) = Outstanding(s) \/ (OutstandingAR(s) = 0 /\ Outstanding(s) <= 0)
       /\ toAR = total \/ toAR = OutstandingAR(s)
  BY <1>3, <1>4 DEF OutstandingAR, RefundToAR
<1> HIDE DEF total, cost, toAR
<1>11. Books(s) => Books(s)'
  BY <1>1, <1>2, <1>3, <1>4, <1>6, <1>7, <1>8, <1>9 DEF Books, Account
<1>12. Outstanding(s) >= 0
  BY <1>3 DEF SaleInv, Outstanding
<1>13. RefundBound(s) => RefundBound(s)'
  BY <1>2, <1>3, <1>4, <1>6, <1>7, <1>8, <1>9, <1>10, <1>12 DEF RefundBound, Refunded, Account
<1>14. (paid[s] <= Total(s))' /\ (returned[s] <= sale[s].qty)'
  BY <1>1, <1>2, <1>3, <1>5, <1>7 DEF SaleInv, Returnable
<1> QED
  BY <1>1, <1>2, <1>11, <1>13, <1>14 DEF SaleInv

\* cancelSale keeps the invariant of its sale, whichever entry it reverses.
LEMMA CancelOfSale ==
  ASSUME Inv1, NEW s \in Sale, SaleInv(s), NEW t \in Tx, CommitCancel(t), tx[t].sale = s
  PROVE  SaleInv(s)'
<1>1. /\ sale'[s].status = "cancelled" /\ sale'[s].qty = sale[s].qty
      /\ paid'[s] = paid[s] /\ returned'[s] = returned[s]
  BY DEF CommitCancel, Inv1, TypeOK, SaleRow
<1> QED
  BY <1>1 DEF SaleInv, Total

\* The invariant holds of an empty database.
LEMMA InitSalesInv == Init => SalesInv
<1> SUFFICES ASSUME Init, NEW s \in Sale
             PROVE  SaleInv(s)
  BY DEF SalesInv
<1>1. sale[s] = NoSale /\ paid[s] = 0 /\ returned[s] = 0 /\ moved[s] = 0
  BY DEF Init
<1>2. \A a \in Account : ledger[s][a] = 0
  BY DEF Init, LinesOf
<1>3. UnitPrice * 0 = 0
  BY SalesAssumption
<1> QED
  BY <1>1, <1>2, <1>3 DEF SaleInv, Fresh, Total, NoSale

\* Every step keeps the invariant of every sale.
LEMMA StepSalesInv == Inv1 /\ SalesInv /\ [Next]_vars => SalesInv'
<1> SUFFICES ASSUME Inv1, SalesInv, [Next]_vars, NEW s \in Sale
             PROVE  SaleInv(s)'
  BY DEF SalesInv
<1>1. SaleInv(s)
  BY DEF SalesInv
<1>2. ASSUME NEW t \in Tx, CommitCreate(t)
      PROVE  SaleInv(s)'
  <2>1. CASE s = tx[t].sale
    BY <1>1, <1>2, <2>1, CreateSale
  <2>2. CASE s # tx[t].sale
    BY <1>1, <1>2, <2>2, SaleFrame DEF CommitCreate, Move, Post, Inv1, TypeOK
  <2> QED
    BY <2>1, <2>2
<1>3. ASSUME NEW t \in Tx, CommitPay(t)
      PROVE  SaleInv(s)'
  <2>1. CASE s = tx[t].sale
    BY <1>1, <1>3, <2>1, PayOnSale
  <2>2. CASE s # tx[t].sale
    BY <1>1, <1>3, <2>2, SaleFrame DEF CommitPay, Post, Inv1, TypeOK
  <2> QED
    BY <2>1, <2>2
<1>4. ASSUME NEW t \in Tx, CommitReturn(t)
      PROVE  SaleInv(s)'
  <2>1. CASE s = tx[t].sale
    BY <1>1, <1>4, <2>1, ReturnOnSale
  <2>2. CASE s # tx[t].sale
    BY <1>1, <1>4, <2>2, SaleFrame DEF CommitReturn, Move, Post, Inv1, TypeOK
  <2> QED
    BY <2>1, <2>2
<1>5. ASSUME NEW t \in Tx, CommitCancel(t)
      PROVE  SaleInv(s)'
  <2>1. CASE s = tx[t].sale
    BY <1>1, <1>5, <2>1, CancelOfSale
  <2>2. CASE s # tx[t].sale
    BY <1>1, <1>5, <2>2, SaleFrame DEF CommitCancel, Move, Inv1, TypeOK
  <2> QED
    BY <2>1, <2>2
<1>6. CASE UNCHANGED <<rows, moved, books>>
  BY <1>1, <1>6, SaleFrame DEF rows, books
<1> QED
  BY <1>2, <1>3, <1>4, <1>5, <1>6
     DEF Next, BeginCreate, BeginPay, BeginReturn, BeginCancel, Begin, Refuse, Replay, Lose,
         RolledBack, ClosePeriod, ReopenPeriod, vars

\* The two invariants hold in every state.
LEMMA Invariance == Spec => [](Inv1 /\ SalesInv)
  BY InitInv1, StepInv1, InitSalesInv, StepSalesInv, PTL DEF Spec

\* The payments of a sale never exceed its total, for any number of concurrent
\* requests: recordPaymentCore checks under the lock on the sale row.
THEOREM PaidWithinTotal == Spec => []NeverOverpaid
<1>1. SalesInv => NeverOverpaid
  BY DEF SalesInv, SaleInv, NeverOverpaid
<1> QED
  BY <1>1, Invariance, PTL

\* The returns of a sale never exceed what was sold, for any number of
\* concurrent requests: createReturn checks under the lock on the sale items.
THEOREM ReturnedWithinSold == Spec => []NeverOverReturned
<1>1. SalesInv => NeverOverReturned
  BY DEF SalesInv, SaleInv, NeverOverReturned
<1> QED
  BY <1>1, Invariance, PTL

\* A sale is never paid or returned beyond what it is.
THEOREM SaleIsTheLimit == Spec => []WithinSale
  BY PaidWithinTotal, ReturnedWithinSold, PTL DEF WithinSale

\* The journal lines of a completed sale always agree with its rows.
THEOREM BooksFollowRows == Spec => []BooksMatchSale
<1>1. SalesInv => BooksMatchSale
  BY DEF SalesInv, SaleInv, Books, Returnable, BooksMatchSale
<1> QED
  BY <1>1, Invariance, PTL

\* No completed sale gives back more money than it took in.
THEOREM RefundsWithinPayments == Spec => []NeverRefundedMoreThanPaid
<1>1. Inv1 /\ SalesInv => NeverRefundedMoreThanPaid
  <2> SUFFICES ASSUME Inv1, SalesInv, NEW s \in Sale, sale[s].status = "completed"
               PROVE  ledger[s]["cash"] >= 0
    BY DEF NeverRefundedMoreThanPaid
  <2>1. /\ paid[s] \in Nat /\ returned[s] \in Nat /\ sale[s].qty \in Nat
        /\ ledger[s]["cash"] \in Int /\ Total(s) \in Nat
    BY MoneyType DEF Inv1, TypeOK, SaleRow, Lines, Account
  <2>2. UnitPrice * returned[s] <= Total(s) /\ UnitPrice * returned[s] \in Nat
    BY <2>1, MulMono, MulNat, SalesAssumption DEF SalesInv, SaleInv, Total
  <2>3. RefundBound(s)
    BY DEF SalesInv, SaleInv
  <2> QED
    BY <2>1, <2>2, <2>3 DEF RefundBound, Refunded, Outstanding
<1> QED
  BY <1>1, Invariance, PTL

-----------------------------------------------------------------------------
\* The inductive form of ReversedOnce.
JournalInv == UndoneOnce(journal) /\ PointsBack(journal)

\* Posting an entry keeps the journal sound.
LEMMA PostSound ==
  ASSUME TypeOK, JournalInv, NEW s \in Sale, NEW kind \in {"sale", "payment", "return"},
         NEW l \in Lines, Post(s, kind, l)
  PROVE  JournalInv' /\ Continues(journal, journal')
  BY PostEntrySound DEF TypeOK, SaleEntry, JournalInv, Post

\* Every step keeps the journal sound, and only appends to it or marks an entry.
LEMMA StepJournal ==
  ASSUME Inv1, JournalInv, [Next]_vars
  PROVE  JournalInv' /\ Continues(journal, journal')
<1>1. ASSUME NEW t \in Tx, CommitCreate(t)
      PROVE  JournalInv' /\ Continues(journal, journal')
  <2>1. tx[t] \in Request /\ tx[t].sale \in Sale
    BY <1>1 DEF Inv1, TypeOK, RequestsOK, CommitCreate
  <2>2. SaleLines(tx[t]) \in Lines
    BY <2>1, SaleLinesValue
  <2> QED
    BY <1>1, <2>1, <2>2, PostSound DEF CommitCreate, Inv1
<1>2. ASSUME NEW t \in Tx, CommitPay(t)
      PROVE  JournalInv' /\ Continues(journal, journal')
  <2>1. tx[t] \in Request /\ tx[t].sale \in Sale
    BY <1>2 DEF Inv1, TypeOK, RequestsOK, CommitPay
  <2>2. PaymentLines(tx[t]) \in Lines
    BY <2>1, PaymentLinesValue DEF Request
  <2> QED
    BY <1>2, <2>1, <2>2, PostSound DEF CommitPay, Inv1
<1>3. ASSUME NEW t \in Tx, CommitReturn(t)
      PROVE  JournalInv' /\ Continues(journal, journal')
  <2>1. tx[t] \in Request /\ tx[t].sale \in Sale
    BY <1>3 DEF Inv1, TypeOK, RequestsOK, CommitReturn
  <2>2. ReturnLines(tx[t]) \in Lines
    BY <2>1, MoneyType, ReturnLinesValue DEF Inv1
  <2> QED
    BY <1>3, <2>1, <2>2, PostSound DEF CommitReturn, Inv1
<1>4. ASSUME NEW t \in Tx, CommitCancel(t)
      PROVE  JournalInv' /\ Continues(journal, journal')
  <2>1. PICK i \in PostedEntries(journal, tx[t].sale) : journal' = ReverseEntry(journal, i)
    BY <1>4 DEF CommitCancel
  <2>2. i \in 1..Len(journal) /\ journal[i].status = "posted"
    BY DEF PostedEntries
  <2> QED
    BY <2>1, <2>2, ReverseEntrySound DEF Inv1, TypeOK, SaleEntry, JournalInv
<1>5. CASE journal' = journal
  BY <1>5 DEF JournalInv, Continues, Inv1, TypeOK
<1> QED
  BY <1>1, <1>2, <1>3, <1>4, <1>5
     DEF Next, BeginCreate, BeginPay, BeginReturn, BeginCancel, Begin, Refuse, Replay, Lose,
         RolledBack, ClosePeriod, ReopenPeriod, vars, books

\* The journal is sound in every state.
LEMMA JournalInvariance == Spec => [](Inv1 /\ JournalInv)
<1>1. Init => JournalInv
  BY EmptyJournalSound DEF Init, JournalInv
<1> QED
  BY <1>1, InitInv1, StepInv1, StepJournal, PTL DEF Spec

\* However many cancellations of a sale run, no entry is undone twice: both
\* re-read the entry under the lock on the sale row.
THEOREM CancellationsUndoOnce == Spec => []ReversedOnce
<1>1. JournalInv => ReversedOnce
  BY DEF JournalInv, ReversedOnce
<1> QED
  BY <1>1, JournalInvariance, PTL

\* No step edits or drops an entry of the journal.
THEOREM JournalOnlyGrows == Spec => HistoryKept
<1>1. Inv1 /\ JournalInv /\ [Next]_vars => [Continues(journal, journal')]_vars
  BY StepJournal
<1> QED
  BY <1>1, JournalInvariance, PTL DEF Spec, HistoryKept

-----------------------------------------------------------------------------
(***************************************************************************)
(* A key takes effect once: the count of entries and the count of rows are *)
(* kept equal by every step, for a commit adds one entry and one row, or   *)
(* none of either.                                                         *)
(***************************************************************************)

\* The keys recorded for sale s.
KeysOf(table, s) == {k \in Key : table[k].sale = s}

\* As many entries of the kind as keys, and finitely many of both.
Matches(j, table, s, kind) ==
    /\ IsFiniteSet(KeysOf(table, s))
    /\ Cardinality(PostedAs(j, s, kind)) = Cardinality(KeysOf(table, s))

\* The inductive invariant: a sale that is not recorded has no entry.
KeyInv ==
    \A s \in Sale :
        /\ Matches(journal, payments, s, "payment")
        /\ Matches(journal, returns, s, "return")
        /\ Cardinality(PostedAs(journal, s, "sale")) <= 1
        /\ sale[s].status = "none" => PostedAs(journal, s, "sale") = {}

-----------------------------------------------------------------------------
\* Recording an unused key adds it to the keys of its sale, and to no others.
LEMMA RecordAdds ==
  ASSUME NEW table, NEW next, NEW k \in Key, NEW s \in Sale,
         table[k].sale \notin Sale, IsFiniteSet(KeysOf(table, s)),
         next[k].sale = s, \A m \in Key \ {k} : next[m] = table[m]
  PROVE  /\ IsFiniteSet(KeysOf(next, s))
         /\ Cardinality(KeysOf(next, s)) = Cardinality(KeysOf(table, s)) + 1
         /\ \A d \in Sale \ {s} : KeysOf(next, d) = KeysOf(table, d)
<1>1. KeysOf(next, s) = KeysOf(table, s) \cup {k} /\ k \notin KeysOf(table, s)
  BY DEF KeysOf
<1>2. \A d \in Sale \ {s} : KeysOf(next, d) = KeysOf(table, d)
  BY DEF KeysOf
<1>3. /\ IsFiniteSet(KeysOf(table, s) \cup {k})
      /\ Cardinality(KeysOf(table, s) \cup {k}) = Cardinality(KeysOf(table, s)) + 1
  BY <1>1, FS_AddElement
<1> QED
  BY <1>1, <1>2, <1>3

-----------------------------------------------------------------------------
\* The invariant holds of an empty database.
LEMMA InitKeyInv == Init => KeyInv
<1> SUFFICES ASSUME Init, NEW s \in Sale
             PROVE  /\ Matches(journal, payments, s, "payment")
                    /\ Matches(journal, returns, s, "return")
                    /\ PostedAs(journal, s, "sale") = {}
                    /\ Cardinality(PostedAs(journal, s, "sale")) <= 1
  BY DEF KeyInv
<1>1. \A kind : PostedAs(journal, s, kind) = {}
  BY DEF Init, PostedAs
<1>2. KeysOf(payments, s) = {} /\ KeysOf(returns, s) = {}
  BY SalesAssumption DEF Init, KeysOf, NoRow
<1> QED
  BY <1>1, <1>2, FS_EmptySet DEF Matches

\* createSale posts the only entry of its kind.
LEMMA CreateKeepsKeys ==
  ASSUME Inv1, KeyInv, NEW t \in Tx, CommitCreate(t)
  PROVE  KeyInv'
<1>1. PICK s \in Sale : s = tx[t].sale
  BY DEF Inv1, RequestsOK, CommitCreate
<1>2. /\ journal' = PostEntry(journal, s, "sale", SaleLines(tx[t])) /\ journal \in Seq(SaleEntry)
      /\ payments' = payments /\ returns' = returns
      /\ sale[s].status = "none" /\ \A d \in Sale \ {s} : sale'[d] = sale[d]
      /\ sale'[s].status = "completed"
  BY <1>1 DEF CommitCreate, Post, Goes, Recorded, Inv1, TypeOK
<1> DEFINE jj == PostEntry(journal, s, "sale", SaleLines(tx[t]))
<1>3. /\ Cardinality(PostedAs(jj, s, "sale")) = Cardinality(PostedAs(journal, s, "sale")) + 1
      /\ \A d \in Sale : \A other : d # s \/ other # "sale" =>
            PostedAs(jj, d, other) = PostedAs(journal, d, other)
  BY <1>2, PostAdds
<1>4. Cardinality(PostedAs(journal, s, "sale")) = 0
  BY <1>2, FS_EmptySet DEF KeyInv
<1>5. journal' = jj
  BY <1>2
<1> HIDE DEF jj
<1> QED
  BY <1>2, <1>3, <1>4, <1>5 DEF KeyInv, Matches

\* recordPayment adds one payment and one entry.
LEMMA PayKeepsKeys ==
  ASSUME Inv1, KeyInv, NEW t \in Tx, CommitPay(t)
  PROVE  KeyInv'
<1>1. PICK s \in Sale, k \in Key, n \in Nat : s = tx[t].sale /\ k = tx[t].key /\ n = tx[t].amount
  BY DEF Inv1, TypeOK, RequestsOK, Request, CommitPay
<1> DEFINE jj == PostEntry(journal, s, "payment", PaymentLines(tx[t]))
           pp == [payments EXCEPT ![k] = [sale |-> s, n |-> n]]
<1>2. /\ journal' = jj /\ journal \in Seq(SaleEntry)
      /\ payments' = pp /\ returns' = returns /\ sale' = sale
      /\ payments[k] = NoRow /\ payments \in [Key -> Row]
  BY <1>1 DEF CommitPay, Post, Goes, Recorded, Inv1, TypeOK
<1>3. /\ Cardinality(PostedAs(jj, s, "payment")) = Cardinality(PostedAs(journal, s, "payment")) + 1
      /\ \A d \in Sale : \A other : d # s \/ other # "payment" =>
            PostedAs(jj, d, other) = PostedAs(journal, d, other)
  BY <1>2, PostAdds
<1>4. IsFiniteSet(KeysOf(payments, s))
  BY DEF KeyInv, Matches
<1>5. /\ payments[k].sale \notin Sale
      /\ pp[k].sale = s /\ \A m \in Key \ {k} : pp[m] = payments[m]
  BY <1>2, SalesAssumption DEF NoRow
<1> HIDE DEF jj, pp
<1>6. /\ IsFiniteSet(KeysOf(pp, s))
      /\ Cardinality(KeysOf(pp, s)) = Cardinality(KeysOf(payments, s)) + 1
      /\ \A d \in Sale \ {s} : KeysOf(pp, d) = KeysOf(payments, d)
  BY <1>4, <1>5, RecordAdds
<1> QED
  BY <1>2, <1>3, <1>4, <1>6 DEF KeyInv, Matches

\* createReturn adds one return and one entry.
LEMMA ReturnKeepsKeys ==
  ASSUME Inv1, KeyInv, NEW t \in Tx, CommitReturn(t)
  PROVE  KeyInv'
<1>1. PICK s \in Sale, k \in Key, n \in Nat : s = tx[t].sale /\ k = tx[t].key /\ n = tx[t].qty
  BY DEF Inv1, TypeOK, RequestsOK, Request, CommitReturn
<1> DEFINE jj == PostEntry(journal, s, "return", ReturnLines(tx[t]))
           rr == [returns EXCEPT ![k] = [sale |-> s, n |-> n]]
<1>2. /\ journal' = jj /\ journal \in Seq(SaleEntry)
      /\ returns' = rr /\ payments' = payments /\ sale' = sale
      /\ returns[k] = NoRow /\ returns \in [Key -> Row]
  BY <1>1 DEF CommitReturn, Post, Goes, Recorded, Inv1, TypeOK
<1>3. /\ Cardinality(PostedAs(jj, s, "return")) = Cardinality(PostedAs(journal, s, "return")) + 1
      /\ \A d \in Sale : \A other : d # s \/ other # "return" =>
            PostedAs(jj, d, other) = PostedAs(journal, d, other)
  BY <1>2, PostAdds
<1>4. IsFiniteSet(KeysOf(returns, s))
  BY DEF KeyInv, Matches
<1>5. /\ returns[k].sale \notin Sale
      /\ rr[k].sale = s /\ \A m \in Key \ {k} : rr[m] = returns[m]
  BY <1>2, SalesAssumption DEF NoRow
<1> HIDE DEF jj, rr
<1>6. /\ IsFiniteSet(KeysOf(rr, s))
      /\ Cardinality(KeysOf(rr, s)) = Cardinality(KeysOf(returns, s)) + 1
      /\ \A d \in Sale \ {s} : KeysOf(rr, d) = KeysOf(returns, d)
  BY <1>4, <1>5, RecordAdds
<1> QED
  BY <1>2, <1>3, <1>4, <1>6 DEF KeyInv, Matches

\* cancelSale adds an entry of a kind that is not counted.
LEMMA CancelKeepsKeys ==
  ASSUME Inv1, KeyInv, NEW t \in Tx, CommitCancel(t)
  PROVE  KeyInv'
<1>1. PICK i \in PostedEntries(journal, tx[t].sale) : journal' = ReverseEntry(journal, i)
  BY DEF CommitCancel
<1>2. i \in 1..Len(journal) /\ journal \in Seq(SaleEntry)
  BY DEF PostedEntries, Inv1, TypeOK
<1>3. \A s \in Sale, kind \in {"sale", "payment", "return"} :
         PostedAs(journal', s, kind) = PostedAs(journal, s, kind)
  BY <1>1, <1>2, ReverseAddsNone DEF SaleEntry
<1>4. /\ payments' = payments /\ returns' = returns
      /\ \A s \in Sale : sale'[s].status = "none" => sale[s].status = "none"
  BY DEF CommitCancel, Inv1, TypeOK, SaleRow
<1> QED
  BY <1>3, <1>4 DEF KeyInv, Matches

\* Every step keeps the invariant.
LEMMA StepKeyInv == Inv1 /\ KeyInv /\ [Next]_vars => KeyInv'
<1> SUFFICES ASSUME Inv1, KeyInv, [Next]_vars PROVE KeyInv'
  OBVIOUS
<1>1. CASE UNCHANGED <<sale, payments, returns, journal>>
  BY <1>1 DEF KeyInv, Matches, KeysOf
<1>2. \/ UNCHANGED <<sale, payments, returns, journal>>
      \/ \E t \in Tx : CommitCreate(t) \/ CommitPay(t) \/ CommitReturn(t) \/ CommitCancel(t)
  BY DEF Next, BeginCreate, BeginPay, BeginReturn, BeginCancel, Begin, Refuse, Replay, Lose,
         RolledBack, ClosePeriod, ReopenPeriod, vars, rows, books
<1> QED
  BY <1>1, <1>2, CreateKeepsKeys, PayKeepsKeys, ReturnKeepsKeys, CancelKeepsKeys

\* A key takes effect once, however often and however concurrently a request is
\* sent: a sale has as many entries of a kind as keys were recorded for it.
THEOREM KeysTakeEffectOnce == Spec => []OneEntryPerKey
<1>1. KeyInv => OneEntryPerKey
  BY DEF KeyInv, Matches, PostedAs, KeysOf, OneEntryPerKey
<1>2. Spec => [](Inv1 /\ KeyInv)
  BY InitInv1, StepInv1, InitKeyInv, StepKeyInv, PTL DEF Spec
<1> QED
  BY <1>1, <1>2, PTL

-----------------------------------------------------------------------------
(***************************************************************************)
(* Stock and invoice numbers, which a request that fails late has already  *)
(* touched when it rolls back.  The module of the integration, whose steps *)
(* touch neither, builds on these lemmas.                                  *)
(***************************************************************************)
There == {s \in Sale : sale[s].status # "none"}

\* The number drawn next is the one that is missing.
NumbersOK == invoiceSeq = Cardinality(There) + 1 /\ InvoicesGapless

GoodsInv == StockIsSumOfMovements /\ NumbersOK

\* A movement changes the stock and the movements of its sale by one amount.
LEMMA MoveKeepsStock ==
  ASSUME TypeOK, StockIsSumOfMovements, NEW s \in Sale, NEW q \in Int, Move(s, q)
  PROVE  StockIsSumOfMovements'
<1>1. /\ moved \in [Sale -> Int] /\ IsFiniteSet(Sale)
      /\ moved' = [moved EXCEPT ![s] = @ + q]
  BY SalesAssumption DEF TypeOK, Move
<1>2. SumFunction(moved') = SumFunction(moved) + q /\ SumFunction(moved) \in Int
  BY <1>1, SumMoves
<1> QED
  BY <1>2, SalesAssumption DEF Move, StockIsSumOfMovements

\* The numbers stay as they are where no sale is created.
LEMMA NumbersKept ==
  ASSUME NumbersOK, invoiceSeq' = invoiceSeq,
         \A s \in Sale : /\ sale'[s].invoice = sale[s].invoice
                         /\ sale'[s].status = "none" <=> sale[s].status = "none"
  PROVE  NumbersOK'
<1>1. There' = There
  BY DEF There
<1>2. {sale'[s].invoice : s \in There} = {sale[s].invoice : s \in There}
  BY DEF There
<1> QED
  BY <1>1, <1>2 DEF NumbersOK, InvoicesGapless, SalesThisMonth, There

\* Nothing was moved and no number drawn before the first sale.
LEMMA InitGoods == Init => GoodsInv
<1> SUFFICES ASSUME Init PROVE GoodsInv
  OBVIOUS
<1>1. StockIsSumOfMovements
  <2>1. IsFiniteSet(Sale) /\ DOMAIN moved = Sale /\ \A s \in Sale : moved[s] = 0
    BY SalesAssumption DEF Init
  <2>2. SumFunctionOnSet(moved, Sale) = 0
    BY <2>1, SumZero
  <2>3. SumFunction(moved) = SumFunctionOnSet(moved, Sale)
    BY <2>1 DEF SumFunction
  <2> QED
    BY <2>2, <2>3, SalesAssumption DEF StockIsSumOfMovements, Init
<1>2. There = {} /\ Cardinality(There) = 0
  BY FS_EmptySet DEF There, Init, NoSale
<1>3. {sale[s].invoice : s \in There} = 1..Cardinality(There)
  BY <1>2
<1>4. NumbersOK
  BY <1>2, <1>3 DEF NumbersOK, InvoicesGapless, SalesThisMonth, There, Init
<1> QED
  BY <1>1, <1>4 DEF GoodsInv

\* createSale takes the next number.
LEMMA CreateNumbers ==
  ASSUME Inv1, NumbersOK, NEW t \in Tx, CommitCreate(t)
  PROVE  NumbersOK'
<1>1. PICK s \in Sale : s = tx[t].sale
  BY DEF Inv1, RequestsOK, CommitCreate
<1>2. /\ sale[s].status = "none" /\ invoiceSeq' = invoiceSeq + 1
      /\ sale'[s].status = "completed" /\ sale'[s].invoice = invoiceSeq
      /\ \A d \in Sale : d # s => sale'[d] = sale[d]
  BY <1>1 DEF CommitCreate, Goes, Recorded, Inv1, TypeOK
<1>3. s \notin There /\ There' = There \cup {s}
  BY <1>2 DEF There
<1>4. IsFiniteSet(There) /\ Cardinality(There) \in Nat
  BY SalesAssumption, FS_Subset, FS_CardinalityType DEF There
<1>5. Cardinality(There \cup {s}) = Cardinality(There) + 1
  BY <1>3, <1>4, FS_AddElement
<1>6. /\ invoiceSeq = Cardinality(There) + 1
      /\ {sale[d].invoice : d \in There} = 1..Cardinality(There)
  BY DEF NumbersOK, InvoicesGapless, SalesThisMonth, There
<1>7. {sale'[d].invoice : d \in There} = {sale[d].invoice : d \in There}
  BY <1>2, <1>3 DEF There
<1>8. {sale'[d].invoice : d \in There \cup {s}}
         = {sale'[d].invoice : d \in There} \cup {invoiceSeq}
  BY <1>2
<1>9. 1..(Cardinality(There) + 1) = 1..Cardinality(There) \cup {Cardinality(There) + 1}
  BY <1>4
<1>10. {sale'[d].invoice : d \in There'} = 1..Cardinality(There')
  BY <1>3, <1>5, <1>6, <1>7, <1>8, <1>9
<1>11. invoiceSeq' = Cardinality(There') + 1
  BY <1>2, <1>3, <1>5, <1>6
<1> QED
  BY <1>10, <1>11 DEF NumbersOK, InvoicesGapless, SalesThisMonth, There

\* Every step of a sale keeps stock and numbers.
LEMMA StepGoods == Inv1 /\ GoodsInv /\ [Next]_vars => GoodsInv'
<1> SUFFICES ASSUME Inv1, GoodsInv, [Next]_vars PROVE GoodsInv'
  OBVIOUS
<1> USE DEF GoodsInv
<1>1. TypeOK
  BY DEF Inv1
<1>2. ASSUME NEW t \in Tx, CommitCreate(t) PROVE GoodsInv'
  <2>1. /\ tx[t].sale \in Sale /\ tx[t].qty \in Nat /\ Move(tx[t].sale, -tx[t].qty)
    BY <1>2 DEF Inv1, TypeOK, RequestsOK, Request, CommitCreate
  <2> QED
    BY <1>1, <1>2, <2>1, MoveKeepsStock, CreateNumbers
<1>3. ASSUME NEW t \in Tx, CommitReturn(t) PROVE GoodsInv'
  <2>1. /\ tx[t].sale \in Sale /\ tx[t].qty \in Nat /\ Move(tx[t].sale, tx[t].qty)
        /\ sale' = sale /\ invoiceSeq' = invoiceSeq
    BY <1>3 DEF Inv1, TypeOK, RequestsOK, Request, CommitReturn
  <2> QED
    BY <1>1, <2>1, MoveKeepsStock, NumbersKept
<1>4. ASSUME NEW t \in Tx, CommitCancel(t) PROVE GoodsInv'
  <2>1. PICK s \in Sale : s = tx[t].sale /\ sale[s].status # "none"
    BY <1>4 DEF Inv1, RequestsOK, CommitCancel
  <2>2. /\ sale[s].qty \in Nat /\ Move(s, sale[s].qty) /\ invoiceSeq' = invoiceSeq
        /\ sale' = [sale EXCEPT ![s].status = "cancelled"]
    BY <1>1, <1>4, <2>1 DEF TypeOK, SaleRow, CommitCancel
  <2>3. \A d \in Sale : /\ sale'[d].invoice = sale[d].invoice
                        /\ sale'[d].status = "none" <=> sale[d].status = "none"
    BY <1>1, <2>1, <2>2 DEF TypeOK, SaleRow
  <2> QED
    BY <1>1, <2>2, <2>3, MoveKeepsStock, NumbersKept
<1>5. CASE UNCHANGED <<sale, invoiceSeq, stock, moved>>
  <2>1. NumbersOK'
    BY <1>5, NumbersKept
  <2> QED
    BY <1>5, <2>1 DEF StockIsSumOfMovements
<1>6. \/ UNCHANGED <<sale, invoiceSeq, stock, moved>>
      \/ \E t \in Tx : CommitCreate(t) \/ CommitReturn(t) \/ CommitCancel(t)
  BY DEF Next, BeginCreate, BeginPay, BeginReturn, BeginCancel, Begin, CommitPay,
         Refuse, Replay, Lose, RolledBack, ClosePeriod, ReopenPeriod, vars, rows, books
<1> QED
  BY <1>2, <1>3, <1>4, <1>5, <1>6

-----------------------------------------------------------------------------
(***************************************************************************)
(* Theorems about the Qeedha integration composed with Sales, for any      *)
(* number of sales, keys, requests of the till and submissions: payments   *)
(* from both sides settle a sale together as Settlement says, the answer   *)
(* to a key is final, and success means a payment that is in the books.    *)
(*                                                                         *)
(* The books of a sale are not those of Sales alone here: a submission on  *)
(* a locked day commits a payment without its entry.                       *)
(***************************************************************************)

\* An open submission names a sale that was recorded, and a payment it found
\* is there for good.
SubsOK ==
    \A q \in Sub : sub[q] # NoSubmission =>
        /\ sub[q].sale \in Sale /\ sub[q].key \in Key /\ sub[q].amount > 0
        /\ sale[sub[q].sale].status # "none"
        /\ sub[q].found => payments[sub[q].key] # NoRow

\* Requests sell a quantity and pay an amount.
Positive ==
    \A t \in Tx : /\ tx[t].op = "create" => tx[t].qty > 0
                  /\ tx[t].op = "pay" => tx[t].amount > 0

\* Nothing is due and nothing was paid before a sale is recorded.
Unissued == \A s \in Sale : sale[s].status = "none" => sale[s].qty = 0 /\ paid[s] = 0

\* The inductive invariant of the composition.
QInv == Inv1 /\ QTypeOK /\ JournalInv /\ SubsOK /\ Positive /\ Unissued

-----------------------------------------------------------------------------
\* The composition starts in the invariant.
LEMMA InitQInv == QInit => QInv
<1> SUFFICES ASSUME QInit PROVE QInv
  OBVIOUS
<1>1. Inv1 /\ JournalInv
  BY InitInv1, EmptyJournalSound DEF QInit, Init, JournalInv
<1>2. QTypeOK
  BY <1>1 DEF QInit, QTypeOK, Inv1, ConnectionRow, NoTransaction, TransactionRow,
              NoSubmission, Submission
<1>3. SubsOK /\ Positive /\ Unissued
  BY DEF QInit, Init, SubsOK, Positive, Unissued, NoRequest, NoSale
<1> QED
  BY <1>1, <1>2, <1>3 DEF QInv

\* The payment of a submission keeps the types and the journal.
LEMMA PayQType ==
  ASSUME QInv, NEW q \in Sub, Pay(q),
         \/ Post(sub[q].sale, "payment", PaymentLines(sub[q]))
         \/ UNCHANGED books,
         UNCHANGED <<sale, invoiceSeq, returns, returned, stock, moved, closed, tx>>
  PROVE  Inv1' /\ JournalInv' /\ Continues(journal, journal')
<1>1. /\ sub[q] # NoSubmission /\ sub[q].sale \in Sale /\ sub[q].key \in Key
      /\ sub[q].amount \in Nat
  BY DEF QInv, SubsOK, QTypeOK, Submission, Pay, Accepted
<1>2. payments' \in [Key -> Row] /\ paid' \in [Sale -> Nat]
  BY <1>1 DEF Pay, QInv, Inv1, TypeOK, Row
<1>3. PaymentLines(sub[q]) \in Lines
  BY <1>1, PaymentLinesValue
<1>4. journal' \in Seq(SaleEntry) /\ ledger' \in [Sale -> Lines]
  BY <1>1, <1>3, PostType DEF QInv, Inv1, TypeOK, books
<1>5. TypeOK'
  BY <1>2, <1>4 DEF QInv, Inv1, TypeOK
<1>6. RequestsOK'
  BY DEF QInv, Inv1, RequestsOK
<1>7. JournalInv' /\ Continues(journal, journal')
  <2>1. CASE Post(sub[q].sale, "payment", PaymentLines(sub[q]))
    BY <1>1, <1>3, <2>1, PostSound DEF QInv, Inv1
  <2>2. CASE UNCHANGED books
    BY <2>2 DEF QInv, JournalInv, Continues, Inv1, TypeOK, books
  <2> QED
    BY <2>1, <2>2
<1> QED
  BY <1>5, <1>6, <1>7 DEF Inv1

\* A step of Sales keeps what the composition adds to its invariant.
LEMMA SalesKeepsQInv ==
  ASSUME QInv, Next, UNCHANGED qvars
  PROVE  QInv'
<1> USE DEF QInv
<1>1. Inv1' /\ JournalInv'
  BY StepInv1, StepJournal
<1>2. QTypeOK'
  BY <1>1 DEF QTypeOK, Inv1, qvars
<1>3. ASSUME NEW t \in Tx, CommitCreate(t)
      PROVE  SubsOK' /\ Positive' /\ Unissued'
  <2>1. tx[t].sale \in Sale /\ payments' = payments
    BY <1>3 DEF Inv1, RequestsOK, CommitCreate
  <2>2. \A s \in Sale : /\ sale[s].status # "none" => sale'[s].status # "none"
                        /\ sale'[s].status = "none" => sale'[s] = sale[s] /\ paid'[s] = paid[s]
    BY <1>3, <2>1 DEF CommitCreate, Inv1, TypeOK
  <2>3. SubsOK'
    BY <2>1, <2>2 DEF SubsOK, qvars
  <2>4. Positive'
    BY <1>3 DEF CommitCreate, Finish, NoRequest, Positive, Inv1, TypeOK
  <2>5. Unissued'
    BY <2>2 DEF Unissued
  <2> QED
    BY <2>3, <2>4, <2>5
<1>4. ASSUME NEW t \in Tx, CommitPay(t)
      PROVE  SubsOK' /\ Positive' /\ Unissued'
  <2>1. /\ tx[t].sale \in Sale /\ tx[t].key \in Key /\ payments[tx[t].key] = NoRow
        /\ sale[tx[t].sale].status # "none" /\ sale' = sale
    BY <1>4 DEF Inv1, RequestsOK, CommitPay, Goes, Recorded
  <2>2. \A k \in Key : payments[k] # NoRow => payments'[k] # NoRow
    BY <1>4, <2>1 DEF CommitPay, Inv1, TypeOK
  <2>3. SubsOK'
    BY <2>1, <2>2 DEF SubsOK, qvars
  <2>4. Positive'
    BY <1>4 DEF CommitPay, Finish, NoRequest, Positive, Inv1, TypeOK
  <2>5. Unissued'
    BY <1>4, <2>1 DEF CommitPay, Unissued, Inv1, TypeOK
  <2> QED
    BY <2>3, <2>4, <2>5
<1>5. ASSUME NEW t \in Tx, CommitReturn(t) \/ RolledBack(t)
      PROVE  SubsOK' /\ Positive' /\ Unissued'
  <2>1. sale' = sale /\ paid' = paid /\ payments' = payments
    BY <1>5 DEF CommitReturn, RolledBack, rows
  <2>2. Positive'
    BY <1>5 DEF CommitReturn, RolledBack, Finish, NoRequest, Positive, Inv1, TypeOK
  <2> QED
    BY <2>1, <2>2 DEF SubsOK, Unissued, qvars
<1>6. ASSUME NEW t \in Tx, CommitCancel(t)
      PROVE  SubsOK' /\ Positive' /\ Unissued'
  <2>1. payments' = payments /\ paid' = paid
    BY <1>6 DEF CommitCancel
  <2>2. \A s \in Sale : /\ sale[s].status # "none" => sale'[s].status # "none"
                        /\ sale'[s].status = "none" => sale'[s] = sale[s]
    BY <1>6 DEF CommitCancel, Inv1, TypeOK, SaleRow
  <2>3. Positive'
    BY <1>6 DEF CommitCancel, Finish, NoRequest, Positive, Inv1, TypeOK
  <2> QED
    BY <2>1, <2>2, <2>3 DEF SubsOK, Unissued, qvars
<1>7. ASSUME NEW t \in Tx, NEW r, Begin(t, r),
             r.op = "create" => r.qty > 0, r.op = "pay" => r.amount > 0
      PROVE  SubsOK' /\ Positive' /\ Unissued'
  <2>1. sale' = sale /\ paid' = paid /\ payments' = payments
    BY <1>7 DEF Begin, rows
  <2>2. Positive'
    BY <1>7 DEF Begin, Positive, Inv1, TypeOK
  <2> QED
    BY <2>1, <2>2 DEF SubsOK, Unissued, qvars
<1>8. ASSUME NEW t \in Tx, BeginCreate(t)
      PROVE  SubsOK' /\ Positive' /\ Unissued'
  <2>1. PICK s \in Sale, q \in Qty, a \in Amount \cup {0} :
           Begin(t, [op |-> "create", sale |-> s, key |-> None, qty |-> q, amount |-> a])
    BY <1>8 DEF BeginCreate
  <2>2. q > 0
    BY SalesAssumption
  <2> QED
    BY <1>7, <2>1, <2>2
<1>9. ASSUME NEW t \in Tx, BeginPay(t)
      PROVE  SubsOK' /\ Positive' /\ Unissued'
  <2>1. PICK s \in Sale, k \in Key, a \in Amount :
           Begin(t, [op |-> "pay", sale |-> s, key |-> k, qty |-> 0, amount |-> a])
    BY <1>9 DEF BeginPay
  <2>2. a > 0
    BY SalesAssumption
  <2> QED
    BY <1>7, <2>1, <2>2
<1>10. ASSUME NEW t \in Tx, BeginReturn(t) \/ BeginCancel(t)
       PROVE  SubsOK' /\ Positive' /\ Unissued'
  <2>1. CASE BeginReturn(t)
    <3>1. PICK s \in Sale, k \in Key, q \in Qty :
             Begin(t, [op |-> "return", sale |-> s, key |-> k, qty |-> q, amount |-> 0])
      BY <2>1 DEF BeginReturn
    <3> QED
      BY <1>7, <3>1
  <2>2. CASE BeginCancel(t)
    <3>1. PICK s \in Sale :
             Begin(t, [op |-> "cancel", sale |-> s, key |-> None, qty |-> 0, amount |-> 0])
      BY <2>2 DEF BeginCancel
    <3> QED
      BY <1>7, <3>1
  <2> QED
    BY <1>10, <2>1, <2>2
<1>11. ASSUME ClosePeriod \/ ReopenPeriod
       PROVE  SubsOK' /\ Positive' /\ Unissued'
  BY <1>11 DEF ClosePeriod, ReopenPeriod, rows, SubsOK, Positive, Unissued, qvars
<1>12. SubsOK' /\ Positive' /\ Unissued'
  BY <1>3, <1>4, <1>5, <1>6, <1>8, <1>9, <1>10, <1>11, Zenon DEF Next, Refuse, Replay, Lose
<1> QED
  BY <1>1, <1>2, <1>12

\* Every step of the composition keeps the invariant.
LEMMA StepQInv == QInv /\ [QNext]_<<vars, qvars>> => QInv'
<1> SUFFICES ASSUME QInv, [QNext]_<<vars, qvars>> PROVE QInv'
  OBVIOUS
<1> USE DEF QInv
<1>1. ASSUME UNCHANGED vars, QTypeOK', SubsOK' PROVE QInv'
  <2>1. Inv1' /\ JournalInv'
    BY <1>1, StepInv1, StepJournal
  <2> QED
    BY <1>1, <2>1 DEF vars, rows, Positive, Unissued
<1>2. ASSUME UNCHANGED <<vars, sub>>, QTypeOK' PROVE QInv'
  <2>1. UNCHANGED vars /\ SubsOK'
    BY <1>2 DEF vars, rows, SubsOK
  <2> QED
    BY <1>1, <1>2, <2>1
<1>3. CASE Link \/ Revoke \/ \E c \in Customer : ResolveCustomer(c)
  <2>1. QTypeOK' /\ UNCHANGED <<vars, sub>>
    BY <1>3 DEF Link, Revoke, ResolveCustomer, QTypeOK, ConnectionRow, TypeOK, vars, rows, books
  <2> QED
    BY <1>2, <2>1
<1>4. CASE \E k \in Key : CancelTransaction(k)
  <2>1. QTypeOK' /\ UNCHANGED <<vars, sub>>
    <3>1. PICK k \in Key : CancelTransaction(k)
      BY <1>4
    <3>2. transaction' \in [Key -> TransactionRow]
      BY <3>1 DEF CancelTransaction, QTypeOK, TransactionRow
    <3> QED
      BY <3>1, <3>2 DEF CancelTransaction, QTypeOK, TypeOK, vars, rows, books
  <2> QED
    BY <1>2, <2>1
<1>5. ASSUME NEW q \in Sub, BeginSubmit(q) PROVE QInv'
  <2>1. PICK s \in Sale, k \in Key, c \in Customer, a \in Amount :
           /\ sale[s].status # "none"
           /\ sub' = [sub EXCEPT ![q] = [sale |-> s, key |-> k, amount |-> a,
                                         open |-> sale[s].status = "completed",
                                         found |-> payments[k] # NoRow]]
           /\ UNCHANGED <<vars, connection, mapped, transaction>>
    BY <1>5, Zenon DEF BeginSubmit
  <2>2. a \in Nat \ {0}
    BY SalesAssumption
  <2>3. QTypeOK'
    BY <2>1, <2>2 DEF QTypeOK, Submission, TypeOK, vars, rows, books
  <2>4. sale' = sale /\ payments' = payments
    BY <2>1 DEF vars, rows
  <2>5. SubsOK'
    <3> SUFFICES ASSUME NEW p \in Sub, sub'[p] # NoSubmission
                 PROVE  /\ sub'[p].sale \in Sale /\ sub'[p].key \in Key /\ sub'[p].amount > 0
                        /\ sale[sub'[p].sale].status # "none"
                        /\ sub'[p].found => payments[sub'[p].key] # NoRow
      BY <2>4 DEF SubsOK
    <3>1. CASE p = q
      <4>1. sub'[q] = [sale |-> s, key |-> k, amount |-> a,
                       open |-> sale[s].status = "completed", found |-> payments[k] # NoRow]
        BY <2>1 DEF QTypeOK
      <4>2. sub'[q].found = (payments[k] # NoRow)
        BY <4>1
      <4>3. sub'[q].sale = s /\ sub'[q].key = k /\ sub'[q].amount = a
        BY <4>1
      <4>4. sub'[p].found => payments[sub'[p].key] # NoRow
        BY <3>1, <4>2, <4>3, Zenon
      <4> QED
        BY <2>1, <2>2, <3>1, <4>3, <4>4
    <3>2. CASE p # q
      BY <2>1, <3>2 DEF QTypeOK, SubsOK
    <3> QED
      BY <3>1, <3>2
  <2> QED
    BY <1>1, <2>1, <2>3, <2>5
<1>6. ASSUME NEW q \in Sub, Answer(q)
      PROVE  /\ sub' \in [Sub -> Submission]
             /\ \A p \in Sub : sub'[p] # NoSubmission => p # q /\ sub'[p] = sub[p]
  BY <1>6 DEF Answer, QTypeOK, NoSubmission, Submission
<1>7. ASSUME NEW q \in Sub, NEW status \in {"success", "failed"}, NEW p \in BOOLEAN,
             sub[q] # NoSubmission, Store(q, status, p)
      PROVE  transaction' \in [Key -> TransactionRow]
  <2>1. sub[q] \in Submission /\ sub[q].key \in Key /\ sub[q].sale \in Sale
    BY <1>7 DEF SubsOK, QTypeOK
  <2> QED
    BY <1>7, <2>1 DEF Store, QTypeOK, TransactionRow, Submission
<1>8. ASSUME NEW q \in Sub, CommitExisting(q) \/ CommitRejected(q) \/ ReplaySubmit(q) \/ LoseSubmit(q)
      PROVE  QInv'
  <2>1. UNCHANGED <<vars, connection, mapped>> /\ Answer(q) /\ sub[q] # NoSubmission
    BY <1>8 DEF CommitExisting, CommitRejected, ReplaySubmit, LoseSubmit
  <2>2. transaction' \in [Key -> TransactionRow]
    <3>1. CASE CommitExisting(q)
      BY <1>7, <3>1 DEF CommitExisting
    <3>2. CASE CommitRejected(q)
      BY <1>7, <3>2 DEF CommitRejected
    <3>3. CASE UNCHANGED transaction
      BY <3>3 DEF QTypeOK
    <3> QED
      BY <1>8, <3>1, <3>2, <3>3 DEF ReplaySubmit, LoseSubmit
  <2>3. QTypeOK'
    BY <1>6, <2>1, <2>2 DEF QTypeOK, TypeOK, vars, rows, books
  <2>4. SubsOK'
    BY <1>6, <2>1 DEF SubsOK, vars, rows
  <2> QED
    BY <1>1, <2>1, <2>3, <2>4
<1>9. ASSUME NEW q \in Sub, CommitSuccess(q) \/ CommitUnposted(q)
      PROVE  QInv'
  <2>1. /\ Pay(q) /\ Answer(q) /\ sub[q] # NoSubmission
        /\ UNCHANGED <<sale, invoiceSeq, returns, returned, stock, moved, closed, tx,
                       connection, mapped>>
    BY <1>9 DEF CommitSuccess, CommitUnposted, Pay, Accepted
  <2>2. Inv1' /\ JournalInv'
    BY <1>9, <2>1, PayQType DEF CommitSuccess, CommitUnposted
  <2>3. QTypeOK'
    BY <1>6, <1>7, <1>9, <2>1, <2>2 DEF CommitSuccess, CommitUnposted, QTypeOK, Inv1
  <2>4. /\ sub[q].sale \in Sale /\ sub[q].key \in Key
        /\ sale[sub[q].sale].status # "none" /\ payments[sub[q].key] = NoRow
    BY <2>1 DEF SubsOK, Pay
  <2>5. \A k \in Key : payments[k] # NoRow => payments'[k] # NoRow
    BY <2>1, <2>4 DEF Pay, Inv1, TypeOK
  <2>6. SubsOK'
    BY <1>6, <2>1, <2>5 DEF SubsOK
  <2>7. Unissued'
    BY <2>1, <2>4 DEF Unissued, Pay, Inv1, TypeOK
  <2> QED
    BY <2>1, <2>2, <2>3, <2>6, <2>7 DEF Positive
<1>10. CASE UNCHANGED <<vars, qvars>>
  BY <1>2, <1>10 DEF qvars, QTypeOK, TypeOK, vars, rows, books
<1> QED
  BY <1>3, <1>4, <1>5, <1>8, <1>9, <1>10, SalesKeepsQInv DEF QNext

\* The invariant holds in every state of the composition.
LEMMA QInvariance == QSpec => []QInv
  BY InitQInv, StepQInv, PTL DEF QSpec

-----------------------------------------------------------------------------
\* A step that changes no quantity sold, nothing paid and no payment of a key
\* is invisible to Settlement.
LEMMA Stutter ==
  ASSUME \A s \in Sale : sale'[s].qty = sale[s].qty, paid' = paid, payments' = payments
  PROVE  UNCHANGED Payments!vars
<1>1. [s \in Sale |-> Total(s)]' = [s \in Sale |-> Total(s)]
  BY DEF Total
<1> QED
  BY <1>1 DEF Payments!vars

\* The products that the amounts of a sale are.
LEMMA Price ==
  /\ \A n \in Nat : UnitPrice * n \in Nat
  /\ UnitPrice * 0 = 0
  /\ \A n \in Nat : n > 0 => UnitPrice * n > 0
<1>1. \A n \in Nat : n > 0 => UnitPrice * 1 <= UnitPrice * n
  BY MulMono, SalesAssumption
<1> QED
  BY <1>1, MulNat, SalesAssumption

\* createSale issues the sale and pays part of it.
LEMMA CreateIssues ==
  ASSUME QInv, NEW t \in Tx, CommitCreate(t), NEW s \in Sale, tx[t].sale = s
  PROVE  Payments!Next
<1> DEFINE total == [d \in Sale |-> Total(d)]
<1>1. PICK q, a : q = tx[t].qty /\ a = tx[t].amount
  OBVIOUS
<1>2. q \in Nat /\ a \in Nat /\ q > 0
  BY <1>1 DEF QInv, Inv1, TypeOK, Request, Positive, CommitCreate
<1>3. ~Recorded(tx[t]) /\ ~Rejected(tx[t]) /\ tx[t].op = "create"
  BY DEF CommitCreate, Goes
<1>4. sale[s].status = "none" /\ sale[s].qty = 0 /\ paid[s] = 0
  BY <1>3 DEF Recorded, QInv, Unissued
<1>5. UnitPrice * q \in Nat /\ UnitPrice * q > 0 /\ a <= UnitPrice * q
  BY <1>1, <1>2, <1>3, Price DEF Rejected
<1>6. /\ sale'[s].qty = q /\ payments' = payments
      /\ \A d \in Sale \ {s} : sale'[d] = sale[d]
      /\ paid' = [paid EXCEPT ![s] = a]
  <2>1. /\ sale' = [sale EXCEPT ![s] = [status |-> "completed", qty |-> q, invoice |-> invoiceSeq]]
        /\ paid' = [paid EXCEPT ![s] = @ + a] /\ payments' = payments
    BY <1>1 DEF CommitCreate
  <2>2. paid[s] + a = a
    BY <1>2, <1>4
  <2> QED
    BY <2>1, <2>2 DEF QInv, Inv1, TypeOK
<1>7. /\ total[s] = 0 /\ total'[s] = UnitPrice * q
      /\ \A d \in Sale \ {s} : total'[d] = total[d]
  BY <1>4, <1>6, Price DEF Total
<1>8. total' = [total EXCEPT ![s] = total'[s]]
  BY <1>7
<1>9. paid'[s] = a /\ paid' = [paid EXCEPT ![s] = paid'[s]] /\ paid'[s] \in 0..total'[s]
  BY <1>2, <1>5, <1>6, <1>7 DEF QInv, Inv1, TypeOK
<1>10. Payments!Issue(s)
  BY <1>5, <1>6, <1>7, <1>8, <1>9 DEF Payments!Issue
<1> QED
  BY <1>10 DEF Payments!Next

\* A payment, of the till or of the integration, settles part of a sale.
LEMMA PaySettles ==
  ASSUME QInv, NEW s \in Sale, NEW k \in Key, NEW n \in Nat,
         n > 0, n <= Outstanding(s), payments[k] = NoRow,
         payments' = [payments EXCEPT ![k] = [sale |-> s, n |-> n]],
         paid' = [paid EXCEPT ![s] = @ + n], sale' = sale
  PROVE  Payments!Next
<1> DEFINE payment == [d \in Key |-> [doc |-> payments[d].sale, n |-> payments[d].n]]
<1>1. paid'[s] = paid[s] + n /\ paid[s] \in Nat /\ payments \in [Key -> Row]
  BY DEF QInv, Inv1, TypeOK
<1>2. paid'[s] - paid[s] = n
  BY <1>1
<1>3. payment[k] = [doc |-> None, n |-> 0]
  BY DEF NoRow
<1>4. payment' = [payment EXCEPT ![k] = [doc |-> s, n |-> n]]
  BY <1>1
<1>5. [d \in Sale |-> Total(d)]' = [d \in Sale |-> Total(d)]
  BY DEF Total
<1>6. n <= [d \in Sale |-> Total(d)][s] - paid[s]
  BY DEF Outstanding
<1>7. Payments!Settle(s, k, n)
  BY <1>3, <1>4, <1>5, <1>6 DEF Payments!Settle, Payments!Unused
<1> QED
  BY <1>2, <1>7 DEF Payments!Settle, Payments!Next

\* Every step of the composition is a step of Settlement, or invisible to it.
LEMMA StepSettles ==
  ASSUME QInv, [QNext]_<<vars, qvars>>
  PROVE  [Payments!Next]_(Payments!vars)
<1>1. ASSUME NEW t \in Tx, CommitPay(t)
      PROVE  Payments!Next
  <2>1. tx[t].sale \in Sale /\ tx[t].key \in Key /\ tx[t].amount \in Nat /\ tx[t].amount > 0
    BY <1>1 DEF QInv, Inv1, TypeOK, RequestsOK, Request, Positive, CommitPay
  <2>2. ~Recorded(tx[t]) /\ ~Rejected(tx[t]) /\ tx[t].op = "pay"
    BY <1>1 DEF CommitPay, Goes
  <2>3. payments[tx[t].key] = NoRow
    BY <2>2 DEF Recorded
  <2>4. Outstanding(tx[t].sale) \in Int
    BY <2>1, MoneyType DEF QInv, Inv1
  <2>5. tx[t].amount <= Outstanding(tx[t].sale)
    BY <2>1, <2>2, <2>4 DEF Rejected
  <2> QED
    BY <1>1, <2>1, <2>3, <2>5, PaySettles DEF CommitPay
<1>2. ASSUME NEW q \in Sub, CommitSuccess(q) \/ CommitUnposted(q)
      PROVE  Payments!Next
  <2>1. Pay(q) /\ sale' = sale /\ sub[q] # NoSubmission /\ ~TooMuch(q)
    BY <1>2 DEF CommitSuccess, CommitUnposted, Pay, Accepted
  <2>2. /\ sub[q].sale \in Sale /\ sub[q].key \in Key
        /\ sub[q].amount \in Nat /\ sub[q].amount > 0
    BY <2>1 DEF QInv, QTypeOK, SubsOK, Submission
  <2>3. Outstanding(sub[q].sale) \in Int
    BY <2>2, MoneyType DEF QInv, Inv1
  <2>4. sub[q].amount <= Outstanding(sub[q].sale)
    BY <2>1, <2>2, <2>3 DEF TooMuch
  <2> QED
    BY <2>1, <2>2, <2>4, PaySettles DEF Pay
<1>3. ASSUME NEW t \in Tx, CommitCancel(t)
      PROVE  UNCHANGED Payments!vars
  BY <1>3, Stutter DEF CommitCancel, QInv, Inv1, TypeOK, SaleRow
<1>4. ASSUME UNCHANGED <<sale, paid, payments>>
      PROVE  UNCHANGED Payments!vars
  BY <1>4, Stutter
<1>5. CASE Next
  <2>1. ASSUME NEW t \in Tx,
               \/ BeginCreate(t) \/ BeginPay(t) \/ BeginReturn(t) \/ BeginCancel(t)
               \/ CommitReturn(t) \/ RolledBack(t)
        PROVE  UNCHANGED <<sale, paid, payments>>
    BY <2>1 DEF BeginCreate, BeginPay, BeginReturn, BeginCancel, Begin, CommitReturn, RolledBack, rows
  <2>2. ASSUME NEW t \in Tx, CommitCreate(t)
        PROVE  Payments!Next
    BY <2>2, CreateIssues DEF QInv, Inv1, RequestsOK, CommitCreate
  <2>3. ClosePeriod \/ ReopenPeriod => UNCHANGED <<sale, paid, payments>>
    BY DEF ClosePeriod, ReopenPeriod, rows
  <2> QED
    BY <1>1, <1>3, <1>4, <1>5, <2>1, <2>2, <2>3, Zenon DEF Next, Refuse, Replay, Lose
<1>6. CASE UNCHANGED vars
  BY <1>4, <1>6 DEF vars, rows
<1>7. QNext => Next \/ UNCHANGED vars \/ \E q \in Sub : CommitSuccess(q) \/ CommitUnposted(q)
  BY DEF QNext, Link, Revoke, ResolveCustomer, BeginSubmit, CommitExisting, CommitRejected,
         ReplaySubmit, LoseSubmit, CancelTransaction
<1> QED
  BY <1>2, <1>5, <1>6, <1>7

\* Payments at the till and payments of the integration settle a sale together
\* as Settlement says, whatever number of both races: once per key, only of a
\* sale that was recorded, and within its total.
THEOREM SettlementImplemented == QSpec => ImplementsSettlement
<1>1. QInit => Payments!Init
  <2> SUFFICES ASSUME QInit PROVE Payments!Init
    OBVIOUS
  <2>1. [s \in Sale |-> Total(s)] = [s \in Sale |-> 0]
    BY Price DEF QInit, Init, NoSale, Total
  <2>2. [k \in Key |-> [doc |-> payments[k].sale, n |-> payments[k].n]]
           = [k \in Key |-> [doc |-> None, n |-> 0]]
    BY DEF QInit, Init, NoRow
  <2> QED
    BY <2>1, <2>2 DEF QInit, Init, Payments!Init, Payments!Unused
<1>2. QInv /\ [QNext]_<<vars, qvars>> => [Payments!Next]_(Payments!vars)
  BY StepSettles
<1> QED
  BY <1>1, <1>2, QInvariance, PTL DEF QSpec, ImplementsSettlement, Payments!Spec

-----------------------------------------------------------------------------
\* The stored outcome of a key only changes from failed to cancelled: the unique
\* index on the key refuses a second one, cancel judges the stored status.
THEOREM AnswersStay == QSpec => AnswerIsFinal
<1>1. ASSUME QInv, QNext, NEW k \in Key, transaction[k] # NoTransaction
      PROVE  \/ transaction'[k] = transaction[k]
             \/ /\ transaction[k].status = "failed"
                /\ transaction'[k] = [transaction[k] EXCEPT !.status = "cancelled"]
  <2> USE DEF QInv, QTypeOK
  <2>1. ASSUME NEW q \in Sub, NEW status, NEW p, Store(q, status, p)
        PROVE  transaction'[k] = transaction[k]
    BY <1>1, <2>1 DEF Store
  <2>2. ASSUME NEW q \in Sub,
               CommitExisting(q) \/ CommitRejected(q) \/ CommitSuccess(q) \/ CommitUnposted(q)
        PROVE  transaction'[k] = transaction[k]
    BY <2>1, <2>2 DEF CommitExisting, CommitRejected, CommitSuccess, CommitUnposted
  <2>3. ASSUME NEW q \in Sub, BeginSubmit(q) \/ ReplaySubmit(q) \/ LoseSubmit(q)
        PROVE  transaction' = transaction
    BY <2>3 DEF BeginSubmit, ReplaySubmit, LoseSubmit
  <2>4. CASE \E m \in Key : CancelTransaction(m)
    BY <1>1, <2>4 DEF CancelTransaction
  <2>5. CASE Link \/ Revoke \/ (\E c \in Customer : ResolveCustomer(c)) \/ UNCHANGED qvars
    BY <2>5 DEF Link, Revoke, ResolveCustomer, qvars
  <2> QED
    BY <1>1, <2>2, <2>3, <2>4, <2>5 DEF QNext
<1>2. QInv /\ [QNext]_<<vars, qvars>> =>
         [\A k \in Key : transaction[k] # NoTransaction =>
            \/ transaction'[k] = transaction[k]
            \/ /\ transaction[k].status = "failed"
               /\ transaction'[k] = [transaction[k] EXCEPT !.status = "cancelled"]]_<<vars, qvars>>
  BY <1>1
<1> QED
  BY <1>2, QInvariance, PTL DEF QSpec, AnswerIsFinal

-----------------------------------------------------------------------------
\* The payment of a key is in the books.
Backed(k) ==
    \E i \in 1..Len(journal) :
        /\ journal[i].ref = payments[k].sale /\ journal[i].kind = "payment"
        /\ journal[i].lines = PaymentLines([amount |-> payments[k].n])

\* Why success means a payment: a payment without its entry is always that of a
\* transaction that failed, so none a later submission could find.
Outcome(k) ==
    /\ payments[k] # NoRow => Backed(k) \/ transaction[k].status \in {"failed", "cancelled"}
    /\ transaction[k].status = "success" =>
          payments[k] # NoRow /\ payments[k].sale = transaction[k].sale /\ Backed(k)

Outcomes == \A k \in Key : Outcome(k)

\* What is in the books stays there.
LEMMA BackedStays ==
  ASSUME NEW k \in Key, Backed(k), payments'[k] = payments[k], TypeOK,
         Continues(journal, journal')
  PROVE  Backed(k)'
<1>1. PICK i \in 1..Len(journal) :
         /\ journal[i].ref = payments[k].sale /\ journal[i].kind = "payment"
         /\ journal[i].lines = PaymentLines([amount |-> payments[k].n])
  BY DEF Backed
<1>2. journal[i] \in SaleEntry /\ i \in 1..Len(journal')
  BY DEF TypeOK, Continues
<1>3. /\ journal'[i].ref = journal[i].ref /\ journal'[i].kind = journal[i].kind
      /\ journal'[i].lines = journal[i].lines
  BY <1>2 DEF Continues, SaleEntry, EntryOf
<1> QED
  BY <1>1, <1>2, <1>3 DEF Backed, PaymentLines

\* A payment that posts its entry is in the books.
LEMMA PaidIsBacked ==
  ASSUME NEW k \in Key, NEW s \in Sale, NEW r, r.amount \in Nat, TypeOK,
         payments' = [payments EXCEPT ![k] = [sale |-> s, n |-> r.amount]],
         Post(s, "payment", PaymentLines(r))
  PROVE  Backed(k)'
<1>1. journal' = Append(journal, Entry(s, "payment", PaymentLines(r))) /\ journal \in Seq(SaleEntry)
  BY DEF Post, PostEntry, TypeOK
<1>2. /\ Len(journal') = Len(journal) + 1 /\ Len(journal) \in Nat
      /\ journal'[Len(journal) + 1] = Entry(s, "payment", PaymentLines(r))
  BY <1>1
<1>3. payments'[k].sale = s /\ payments'[k].n = r.amount
  BY DEF TypeOK
<1>4. PaymentLines(r) = PaymentLines([amount |-> payments'[k].n])
  BY <1>3 DEF PaymentLines
<1> QED
  BY <1>2, <1>3, <1>4 DEF Backed, Entry, PaymentLines

\* A step that leaves payment and transaction of a key alone keeps its outcome.
LEMMA OutcomeFrame ==
  ASSUME NEW k \in Key, Outcome(k), TypeOK, Continues(journal, journal'),
         payments'[k] = payments[k],
         \/ transaction'[k] = transaction[k]
         \/ transaction[k].status = "failed" /\ transaction'[k].status = "cancelled"
  PROVE  Outcome(k)'
  BY BackedStays DEF Outcome

\* Every step of the composition keeps the outcomes.
LEMMA StepOutcomes == QInv /\ Outcomes /\ [QNext]_<<vars, qvars>> => Outcomes'
<1> SUFFICES ASSUME QInv, Outcomes, [QNext]_<<vars, qvars>>, NEW k \in Key
             PROVE  Outcome(k)'
  BY DEF Outcomes
<1> USE DEF QInv, QTypeOK
<1>1. Outcome(k) /\ Inv1 /\ TypeOK
  BY DEF Outcomes, Inv1
<1>2. ASSUME UNCHANGED journal PROVE Continues(journal, journal')
  BY <1>1, <1>2 DEF Continues, TypeOK
<1>3. CASE Next /\ UNCHANGED qvars
  <2>1. Continues(journal, journal') /\ transaction' = transaction
    BY <1>1, <1>3, StepJournal DEF qvars
  <2>2. CASE payments'[k] = payments[k]
    BY <1>1, <2>1, <2>2, OutcomeFrame
  <2>3. CASE payments'[k] # payments[k]
    <3>1. PICK t \in Tx : CommitPay(t)
      BY <1>3, <2>3
         DEF Next, BeginCreate, BeginPay, BeginReturn, BeginCancel, Begin, CommitCreate,
             CommitReturn, CommitCancel, Refuse, Replay, Lose, RolledBack, ClosePeriod,
             ReopenPeriod, rows
    <3>2. /\ tx[t].sale \in Sale /\ tx[t].amount \in Nat
          /\ payments' = [payments EXCEPT ![tx[t].key] = [sale |-> tx[t].sale, n |-> tx[t].amount]]
          /\ Post(tx[t].sale, "payment", PaymentLines(tx[t]))
      BY <1>1, <3>1 DEF Inv1, TypeOK, RequestsOK, Request, CommitPay
    <3>3. tx[t].key = k
      BY <1>1, <2>3, <3>2 DEF TypeOK
    <3>4. Backed(k)'
      BY <1>1, <3>2, <3>3, PaidIsBacked
    <3>5. payments[k] = NoRow
      BY <3>1, <3>3 DEF CommitPay, Goes, Recorded
    <3>6. transaction'[k].status # "success"
      BY <1>1, <2>1, <3>5 DEF Outcome
    <3> QED
      BY <3>4, <3>6 DEF Outcome
  <2> QED
    BY <2>2, <2>3
<1>4. ASSUME NEW q \in Sub, sub[q] # NoSubmission, sub[q].key # k,
             CommitExisting(q) \/ CommitRejected(q) \/ CommitSuccess(q) \/ CommitUnposted(q)
      PROVE  Outcome(k)'
  <2>1. transaction'[k] = transaction[k]
    BY <1>4 DEF CommitExisting, CommitRejected, CommitSuccess, CommitUnposted, Store
  <2>2. payments'[k] = payments[k] /\ Continues(journal, journal')
    <3>1. CASE CommitExisting(q) \/ CommitRejected(q)
      BY <1>2, <3>1 DEF CommitExisting, CommitRejected, vars, rows, books
    <3>2. CASE CommitSuccess(q) \/ CommitUnposted(q)
      <4>1. Pay(q) /\ Continues(journal, journal')
        BY <3>2, PayQType DEF CommitSuccess, CommitUnposted
      <4> QED
        BY <1>1, <1>4, <4>1 DEF Pay, TypeOK
    <3> QED
      BY <1>4, <3>1, <3>2
  <2> QED
    BY <1>1, <2>1, <2>2, OutcomeFrame
<1>5. ASSUME NEW q \in Sub, sub[q].key = k, CommitExisting(q) PROVE Outcome(k)'
  <2>1. /\ payments[k] # NoRow /\ payments' = payments /\ journal' = journal
        /\ transaction[k] = NoTransaction
    BY <1>5 DEF CommitExisting, SubsOK, Store, vars, rows, books
  <2>2. Backed(k)
    BY <1>1, <2>1 DEF Outcome, NoTransaction
  <2>3. Backed(k)'
    BY <1>1, <1>2, <2>1, <2>2, BackedStays
  <2>4. transaction'[k].status = "success" =>
           payments[k].sale = sub[q].sale /\ transaction'[k].sale = sub[q].sale
    BY <1>5 DEF CommitExisting, Store
  <2> QED
    BY <2>1, <2>3, <2>4 DEF Outcome
<1>6. ASSUME NEW q \in Sub, sub[q].key = k, CommitRejected(q) \/ CommitUnposted(q)
      PROVE  Outcome(k)'
  <2>1. transaction'[k].status = "failed"
    BY <1>6 DEF CommitRejected, CommitUnposted, Store
  <2> QED
    BY <2>1 DEF Outcome
<1>7. ASSUME NEW q \in Sub, sub[q].key = k, CommitSuccess(q) PROVE Outcome(k)'
  <2>1. /\ sub[q].sale \in Sale /\ sub[q].amount \in Nat
        /\ payments' = [payments EXCEPT ![k] = [sale |-> sub[q].sale, n |-> sub[q].amount]]
        /\ Post(sub[q].sale, "payment", PaymentLines(sub[q]))
    BY <1>7 DEF CommitSuccess, Pay, Accepted, SubsOK, Submission
  <2>2. Backed(k)'
    BY <1>1, <2>1, PaidIsBacked
  <2>3. payments'[k].sale = sub[q].sale /\ transaction'[k].sale = sub[q].sale
    BY <1>1, <1>7, <2>1 DEF CommitSuccess, Store, TypeOK
  <2>4. payments'[k] # NoRow
    BY <2>1, <2>3, SalesAssumption DEF NoRow
  <2> QED
    BY <2>2, <2>3, <2>4 DEF Outcome
<1>8. ASSUME NEW q \in Sub, BeginSubmit(q) \/ ReplaySubmit(q) \/ LoseSubmit(q) PROVE Outcome(k)'
  <2>1. UNCHANGED <<payments, journal, transaction>>
    BY <1>8 DEF BeginSubmit, ReplaySubmit, LoseSubmit, vars, rows, books
  <2> QED
    BY <1>1, <1>2, <2>1, OutcomeFrame
<1>9. CASE \E m \in Key : CancelTransaction(m)
  <2>1. UNCHANGED <<payments, journal>>
    BY <1>9 DEF CancelTransaction, vars, rows, books
  <2>2. \/ transaction'[k] = transaction[k]
        \/ transaction[k].status = "failed" /\ transaction'[k].status = "cancelled"
    BY <1>9 DEF CancelTransaction, TransactionRow
  <2> QED
    BY <1>1, <1>2, <2>1, <2>2, OutcomeFrame
<1>10. CASE Link \/ Revoke \/ (\E c \in Customer : ResolveCustomer(c)) \/ UNCHANGED <<vars, qvars>>
  <2>1. UNCHANGED <<payments, journal, transaction>>
    BY <1>10 DEF Link, Revoke, ResolveCustomer, qvars, vars, rows, books
  <2> QED
    BY <1>1, <1>2, <2>1, OutcomeFrame
<1>11. ASSUME NEW q \in Sub,
              CommitExisting(q) \/ CommitRejected(q) \/ CommitSuccess(q) \/ CommitUnposted(q)
       PROVE  Outcome(k)'
  <2>1. sub[q] # NoSubmission
    BY <1>11 DEF CommitExisting, CommitRejected, CommitSuccess, CommitUnposted, Pay, Accepted
  <2> QED
    BY <1>4, <1>5, <1>6, <1>7, <1>11, <2>1
<1> QED
  BY <1>3, <1>8, <1>9, <1>10, <1>11 DEF QNext

\* Success was answered only for a payment of the key, of its sale, that is in
\* the books, whatever raced the submission.
THEOREM SuccessBacked == QSpec => []SuccessIsPayment
<1>1. QInit => Outcomes
  BY DEF QInit, Init, Outcomes, Outcome, NoTransaction
<1>2. Outcomes => SuccessIsPayment
  BY DEF Outcomes, Outcome, Backed, SuccessIsPayment
<1> QED
  BY <1>1, <1>2, StepOutcomes, QInvariance, PTL DEF QSpec

-----------------------------------------------------------------------------
\* Submissions move no goods and draw no number; what they do commit keeps its
\* types.  With what SalesProofs shows of sales: whatever fails late, at the till
\* or in the integration, leaves stock, movements and numbers in step.
THEOREM RollBacksWriteNothing == QSpec => []RollBacksLeaveNothing
<1>1. QInit => GoodsInv
  BY InitGoods DEF QInit
<1>2. QInv /\ GoodsInv /\ [QNext]_<<vars, qvars>> => GoodsInv'
  <2> SUFFICES ASSUME QInv, GoodsInv, [QNext]_<<vars, qvars>> PROVE GoodsInv'
    OBVIOUS
  <2>1. CASE Next
    BY <2>1, StepGoods DEF QInv
  <2>2. CASE UNCHANGED <<sale, invoiceSeq, stock, moved>>
    <3>1. NumbersOK'
      BY <2>2, NumbersKept DEF GoodsInv
    <3> QED
      BY <2>2, <3>1 DEF GoodsInv, StockIsSumOfMovements
  <2>3. Next \/ UNCHANGED <<sale, invoiceSeq, stock, moved>>
    BY DEF QNext, Link, Revoke, ResolveCustomer, BeginSubmit, CommitExisting, CommitRejected,
           CommitSuccess, CommitUnposted, ReplaySubmit, LoseSubmit, CancelTransaction, vars, rows
  <2> QED
    BY <2>1, <2>2, <2>3
<1>3. QInv /\ GoodsInv => RollBacksLeaveNothing
  BY DEF QInv, GoodsInv, NumbersOK, RollBacksLeaveNothing
<1> QED
  BY <1>1, <1>2, <1>3, QInvariance, PTL DEF QSpec
=============================================================================
