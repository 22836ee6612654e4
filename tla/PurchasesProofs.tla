-------------------------- MODULE PurchasesProofs --------------------------
(***************************************************************************)
(* Theorems about purchases, for any number of them, of keys and of        *)
(* concurrent requests: payments settle a purchase as Settlement says,     *)
(* money and goods move only between receipt and what was bought, entries, *)
(* stock and numbers follow the rows, and what goes back adds up.          *)
(***************************************************************************)
EXTENDS Purchases, JournalProofs

\* The rows that payments are judged by.
RowTypes ==
    /\ purchase \in [Purchase -> PurchaseRow]
    /\ sequence \in Nat
    /\ payments \in [Key -> KeyedRow]
    /\ paid \in [Purchase -> Nat]
    /\ returned \in [Purchase -> Nat]
    /\ moved \in [Purchase -> Int]
    /\ tx \in [Tx -> Request]

\* A line is worth something or nothing, never less.
RowsOK ==
    \A p \in Purchase :
        /\ purchase[p].line.discount <= Gross(purchase[p].line)
        /\ purchase[p].status = "none" => purchase[p].line = NoLine
        /\ purchase[p].status \in {"none", "ordered"} =>
              paid[p] = 0 /\ returned[p] = 0 /\ moved[p] = 0
        /\ 2 * (returned[p] - purchase[p].line.qty) <= Hundredth

\* What a request read stays true until it commits: a purchase that was received
\* may be cancelled since, but never waits for its goods again.
RequestsOK ==
    \A t \in Tx :
        LET r == tx[t] IN
        /\ r.op # "none" => r.purchase \in Purchase
        /\ r.op = "create" => r.line \in Order /\ r.line.discount <= Gross(r.line)
        /\ r.op = "pay" => r.key \in Key /\ r.n > 0
        /\ r.op \in {"pay", "return"} =>
              purchase[r.purchase].status \in {"received", "cancelled"}
        /\ r.op \in {"receive", "cancel"} => purchase[r.purchase].status # "none"

\* The inductive invariant.
PInv == RowTypes /\ RowsOK /\ RequestsOK

-----------------------------------------------------------------------------
\* A product of natural numbers is one.
LEMMA MulNat == \A m, n \in Nat : m * n \in Nat
  OBVIOUS

\* Dividing leaves a rest that is smaller than the divisor.
LEMMA DivBound ==
  ASSUME NEW n \in Int, NEW d \in Nat \ {0}
  PROVE  n \div d \in Int /\ d * (n \div d) <= n /\ n < d * (n \div d) + d
  OBVIOUS

\* What is rounded is off by half a digit at most.
LEMMA RoundBound ==
  ASSUME NEW n \in Int, NEW d \in Nat \ {0}
  PROVE  /\ RoundDiv(n, d) \in Int
         /\ n \in Nat => RoundDiv(n, d) \in Nat
         /\ -d <= 2 * (d * RoundDiv(n, d) - n)
         /\ 2 * (d * RoundDiv(n, d) - n) <= d
<1>1. 2 * d \in Nat \ {0} /\ 2 * n + d \in Int /\ (n \in Nat => 2 * n + d \in Nat)
  OBVIOUS
<1> DEFINE q == (2 * n + d) \div (2 * d)
<1>2. q \in Int /\ (2 * d) * q <= 2 * n + d /\ 2 * n + d < (2 * d) * q + 2 * d
  BY <1>1, DivBound
<1>3. n \in Nat => q \in Nat
  BY <1>1
<1> HIDE DEF q
<1>4. (2 * d) * q = 2 * (d * q) /\ d * q \in Int
  BY <1>2
<1>5. -d <= 2 * (d * q - n) /\ 2 * (d * q - n) <= d
  BY <1>2, <1>4
<1> QED
  BY <1>2, <1>3, <1>5 DEF RoundDiv, q

\* What a line is worth.
LEMMA LineWorth ==
  ASSUME NEW o \in Order \cup {NoLine}, o.discount <= Gross(o)
  PROVE  /\ o.qty \in Nat /\ Gross(o) \in Nat
         /\ Net(o) \in Nat /\ Tax(o) \in Nat
<1>1. /\ o.qty \in Nat /\ o.unitCost \in Nat /\ o.discount \in Nat /\ o.rate \in Nat
  BY PurchasesAssumption DEF NoLine
<1>2. Gross(o) \in Nat
  <2>1. o.unitCost * o.qty \in Nat /\ Cent \in Nat \ {0}
    BY <1>1, MulNat, PurchasesAssumption
  <2> QED
    BY <2>1, RoundBound DEF Gross
<1>3. Net(o) \in Nat
  BY <1>1, <1>2 DEF Net
<1>4. Net(o) * o.rate \in Nat
  BY <1>1, <1>3, MulNat
<1>5. \A n \in Nat : RoundDiv(n, 100) \in Nat
  BY RoundBound
<1> QED
  BY <1>1, <1>2, <1>3, <1>4, <1>5 DEF Tax

\* No line is worth nothing.
LEMMA GrossOfNothing == Gross(NoLine) = 0
<1>1. NoLine.unitCost * NoLine.qty = 0
  BY DEF NoLine
<1>2. \A d \in Nat \ {0} : RoundDiv(0, d) = 0
  BY RoundBound DEF RoundDiv
<1> QED
  BY <1>1, <1>2, PurchasesAssumption DEF Gross

\* A return that passes the check exceeds what is left by half of 0.01 at most.
LEMMA ReturnableBound ==
  ASSUME NEW q \in Nat, NEW b \in Nat, NEW n \in Nat,
         ~(n > Hundredth * RoundDiv(q - b, Hundredth))
  PROVE  2 * (b + n - q) <= Hundredth
<1>1. Hundredth \in Nat \ {0} /\ q - b \in Int
  BY PurchasesAssumption
<1>2. /\ RoundDiv(q - b, Hundredth) \in Int
      /\ 2 * (Hundredth * RoundDiv(q - b, Hundredth) - (q - b)) <= Hundredth
  BY <1>1, RoundBound
<1> DEFINE e == Hundredth * RoundDiv(q - b, Hundredth)
<1>3. e \in Int
  BY <1>1, <1>2
<1> HIDE DEF e
<1> QED
  BY <1>1, <1>2, <1>3 DEF e

\* The total of a purchase is a natural number, and zero before it is ordered.
LEMMA TotalNat ==
  ASSUME RowTypes, RowsOK, NEW p \in Purchase
  PROVE  Total(p) \in Nat /\ (purchase[p].status = "none" => Total(p) = 0)
<1>1. purchase[p].line \in Order \cup {NoLine}
  BY DEF RowTypes, PurchaseRow
<1>2. Total(p) \in Nat
  BY <1>1, LineWorth DEF RowsOK, Total
<1>3. Net(NoLine) + Tax(NoLine) = 0
  <2>1. Net(NoLine) = 0
    BY GrossOfNothing DEF NoLine, Net
  <2> QED
    BY <2>1 DEF NoLine, Tax, RoundDiv
<1> QED
  BY <1>2, <1>3 DEF RowsOK, Total

\* The invariant holds of an empty database.
LEMMA InitPInv == Init => PInv
<1> SUFFICES ASSUME Init PROVE PInv
  OBVIOUS
<1>1. RowTypes
  BY DEF Init, RowTypes, NoPurchase, PurchaseRow, NoRow, KeyedRow, NoRequest, Request
<1>2. RowsOK
  BY GrossOfNothing, PurchasesAssumption DEF Init, RowsOK, NoPurchase, NoLine
<1>3. RequestsOK
  BY DEF Init, RequestsOK, NoRequest
<1> QED
  BY <1>1, <1>2, <1>3 DEF PInv

\* A request begins with what it read.
LEMMA BeginKeeps ==
  ASSUME PInv, NEW t \in Tx, NEW r \in Request, Begin(t, r),
         r.op # "none" => r.purchase \in Purchase,
         r.op = "create" => r.line \in Order /\ r.line.discount <= Gross(r.line),
         r.op = "pay" => r.key \in Key /\ r.n > 0,
         r.op \in {"pay", "return"} => purchase[r.purchase].status \in {"received", "cancelled"},
         r.op \in {"receive", "cancel"} => purchase[r.purchase].status # "none"
  PROVE  PInv'
<1>1. tx' = [tx EXCEPT ![t] = r] /\ UNCHANGED <<rows, goods>>
  BY DEF Begin
<1>2. RowTypes' /\ RowsOK'
  BY <1>1 DEF PInv, RowTypes, RowsOK, rows, goods
<1>3. RequestsOK'
  BY <1>1 DEF PInv, RowTypes, RequestsOK, rows
<1> QED
  BY <1>2, <1>3 DEF PInv

\* Requests that are answered leave the others as they are, if no purchase is
\* set back.
LEMMA FinishKeeps ==
  ASSUME PInv, NEW t \in Tx, Finish(t),
         \A p \in Purchase :
            \/ purchase'[p].status = purchase[p].status
            \/ purchase[p].status = "none" /\ purchase'[p].status = "ordered"
            \/ purchase[p].status # "none" /\ purchase'[p].status \in {"received", "cancelled"}
  PROVE  tx' \in [Tx -> Request] /\ RequestsOK'
<1>1. tx' \in [Tx -> Request]
  BY PurchasesAssumption DEF Finish, PInv, RowTypes, NoRequest, Request
<1>2. ASSUME NEW u \in Tx, tx'[u].op # "none" PROVE tx'[u] = tx[u]
  BY <1>2 DEF Finish, NoRequest, PInv, RowTypes
<1>3. RequestsOK'
  <2> SUFFICES ASSUME NEW u \in Tx, tx'[u].op # "none"
               PROVE  LET r == tx'[u] IN
                      /\ r.purchase \in Purchase
                      /\ r.op = "create" => r.line \in Order /\ r.line.discount <= Gross(r.line)
                      /\ r.op = "pay" => r.key \in Key /\ r.n > 0
                      /\ r.op \in {"pay", "return"} =>
                            purchase'[r.purchase].status \in {"received", "cancelled"}
                      /\ r.op \in {"receive", "cancel"} => purchase'[r.purchase].status # "none"
    BY DEF RequestsOK
  <2> QED
    BY <1>2 DEF PInv, RequestsOK
<1> QED
  BY <1>1, <1>3

\* Every step keeps the invariant.
LEMMA StepPInv == PInv /\ [Next]_vars => PInv'
<1> SUFFICES ASSUME PInv, [Next]_vars PROVE PInv'
  OBVIOUS
<1> USE DEF PInv
<1>1. \A o \in Order : o.qty \in Nat
  BY PurchasesAssumption
<1>2. ASSUME NEW t \in Tx, BeginCreate(t) PROVE PInv'
  <2>1. PICK p \in Purchase, o \in Order :
           /\ o.discount <= Gross(o)
           /\ Begin(t, [NoRequest EXCEPT !.op = "create", !.purchase = p, !.line = o])
    BY <1>2 DEF BeginCreate
  <2> DEFINE r == [NoRequest EXCEPT !.op = "create", !.purchase = p, !.line = o]
  <2>2. r \in Request /\ r.op = "create" /\ r.purchase = p /\ r.line = o
    BY DEF NoRequest, Request
  <2> HIDE DEF r
  <2> QED
    BY <2>1, <2>2, BeginKeeps DEF r
<1>3. ASSUME NEW t \in Tx, BeginPay(t) PROVE PInv'
  <2>1. PICK p \in Purchase, k \in Key, n \in Amount :
           /\ purchase[p].status = "received"
           /\ Begin(t, [NoRequest EXCEPT !.op = "pay", !.purchase = p, !.key = k, !.n = n])
    BY <1>3 DEF BeginPay
  <2> DEFINE r == [NoRequest EXCEPT !.op = "pay", !.purchase = p, !.key = k, !.n = n]
  <2>2. n \in Nat /\ n > 0
    BY PurchasesAssumption
  <2>3. r \in Request /\ r.op = "pay" /\ r.purchase = p /\ r.key = k /\ r.n = n
    BY <2>2 DEF NoRequest, Request
  <2> HIDE DEF r
  <2> QED
    BY <2>1, <2>2, <2>3, BeginKeeps DEF r
<1>4. ASSUME NEW t \in Tx, BeginReturn(t) PROVE PInv'
  <2>1. PICK p \in Purchase, k \in Key, q \in Qty :
           /\ purchase[p].status = "received"
           /\ Begin(t, [NoRequest EXCEPT !.op = "return", !.purchase = p, !.key = k, !.n = q])
    BY <1>4 DEF BeginReturn
  <2> DEFINE r == [NoRequest EXCEPT !.op = "return", !.purchase = p, !.key = k, !.n = q]
  <2>2. r \in Request /\ r.op = "return" /\ r.purchase = p
    BY PurchasesAssumption DEF NoRequest, Request
  <2> HIDE DEF r
  <2> QED
    BY <2>1, <2>2, BeginKeeps DEF r
<1>5. ASSUME NEW t \in Tx, BeginReceive(t) \/ BeginCancel(t) PROVE PInv'
  <2>1. PICK p \in Purchase, op \in {"receive", "cancel"} :
           /\ purchase[p].status # "none"
           /\ Begin(t, [NoRequest EXCEPT !.op = op, !.purchase = p])
    BY <1>5 DEF BeginReceive, BeginCancel
  <2> DEFINE r == [NoRequest EXCEPT !.op = op, !.purchase = p]
  <2>2. r \in Request /\ r.op = op /\ r.purchase = p
    BY DEF NoRequest, Request
  <2> HIDE DEF r
  <2> QED
    BY <2>1, <2>2, BeginKeeps DEF r
<1>6. ASSUME NEW t \in Tx, CommitCreate(t) PROVE PInv'
  <2>1. /\ tx[t].purchase \in Purchase /\ tx[t].line \in Order
        /\ tx[t].line.discount <= Gross(tx[t].line)
    BY <1>6 DEF RequestsOK, CommitCreate
  <2>2. PICK p \in Purchase, o \in Order : p = tx[t].purchase /\ o = tx[t].line
    BY <2>1
  <2>3. /\ purchase' = [purchase EXCEPT ![p] =
                           [status |-> "ordered", number |-> sequence, line |-> o]]
        /\ sequence' = sequence + 1
        /\ UNCHANGED <<payments, paid, returned, moved>> /\ Finish(t)
    BY <1>6, <2>2 DEF CommitCreate, goods
  <2>4. purchase[p].status = "none"
    BY <1>6, <2>2 DEF CommitCreate, Goes, Recorded
  <2>5. RowTypes' /\ RequestsOK'
    BY <2>3, <2>4, FinishKeeps DEF RowTypes, PurchaseRow
  <2>6. RowsOK'
    <3>1. Hundredth \in Nat /\ o.qty \in Nat
      BY <1>1, PurchasesAssumption
    <3>2. returned[p] = 0 /\ paid[p] = 0 /\ moved[p] = 0 /\ 2 * (0 - o.qty) <= Hundredth
      BY <2>4, <3>1 DEF RowsOK
    <3> QED
      BY <2>1, <2>2, <2>3, <3>2 DEF RowsOK, RowTypes
  <2> QED
    BY <2>5, <2>6
<1>7. ASSUME NEW t \in Tx, CommitReceive(t) PROVE PInv'
  <2>1. PICK p \in Purchase : p = tx[t].purchase
    BY <1>7 DEF RequestsOK, CommitReceive
  <2>2. /\ purchase' = [purchase EXCEPT ![p].status = "received"]
        /\ moved' = [moved EXCEPT ![p] = @ + purchase[p].line.qty]
        /\ UNCHANGED <<sequence, payments, paid, returned>> /\ Finish(t)
    BY <1>7, <2>1 DEF CommitReceive, Move
  <2>3. purchase[p].status = "ordered"
    BY <1>7, <2>1 DEF CommitReceive, Goes, Rejected
  <2>4. purchase[p].line.qty \in Nat
    BY <1>1 DEF RowTypes, PurchaseRow, NoLine
  <2>5. RowTypes' /\ RequestsOK'
    BY <2>2, <2>3, <2>4, FinishKeeps DEF RowTypes, PurchaseRow
  <2>6. RowsOK'
    BY <2>2, <2>3 DEF RowsOK, RowTypes, PurchaseRow
  <2> QED
    BY <2>5, <2>6
<1>8. ASSUME NEW t \in Tx, CommitPay(t) PROVE PInv'
  <2>1. PICK p \in Purchase, k \in Key, n \in Nat :
           /\ p = tx[t].purchase /\ k = tx[t].key /\ n = tx[t].n
           /\ purchase[p].status \in {"received", "cancelled"}
    BY <1>8 DEF RequestsOK, CommitPay, RowTypes, Request
  <2>2. /\ payments' = [payments EXCEPT ![k] = [purchase |-> p, n |-> n]]
        /\ paid' = [paid EXCEPT ![p] = @ + n]
        /\ UNCHANGED <<purchase, sequence, returned, moved>> /\ Finish(t)
    BY <1>8, <2>1 DEF CommitPay, goods
  <2>3. RowTypes' /\ RequestsOK'
    BY <2>2, FinishKeeps DEF RowTypes, KeyedRow
  <2>4. RowsOK'
    BY <2>1, <2>2 DEF RowsOK, RowTypes
  <2> QED
    BY <2>3, <2>4
<1>9. ASSUME NEW t \in Tx, CommitReturn(t) PROVE PInv'
  <2>1. PICK p \in Purchase, n \in Nat :
           /\ p = tx[t].purchase /\ n = tx[t].n
           /\ purchase[p].status \in {"received", "cancelled"}
    BY <1>9 DEF RequestsOK, CommitReturn, RowTypes, Request
  <2>2. /\ returned' = [returned EXCEPT ![p] = @ + n]
        /\ moved' = [moved EXCEPT ![p] = @ + -n]
        /\ UNCHANGED <<purchase, sequence, payments, paid>> /\ Finish(t)
    BY <1>9, <2>1 DEF CommitReturn, Move
  <2>3. ~(n > Returnable(p))
    BY <1>9, <2>1 DEF CommitReturn, Goes, Rejected
  <2>4. purchase[p].line.qty \in Nat /\ returned[p] \in Nat
    BY <1>1 DEF RowTypes, PurchaseRow, NoLine
  <2>5. RowTypes' /\ RequestsOK'
    BY <2>2, FinishKeeps DEF RowTypes
  <2>6. 2 * (returned[p] + n - purchase[p].line.qty) <= Hundredth
    BY <2>3, <2>4, ReturnableBound DEF Returnable
  <2>7. RowsOK'
    <3>1. returned'[p] = returned[p] + n /\ \A d \in Purchase \ {p} : returned'[d] = returned[d]
      BY <2>2 DEF RowTypes
    <3>2. /\ purchase[p].status \notin {"none", "ordered"}
          /\ \A d \in Purchase \ {p} : moved'[d] = moved[d]
      BY <2>1, <2>2 DEF RowTypes
    <3>3. \A d \in Purchase : returned'[d] = returned[d] \/ d = p
      BY <3>1
    <3>4. ASSUME NEW d \in Purchase
          PROVE  2 * (returned'[d] - purchase'[d].line.qty) <= Hundredth
      <4>1. CASE d = p
        <5>1. returned'[d] = returned[p] + n /\ purchase'[d] = purchase[p]
          BY <2>2, <3>1, <4>1
        <5>2. purchase'[d].line.qty = purchase[p].line.qty
          BY <5>1
        <5> QED
          BY <2>4, <2>6, <5>1, <5>2
      <4>2. CASE d # p
        <5>1. returned'[d] = returned[d] /\ purchase'[d] = purchase[d]
          BY <2>2, <3>3, <4>2
        <5> QED
          BY <5>1 DEF RowsOK
      <4> QED
        BY <4>1, <4>2
    <3>5. \A d \in Purchase : purchase'[d].status \in {"none", "ordered"} =>
                                  paid'[d] = 0 /\ returned'[d] = 0 /\ moved'[d] = 0
      BY <2>2, <3>2, <3>3 DEF RowsOK
    <3> QED
      BY <2>2, <3>4, <3>5 DEF RowsOK, Gross, RoundDiv
  <2> QED
    BY <2>5, <2>7
<1>10. ASSUME NEW t \in Tx, CommitCancel(t) PROVE PInv'
  <2>1. PICK p \in Purchase : p = tx[t].purchase /\ purchase[p].status # "none"
    BY <1>10 DEF RequestsOK, CommitCancel
  <2>2. /\ purchase' = [purchase EXCEPT ![p].status = "cancelled"]
        /\ UNCHANGED <<sequence, payments, paid, returned, moved>> /\ Finish(t)
    BY <1>10, <2>1 DEF CommitCancel, goods
  <2>3. RowTypes' /\ RequestsOK'
    BY <2>1, <2>2, FinishKeeps DEF RowTypes, PurchaseRow
  <2>4. RowsOK'
    BY <2>1, <2>2 DEF RowsOK, RowTypes, PurchaseRow
  <2> QED
    BY <2>3, <2>4
<1>11. ASSUME NEW t \in Tx, RolledBack(t) PROVE PInv'
  <2>1. UNCHANGED <<rows, goods>> /\ Finish(t)
    BY <1>11 DEF RolledBack
  <2>2. tx' \in [Tx -> Request] /\ RequestsOK'
    BY <2>1, FinishKeeps DEF rows
  <2> QED
    BY <2>1, <2>2 DEF RowTypes, RowsOK, rows, goods
<1>12. CASE IssueElsewhere \/ UNCHANGED vars
  BY <1>12 DEF IssueElsewhere, vars, RowTypes, RowsOK, RequestsOK, rows, goods
<1> QED
  BY <1>2, <1>3, <1>4, <1>5, <1>6, <1>7, <1>8, <1>9, <1>10, <1>11, <1>12, Zenon
     DEF Next, Refuse, Replay, Lose

\* The invariant holds in every state.
LEMMA PInvariance == Spec => []PInv
  BY InitPInv, StepPInv, PTL DEF Spec

\* For any number of returns, concurrent or not, and any quantities, what goes back
\* to the supplier exceeds what arrived by half of 0.01 at most, the rounding of
\* the check, and before the receipt neither money nor goods move.
THEOREM ReturnedWithinReceived == Spec => []NeverOverReturned
<1>1. PInv => NeverOverReturned
  BY DEF PInv, RowsOK, NeverOverReturned
<1> QED
  BY <1>1, PInvariance, PTL

-----------------------------------------------------------------------------
\* A step that changes no line, nothing paid and no payment of a key is
\* invisible to Settlement.
LEMMA Stutter ==
  ASSUME \A p \in Purchase : purchase'[p].line = purchase[p].line,
         paid' = paid, payments' = payments
  PROVE  UNCHANGED Payments!vars
<1>1. [p \in Purchase |-> Total(p)]' = [p \in Purchase |-> Total(p)]
  BY DEF Total
<1> QED
  BY <1>1 DEF Payments!vars

\* createPurchase issues the purchase, unless nothing is due on it.
LEMMA CreateIssues ==
  ASSUME PInv, PInv', NEW t \in Tx, CommitCreate(t), NEW p \in Purchase, tx[t].purchase = p
  PROVE  [Payments!Next]_(Payments!vars)
<1> DEFINE total == [d \in Purchase |-> Total(d)]
<1>1. purchase[p].status = "none" /\ paid[p] = 0 /\ total[p] = 0
  BY TotalNat DEF CommitCreate, Goes, Recorded, PInv, RowsOK
<1>2. /\ \A d \in Purchase \ {p} : purchase'[d] = purchase[d]
      /\ paid' = paid /\ payments' = payments
  BY DEF CommitCreate, PInv, RowTypes
<1>3. total'[p] \in Nat
  <2>1. RowTypes' /\ RowsOK'
    BY DEF PInv
  <2>2. purchase'[p].line \in Order \cup {NoLine}
    BY <2>1 DEF RowTypes, PurchaseRow
  <2>3. purchase'[p].line.discount <= Gross(purchase'[p].line)
    BY <2>1 DEF RowsOK
  <2> QED
    BY <2>2, <2>3, LineWorth DEF Total
<1>4. \A d \in Purchase \ {p} : total'[d] = total[d]
  BY <1>2 DEF Total
<1>5. total' = [total EXCEPT ![p] = total'[p]]
  BY <1>4
<1>6. CASE total'[p] = 0
  <2>1. total' = total
    BY <1>1, <1>4, <1>6
  <2> QED
    BY <1>2, <2>1 DEF Payments!vars
<1>7. CASE total'[p] # 0
  <2>1. paid'[p] \in 0..total'[p] /\ paid' = [paid EXCEPT ![p] = paid'[p]]
    BY <1>1, <1>2, <1>3 DEF PInv, RowTypes
  <2>2. Payments!Issue(p)
    BY <1>1, <1>2, <1>3, <1>5, <1>7, <2>1 DEF Payments!Issue
  <2> QED
    BY <2>2 DEF Payments!Next
<1> QED
  BY <1>6, <1>7

\* recordPayment settles part of its purchase.
LEMMA PaySettles ==
  ASSUME PInv, NEW t \in Tx, CommitPay(t)
  PROVE  Payments!Next
<1> DEFINE payment == [k \in Key |-> [doc |-> payments[k].purchase, n |-> payments[k].n]]
<1>1. PICK p \in Purchase, k \in Key, n \in Nat :
         p = tx[t].purchase /\ k = tx[t].key /\ n = tx[t].n /\ n > 0
  BY DEF PInv, RequestsOK, CommitPay, RowTypes, Request
<1>2. /\ payments' = [payments EXCEPT ![k] = [purchase |-> p, n |-> n]]
      /\ paid' = [paid EXCEPT ![p] = @ + n] /\ purchase' = purchase
      /\ payments[k] = NoRow /\ ~(n > Outstanding(p))
  BY <1>1 DEF CommitPay, Goes, Recorded, Rejected
<1>3. Total(p) \in Nat /\ paid[p] \in Nat
  BY TotalNat DEF PInv, RowTypes
<1>4. paid'[p] - paid[p] = n
  BY <1>2, <1>3 DEF PInv, RowTypes
<1>5. payment[k] = [doc |-> None, n |-> 0]
  BY <1>2 DEF NoRow
<1>6. payment' = [payment EXCEPT ![k] = [doc |-> p, n |-> n]]
  BY <1>2 DEF PInv, RowTypes
<1>7. [d \in Purchase |-> Total(d)]' = [d \in Purchase |-> Total(d)]
  BY <1>2 DEF Total
<1>8. n <= [d \in Purchase |-> Total(d)][p] - paid[p]
  BY <1>2, <1>3 DEF Outstanding
<1>9. Payments!Settle(p, k, n)
  BY <1>1, <1>2, <1>5, <1>6, <1>7, <1>8 DEF Payments!Settle, Payments!Unused
<1> QED
  BY <1>4, <1>9 DEF Payments!Settle, Payments!Next

\* Every step is a step of Settlement, or invisible to it.
LEMMA StepSettles ==
  ASSUME PInv, PInv', [Next]_vars
  PROVE  [Payments!Next]_(Payments!vars)
<1>1. ASSUME NEW t \in Tx, CommitCreate(t)
      PROVE  [Payments!Next]_(Payments!vars)
  BY <1>1, CreateIssues DEF PInv, RequestsOK, CommitCreate
<1>2. ASSUME NEW t \in Tx, CommitReceive(t) \/ CommitCancel(t)
      PROVE  UNCHANGED Payments!vars
  BY <1>2, Stutter DEF CommitReceive, CommitCancel, PInv, RowTypes, PurchaseRow
<1>3. ASSUME NEW t \in Tx,
             \/ BeginCreate(t) \/ BeginReceive(t) \/ BeginPay(t)
             \/ BeginReturn(t) \/ BeginCancel(t) \/ CommitReturn(t) \/ RolledBack(t)
      PROVE  UNCHANGED Payments!vars
  <2>1. UNCHANGED <<purchase, paid, payments>>
    BY <1>3 DEF BeginCreate, BeginReceive, BeginPay, BeginReturn, BeginCancel, Begin,
                CommitReturn, RolledBack, rows
  <2> QED
    BY <2>1, Stutter
<1>4. CASE IssueElsewhere \/ UNCHANGED vars
  BY <1>4, Stutter DEF IssueElsewhere, vars, rows
<1> QED
  BY <1>1, <1>2, <1>3, <1>4, PaySettles, Zenon DEF Next, Refuse, Replay, Lose

\* Payments to a supplier take effect one after the other, once per key, within
\* what is due, for any number of purchases and of requests at the same time.
THEOREM SettlementImplemented == Spec => ImplementsSettlement
<1>1. Init => Payments!Init
  <2> SUFFICES ASSUME Init PROVE Payments!Init
    OBVIOUS
  <2>1. \A p \in Purchase : Total(p) = 0
    BY InitPInv, TotalNat DEF PInv, Init, NoPurchase
  <2>2. [k \in Key |-> [doc |-> payments[k].purchase, n |-> payments[k].n]]
           = [k \in Key |-> [doc |-> None, n |-> 0]]
    BY DEF Init, NoRow
  <2> QED
    BY <2>1, <2>2 DEF Init, Payments!Init, Payments!Unused
<1>2. PInv /\ PInv' /\ [Next]_vars => [Payments!Next]_(Payments!vars)
  BY StepSettles
<1> QED
  BY <1>1, <1>2, PInvariance, PTL DEF Spec, ImplementsSettlement, Payments!Spec

-----------------------------------------------------------------------------
(***************************************************************************)
(* The books: journal, ledger, stock and numbers follow the rows.          *)
(***************************************************************************)

\* The rest of the types, and what a return and an ordered line are.
BookTypes ==
    /\ returns \in [Key -> KeyedRow]
    /\ stock \in Nat
    /\ issued \in Nat
    /\ journal \in Seq(PurchaseEntry)
    /\ ledger \in [Purchase -> Lines]
    /\ \A t \in Tx : tx[t].op = "return" => tx[t].key \in Key
    /\ \A p \in Purchase : purchase[p].status # "none" => purchase[p].line \in Order

\* As many entries of a kind as keys, and finitely many of both.
Matches(j, table, p, kind) ==
    /\ IsFiniteSet(Keyed(table, p))
    /\ Cardinality(PostedAs(j, p, kind)) = Cardinality(Keyed(table, p))

\* A purchase that waits for its goods has no receipt and no return.
CountsOK ==
    \A p \in Purchase :
        /\ Matches(journal, payments, p, "payment")
        /\ Matches(journal, returns, p, "return")
        /\ Cardinality(PostedAs(journal, p, "receipt")) <= 1
        /\ purchase[p].status \in {"none", "ordered"} =>
              PostedAs(journal, p, "receipt") = {} /\ Keyed(returns, p) = {}

There == {p \in Purchase : purchase[p].status # "none"}

\* The number drawn next is the one that is missing.
NumbersOK == sequence = Cardinality(There) + 1 /\ NumbersGapless

\* What went back of a purchase, as functions to be summed.
NetParts(p) == [k \in Keyed(returns, p) |-> ReturnNet(p, returns[k].n)]

TaxParts(p) == [k \in Keyed(returns, p) |-> ReturnTax(p, returns[k].n)]

BackNet(p) == SumFunction(NetParts(p))

BackTax(p) == SumFunction(TaxParts(p))

LEMMA BackIs ==
  ASSUME NEW p
  PROVE  Back(p, ReturnNet) = BackNet(p) /\ Back(p, ReturnTax) = BackTax(p)
  BY DEF Back, BackNet, BackTax, NetParts, TaxParts

LEMMA BackIsNext ==
  ASSUME NEW p
  PROVE  Back(p, ReturnNet)' = BackNet(p)' /\ Back(p, ReturnTax)' = BackTax(p)'
  BY DEF Back, BackNet, BackTax, NetParts, TaxParts

\* BooksMatchPurchase account by account; nothing is booked before the receipt.
BookOK(p) ==
    LET o == purchase[p].line
        net == Net(o) - BackNet(p)
        tax == Tax(o) - BackTax(p)
        l == ledger[p]
    IN  /\ purchase[p].status \in {"none", "ordered"} => \A a \in Account : l[a] = 0
        /\ purchase[p].status = "received" =>
              /\ l["ap"] = paid[p] - net - tax /\ l["cash"] = -paid[p]
              /\ l["inventory"] = net /\ l["vat"] = tax
              /\ \A a \in Account \ {"ap", "cash", "inventory", "vat"} : l[a] = 0
              /\ moved[p] = o.qty - returned[p]

BooksOK == \A p \in Purchase : BookOK(p)

\* The inductive invariant of the books.
BInv == BookTypes /\ CountsOK /\ StockIsSumOfMovements /\ NumbersOK /\ BooksOK
        /\ ReturnDriftBounded

-----------------------------------------------------------------------------
\* What is rounded, on the other side of the product.
LEMMA RoundedPart ==
  ASSUME NEW m \in Nat, NEW d \in Nat \ {0}
  PROVE  /\ RoundDiv(m, d) \in Nat
         /\ -d <= 2 * (RoundDiv(m, d) * d - m)
         /\ 2 * (RoundDiv(m, d) * d - m) <= d
<1>1. /\ RoundDiv(m, d) \in Nat
      /\ -d <= 2 * (d * RoundDiv(m, d) - m)
      /\ 2 * (d * RoundDiv(m, d) - m) <= d
  BY RoundBound
<1>2. RoundDiv(m, d) * d = d * RoundDiv(m, d)
  BY <1>1
<1> QED
  BY <1>1, <1>2

\* A line that was ordered, and what part of it is worth when it goes back.
LEMMA OrderedLine ==
  ASSUME PInv, BookTypes, NEW p \in Purchase, purchase[p].status # "none"
  PROVE  LET o == purchase[p].line IN
         /\ o.qty \in Nat \ {0} /\ Net(o) \in Nat /\ Tax(o) \in Nat
         /\ \A n \in Nat :
               /\ ReturnNet(p, n) \in Nat /\ ReturnTax(p, n) \in Nat
               /\ -o.qty <= 2 * (ReturnNet(p, n) * o.qty - Net(o) * n)
               /\ 2 * (ReturnNet(p, n) * o.qty - Net(o) * n) <= o.qty
               /\ -o.qty <= 2 * (ReturnTax(p, n) * o.qty - Tax(o) * n)
               /\ 2 * (ReturnTax(p, n) * o.qty - Tax(o) * n) <= o.qty
<1> DEFINE o == purchase[p].line
<1>1. o \in Order /\ o.discount <= Gross(o)
  BY DEF BookTypes, PInv, RowsOK
<1>2. o.qty \in Nat \ {0}
  BY <1>1, PurchasesAssumption
<1>3. Net(o) \in Nat /\ Tax(o) \in Nat
  BY <1>1, LineWorth
<1> HIDE DEF o
<1>4. \A n \in Nat : Net(o) * n \in Nat /\ Tax(o) * n \in Nat
  BY <1>3, MulNat
<1>5. \A n \in Nat : ReturnNet(p, n) = RoundDiv(Net(o) * n, o.qty)
                     /\ ReturnTax(p, n) = RoundDiv(Tax(o) * n, o.qty)
  BY DEF ReturnNet, ReturnTax, o
<1>6. \A m \in Nat : /\ RoundDiv(m, o.qty) \in Nat
                      /\ -o.qty <= 2 * (RoundDiv(m, o.qty) * o.qty - m)
                      /\ 2 * (RoundDiv(m, o.qty) * o.qty - m) <= o.qty
  BY <1>2, RoundedPart, Zenon
<1> QED
  BY <1>2, <1>3, <1>4, <1>5, <1>6 DEF o

\* What went back is a number, and nothing before the first return.
LEMMA BackType ==
  ASSUME PInv, BookTypes, CountsOK, NEW p \in Purchase, purchase[p].status # "none"
  PROVE  /\ BackNet(p) \in Int /\ BackTax(p) \in Int
         /\ IsFiniteSet(Keyed(returns, p)) /\ Cardinality(Keyed(returns, p)) \in Nat
         /\ Keyed(returns, p) = {} => BackNet(p) = 0 /\ BackTax(p) = 0
<1>1. IsFiniteSet(Keyed(returns, p))
  BY DEF CountsOK, Matches
<1>2. \A k \in Keyed(returns, p) : returns[k].n \in Nat
  BY DEF BookTypes, Keyed, KeyedRow
<1>3. /\ DOMAIN NetParts(p) = Keyed(returns, p) /\ DOMAIN TaxParts(p) = Keyed(returns, p)
      /\ \A k \in Keyed(returns, p) : NetParts(p)[k] \in Int /\ TaxParts(p)[k] \in Int
  BY <1>2, OrderedLine DEF NetParts, TaxParts
<1> QED
  BY <1>1, <1>3, SumOfFunction, FS_CardinalityType DEF BackNet, BackTax

\* It stays where neither the line nor the returns of the purchase change.
LEMMA BackKept ==
  ASSUME NEW p \in Purchase, purchase'[p].line = purchase[p].line, returns' = returns
  PROVE  /\ BackNet(p)' = BackNet(p)
         /\ BackTax(p)' = BackTax(p)
<1>1. \A n : ReturnNet(p, n)' = ReturnNet(p, n) /\ ReturnTax(p, n)' = ReturnTax(p, n)
  BY DEF ReturnNet, ReturnTax
<1>2. Keyed(returns, p)' = Keyed(returns, p)
  BY DEF Keyed
<1>3. NetParts(p)' = NetParts(p) /\ TaxParts(p)' = TaxParts(p)
  BY <1>1, <1>2 DEF NetParts, TaxParts
<1> QED
  BY <1>3 DEF BackNet, BackTax

\* A return adds its part to its purchase, and leaves the others alone.
LEMMA BackGrows ==
  ASSUME PInv, BookTypes, CountsOK, NEW p \in Purchase, purchase[p].status # "none",
         NEW k \in Key, NEW n \in Nat, returns[k] = NoRow,
         returns' = [returns EXCEPT ![k] = [purchase |-> p, n |-> n]], purchase' = purchase
  PROVE  /\ BackNet(p)' = BackNet(p) + ReturnNet(p, n)
         /\ BackTax(p)' = BackTax(p) + ReturnTax(p, n)
         /\ Keyed(returns, p)' = Keyed(returns, p) \cup {k} /\ k \notin Keyed(returns, p)
         /\ \A d \in Purchase : d # p =>
               /\ Keyed(returns, d)' = Keyed(returns, d)
               /\ BackNet(d)' = BackNet(d)
               /\ BackTax(d)' = BackTax(d)
<1>1. \A d, m : ReturnNet(d, m)' = ReturnNet(d, m) /\ ReturnTax(d, m)' = ReturnTax(d, m)
  BY DEF ReturnNet, ReturnTax
<1>2. /\ \A m \in Key \ {k} : returns'[m] = returns[m]
      /\ returns'[k].purchase = p /\ returns'[k].n = n
      /\ returns[k].purchase \notin Purchase
  BY PurchasesAssumption DEF BookTypes, NoRow
<1>3. Keyed(returns, p)' = Keyed(returns, p) \cup {k} /\ k \notin Keyed(returns, p)
  BY <1>2 DEF Keyed
<1>4. ASSUME NEW d \in Purchase, d # p
      PROVE  /\ Keyed(returns, d)' = Keyed(returns, d)
             /\ BackNet(d)' = BackNet(d)
             /\ BackTax(d)' = BackTax(d)
  <2>1. Keyed(returns, d)' = Keyed(returns, d)
        /\ \A m \in Keyed(returns, d) : returns'[m] = returns[m]
    BY <1>2, <1>4 DEF Keyed
  <2>2. \A m \in Keyed(returns, d) :
           /\ ReturnNet(d, returns[m].n)' = ReturnNet(d, returns[m].n)
           /\ ReturnTax(d, returns[m].n)' = ReturnTax(d, returns[m].n)
    BY <2>1 DEF ReturnNet, ReturnTax
  <2>3. NetParts(d)' = NetParts(d)
    BY <2>1, <2>2 DEF NetParts
  <2>4. TaxParts(d)' = TaxParts(d)
    BY <2>1, <2>2 DEF TaxParts
  <2> QED
    BY <2>1, <2>3, <2>4 DEF BackNet, BackTax
<1>5. /\ IsFiniteSet(Keyed(returns, p))
      /\ \A m \in Keyed(returns, p) : returns[m].n \in Nat /\ returns'[m] = returns[m]
  BY <1>2, <1>3 DEF CountsOK, Matches, BookTypes, Keyed, KeyedRow
<1>6. /\ DOMAIN NetParts(p) = Keyed(returns, p) /\ DOMAIN TaxParts(p) = Keyed(returns, p)
      /\ \A m \in Keyed(returns, p) :
            /\ NetParts(p)[m] = ReturnNet(p, returns[m].n)
            /\ TaxParts(p)[m] = ReturnTax(p, returns[m].n)
  BY DEF NetParts, TaxParts
<1>7. /\ DOMAIN NetParts(p)' = Keyed(returns, p)' /\ DOMAIN TaxParts(p)' = Keyed(returns, p)'
      /\ \A m \in Keyed(returns, p)' :
            /\ NetParts(p)'[m] = ReturnNet(p, returns'[m].n)
            /\ TaxParts(p)'[m] = ReturnTax(p, returns'[m].n)
  BY <1>1 DEF NetParts, TaxParts
<1>8. \A m \in Nat : ReturnNet(p, m) \in Int /\ ReturnTax(p, m) \in Int
  BY OrderedLine
<1>9. /\ SumFunction(NetParts(p)') = SumFunction(NetParts(p)) + ReturnNet(p, n)
      /\ SumFunction(TaxParts(p)') = SumFunction(TaxParts(p)) + ReturnTax(p, n)
  <2> DEFINE w == NetParts(p)
             v == NetParts(p)'
             x == TaxParts(p)
             y == TaxParts(p)'
  <2>1. /\ IsFiniteSet(DOMAIN w) /\ k \notin DOMAIN w /\ DOMAIN v = DOMAIN w \cup {k}
        /\ v[k] = ReturnNet(p, n) /\ v[k] \in Int
        /\ \A m \in DOMAIN w : w[m] \in Int
        /\ \A m \in DOMAIN w : v[m] = w[m]
    <3>1. DOMAIN w = Keyed(returns, p) /\ DOMAIN v = Keyed(returns, p) \cup {k}
      BY <1>3, <1>6, <1>7
    <3>2. v[k] = ReturnNet(p, n) /\ v[k] \in Int
      BY <1>2, <1>3, <1>7, <1>8
    <3>3. \A m \in DOMAIN w : w[m] \in Int
      BY <3>1, <1>5, <1>6, <1>8
    <3>4. \A m \in DOMAIN w : v[m] = w[m]
      BY <3>1, <1>3, <1>5, <1>6, <1>7
    <3> QED
      BY <3>1, <3>2, <3>3, <3>4, <1>3, <1>5
  <2>2. /\ IsFiniteSet(DOMAIN x) /\ k \notin DOMAIN x /\ DOMAIN y = DOMAIN x \cup {k}
        /\ y[k] = ReturnTax(p, n) /\ y[k] \in Int
        /\ \A m \in DOMAIN x : x[m] \in Int
        /\ \A m \in DOMAIN x : y[m] = x[m]
    <3>1. DOMAIN x = Keyed(returns, p) /\ DOMAIN y = Keyed(returns, p) \cup {k}
      BY <1>3, <1>6, <1>7
    <3>2. y[k] = ReturnTax(p, n) /\ y[k] \in Int
      BY <1>2, <1>3, <1>7, <1>8
    <3>3. \A m \in DOMAIN x : x[m] \in Int
      BY <3>1, <1>5, <1>6, <1>8
    <3>4. \A m \in DOMAIN x : y[m] = x[m]
      BY <3>1, <1>3, <1>5, <1>6, <1>7
    <3> QED
      BY <3>1, <3>2, <3>3, <3>4, <1>3, <1>5
  <2> HIDE DEF w, v, x, y
  <2>3. SumFunction(v) = SumFunction(w) + v[k] /\ SumFunction(y) = SumFunction(x) + y[k]
    BY <2>1, <2>2, SumGrows
  <2> QED
    BY <2>1, <2>2, <2>3 DEF w, v, x, y
<1> QED
  BY <1>3, <1>4, <1>9 DEF BackNet, BackTax

-----------------------------------------------------------------------------
\* The lines of the three entries, account by account.
Booked == {"ap", "cash", "inventory", "vat"}

LEMMA ReceiptLinesValue ==
  ASSUME PInv, BookTypes, NEW p \in Purchase, purchase[p].status # "none"
  PROVE  LET o == purchase[p].line
             l == ReceiptLines(p) IN
         /\ l \in Lines
         /\ l["ap"] = -(Net(o) + Tax(o)) /\ l["cash"] = 0
         /\ l["inventory"] = Net(o) /\ l["vat"] = Tax(o)
         /\ \A a \in Account \ Booked : l[a] = 0
<1> DEFINE o == purchase[p].line
           l == [inventory |-> Net(o), vat |-> Tax(o), ap |-> -Total(p)]
<1>1. Net(o) \in Int /\ Tax(o) \in Int
  BY OrderedLine
<1>2. Total(p) = Net(o) + Tax(o)
  BY DEF Total
<1>3. ReceiptLines(p) = LinesOf(l)
  BY DEF ReceiptLines
<1> HIDE DEF o
<1>4. /\ DOMAIN l = {"inventory", "vat", "ap"}
      /\ l["inventory"] = Net(o) /\ l["vat"] = Tax(o) /\ l["ap"] = -(Net(o) + Tax(o))
  BY <1>2
<1> HIDE DEF l
<1>5. \A a \in DOMAIN l : l[a] \in Int
  BY <1>1, <1>4
<1>6. LinesOf(l) \in Lines
  BY <1>5, LinesOfType
<1>7. /\ LinesOf(l)["ap"] = -(Net(o) + Tax(o)) /\ LinesOf(l)["cash"] = 0
      /\ LinesOf(l)["inventory"] = Net(o) /\ LinesOf(l)["vat"] = Tax(o)
      /\ \A a \in Account \ Booked : LinesOf(l)[a] = 0
  BY <1>4 DEF LinesOf, Account, Booked
<1> QED
  BY <1>3, <1>6, <1>7 DEF o

LEMMA PaymentLinesValue ==
  ASSUME NEW n \in Int
  PROVE  LET l == PaymentLines(n) IN
         /\ l \in Lines /\ l["ap"] = n /\ l["cash"] = -n
         /\ \A a \in Account \ {"ap", "cash"} : l[a] = 0
<1> DEFINE l == [ap |-> n, cash |-> -n]
<1>1. DOMAIN l = {"ap", "cash"} /\ l["ap"] = n /\ l["cash"] = -n
  OBVIOUS
<1>2. PaymentLines(n) = LinesOf(l)
  BY DEF PaymentLines
<1> HIDE DEF l
<1>3. \A a \in DOMAIN l : l[a] \in Int
  BY <1>1
<1>4. LinesOf(l) \in Lines
  BY <1>3, LinesOfType
<1>5. /\ LinesOf(l)["ap"] = n /\ LinesOf(l)["cash"] = -n
      /\ \A a \in Account \ {"ap", "cash"} : LinesOf(l)[a] = 0
  BY <1>1 DEF LinesOf, Account
<1> QED
  BY <1>2, <1>4, <1>5

LEMMA ReturnLinesValue ==
  ASSUME NEW p, NEW n, ReturnNet(p, n) \in Int, ReturnTax(p, n) \in Int
  PROVE  LET l == ReturnLines(p, n) IN
         /\ l \in Lines
         /\ l["ap"] = ReturnNet(p, n) + ReturnTax(p, n) /\ l["cash"] = 0
         /\ l["inventory"] = -ReturnNet(p, n) /\ l["vat"] = -ReturnTax(p, n)
         /\ \A a \in Account \ Booked : l[a] = 0
<1> DEFINE net == ReturnNet(p, n)
           tax == ReturnTax(p, n)
           l == [ap |-> net + tax, inventory |-> -net, vat |-> -tax]
<1>1. ReturnLines(p, n) = LinesOf(l)
  BY DEF ReturnLines
<1>2. net \in Int /\ tax \in Int
  OBVIOUS
<1> HIDE DEF net, tax
<1>3. /\ DOMAIN l = {"ap", "inventory", "vat"}
      /\ l["ap"] = net + tax /\ l["inventory"] = -net /\ l["vat"] = -tax
  OBVIOUS
<1> HIDE DEF l
<1>4. \A a \in DOMAIN l : l[a] \in Int
  BY <1>2, <1>3
<1>5. LinesOf(l) \in Lines
  BY <1>4, LinesOfType
<1>6. /\ LinesOf(l)["ap"] = net + tax /\ LinesOf(l)["cash"] = 0
      /\ LinesOf(l)["inventory"] = -net /\ LinesOf(l)["vat"] = -tax
      /\ \A a \in Account \ Booked : LinesOf(l)[a] = 0
  BY <1>3 DEF LinesOf, Account, Booked
<1> QED
  BY <1>1, <1>5, <1>6 DEF net, tax

\* Posting an entry of a purchase moves its accounts and no other's.
LEMMA PostMoves ==
  ASSUME journal \in Seq(PurchaseEntry), ledger \in [Purchase -> Lines],
         NEW p \in Purchase, NEW kind \in {"receipt", "payment", "return"},
         NEW l \in Lines, Post(p, kind, l)
  PROVE  /\ journal' \in Seq(PurchaseEntry) /\ ledger' \in [Purchase -> Lines]
         /\ \A a \in Account : ledger'[p][a] = ledger[p][a] + l[a]
         /\ \A d \in Purchase : d # p => ledger'[d] = ledger[d]
<1>1. journal' = PostEntry(journal, p, kind, l)
      /\ ledger' = [ledger EXCEPT ![p] = AddLines(@, l)]
  BY DEF Post
<1>2. journal' \in Seq(PurchaseEntry)
  BY <1>1, PostEntryType DEF PurchaseEntry
<1>3. /\ AddLines(ledger[p], l) \in Lines
      /\ \A a \in Account : AddLines(ledger[p], l)[a] = ledger[p][a] + l[a]
  BY AddLinesType
<1> QED
  BY <1>1, <1>2, <1>3

\* A key that takes effect is one more of its purchase.
LEMMA KeyRecorded ==
  ASSUME NEW table, NEW next, NEW k \in Key, NEW p \in Purchase,
         table[k] = NoRow, next[k].purchase = p, \A m \in Key \ {k} : next[m] = table[m],
         IsFiniteSet(Keyed(table, p))
  PROVE  /\ IsFiniteSet(Keyed(next, p))
         /\ Cardinality(Keyed(next, p)) = Cardinality(Keyed(table, p)) + 1
         /\ \A d \in Purchase : d # p => Keyed(next, d) = Keyed(table, d)
<1>1. /\ \A m \in Key \ {k} : next[m] = table[m]
      /\ next[k].purchase = p /\ table[k].purchase \notin Purchase
  BY PurchasesAssumption DEF NoRow
<1>2. Keyed(next, p) = Keyed(table, p) \cup {k} /\ k \notin Keyed(table, p)
  BY <1>1 DEF Keyed
<1>3. \A d \in Purchase : d # p => Keyed(next, d) = Keyed(table, d)
  BY <1>1 DEF Keyed
<1> DEFINE S == Keyed(table, p)
<1>4. IsFiniteSet(S) /\ k \notin S
  BY <1>2
<1> HIDE DEF S
<1>5. IsFiniteSet(S \cup {k}) /\ Cardinality(S \cup {k}) = Cardinality(S) + 1
  BY <1>4, FS_AddElement
<1> QED
  BY <1>2, <1>3, <1>5 DEF S

-----------------------------------------------------------------------------
\* The keys of open returns, and the lines of purchases, are what requests gave.
LEMMA RequestsGive ==
  ASSUME PInv, BookTypes, [Next]_vars
  PROVE  /\ \A u \in Tx : tx'[u].op = "return" => tx'[u].key \in Key
         /\ \A p \in Purchase : purchase'[p].status # "none" => purchase'[p].line \in Order
<1> DEFINE Keys == \A u \in Tx : tx'[u].op = "return" => tx'[u].key \in Key
           Bought == \A p \in Purchase : purchase'[p].status # "none" => purchase'[p].line \in Order
<1>1. ASSUME NEW t \in Tx, NEW r \in Request, Begin(t, r), r.op = "return" => r.key \in Key
      PROVE  Keys /\ Bought
  BY <1>1 DEF Begin, rows, BookTypes, PInv, RowTypes
<1>2. ASSUME NEW t \in Tx, Finish(t) PROVE Keys
  BY <1>2 DEF Finish, NoRequest, BookTypes, PInv, RowTypes
<1>3. ASSUME NEW t \in Tx, BeginCreate(t) PROVE Keys /\ Bought
  <2>1. PICK p \in Purchase, o \in Order :
           Begin(t, [NoRequest EXCEPT !.op = "create", !.purchase = p, !.line = o])
    BY <1>3 DEF BeginCreate
  <2> DEFINE r == [NoRequest EXCEPT !.op = "create", !.purchase = p, !.line = o]
  <2>2. r \in Request /\ r.op = "create"
    BY DEF NoRequest, Request
  <2> HIDE DEF r
  <2> QED
    BY <1>1, <2>1, <2>2 DEF r
<1>4. ASSUME NEW t \in Tx, BeginReceive(t) \/ BeginCancel(t) PROVE Keys /\ Bought
  <2>1. PICK p \in Purchase, op \in {"receive", "cancel"} :
           Begin(t, [NoRequest EXCEPT !.op = op, !.purchase = p])
    BY <1>4 DEF BeginReceive, BeginCancel
  <2> DEFINE r == [NoRequest EXCEPT !.op = op, !.purchase = p]
  <2>2. r \in Request /\ r.op = op
    BY DEF NoRequest, Request
  <2> HIDE DEF r
  <2> QED
    BY <1>1, <2>1, <2>2 DEF r
<1>5. ASSUME NEW t \in Tx, BeginPay(t) PROVE Keys /\ Bought
  <2>1. PICK p \in Purchase, k \in Key, n \in Amount :
           Begin(t, [NoRequest EXCEPT !.op = "pay", !.purchase = p, !.key = k, !.n = n])
    BY <1>5 DEF BeginPay
  <2>2. n \in Nat
    BY PurchasesAssumption
  <2> DEFINE r == [NoRequest EXCEPT !.op = "pay", !.purchase = p, !.key = k, !.n = n]
  <2>3. r \in Request /\ r.op = "pay"
    BY <2>2 DEF NoRequest, Request
  <2> HIDE DEF r
  <2> QED
    BY <1>1, <2>1, <2>3 DEF r
<1>6. ASSUME NEW t \in Tx, BeginReturn(t) PROVE Keys /\ Bought
  <2>1. PICK p \in Purchase, k \in Key, q \in Qty :
           Begin(t, [NoRequest EXCEPT !.op = "return", !.purchase = p, !.key = k, !.n = q])
    BY <1>6 DEF BeginReturn
  <2>2. q \in Nat
    BY PurchasesAssumption
  <2> DEFINE r == [NoRequest EXCEPT !.op = "return", !.purchase = p, !.key = k, !.n = q]
  <2>3. r \in Request /\ r.key = k
    BY <2>2 DEF NoRequest, Request
  <2> HIDE DEF r
  <2> QED
    BY <1>1, <2>1, <2>3 DEF r
<1>7. ASSUME NEW t \in Tx, CommitCreate(t) PROVE Keys /\ Bought
  <2>1. Finish(t) /\ tx[t].purchase \in Purchase /\ tx[t].line \in Order
    BY <1>7 DEF CommitCreate, PInv, RequestsOK
  <2>2. Bought
    BY <1>7, <2>1 DEF CommitCreate, BookTypes, PInv, RowTypes
  <2> QED
    BY <1>2, <2>1, <2>2
<1>8. ASSUME NEW t \in Tx, CommitReceive(t) PROVE Keys /\ Bought
  <2>1. Finish(t) /\ tx[t].purchase \in Purchase /\ purchase[tx[t].purchase].status # "none"
    BY <1>8 DEF CommitReceive, PInv, RequestsOK
  <2>2. Bought
    BY <1>8, <2>1 DEF CommitReceive, BookTypes, PInv, RowTypes, PurchaseRow
  <2> QED
    BY <1>2, <2>1, <2>2
<1>9. ASSUME NEW t \in Tx, CommitCancel(t) PROVE Keys /\ Bought
  <2>1. Finish(t) /\ tx[t].purchase \in Purchase /\ purchase[tx[t].purchase].status # "none"
    BY <1>9 DEF CommitCancel, PInv, RequestsOK
  <2>2. Bought
    BY <1>9, <2>1 DEF CommitCancel, BookTypes, PInv, RowTypes, PurchaseRow
  <2> QED
    BY <1>2, <2>1, <2>2
<1>10. ASSUME NEW t \in Tx, CommitPay(t) \/ CommitReturn(t) \/ RolledBack(t)
       PROVE  Keys /\ Bought
  BY <1>2, <1>10 DEF CommitPay, CommitReturn, RolledBack, rows, BookTypes
<1>11. CASE IssueElsewhere \/ UNCHANGED vars
  BY <1>11 DEF IssueElsewhere, vars, rows, BookTypes
<1> QED
  BY <1>3, <1>4, <1>5, <1>6, <1>7, <1>8, <1>9, <1>10, <1>11, Zenon
     DEF Next, Refuse, Replay, Lose

-----------------------------------------------------------------------------
\* The drift of one amount of a line, and of both.
Within(part, whole, q, ret, n) ==
    /\ -(n * q) <= 2 * (part * q - whole * ret)
    /\ 2 * (part * q - whole * ret) <= n * q

DriftOK(p) ==
    LET o == purchase[p].line
        n == Cardinality(Keyed(returns, p))
    IN  purchase[p].status = "received" =>
            /\ Within(BackNet(p), Net(o), o.qty, returned[p], n)
            /\ Within(BackTax(p), Tax(o), o.qty, returned[p], n)

LEMMA DriftIs == ReturnDriftBounded <=> \A p \in Purchase : DriftOK(p)
  BY BackIs DEF ReturnDriftBounded, DriftOK, Within

LEMMA DriftIsNext == (\A p \in Purchase : DriftOK(p)') => ReturnDriftBounded'
  BY BackIsNext DEF ReturnDriftBounded, DriftOK, Within

\* One more part, off by half a unit at most, may drift half a unit further.
LEMMA DriftAdds ==
  ASSUME NEW part \in Int, NEW whole \in Int, NEW q \in Int, NEW ret \in Int, NEW n \in Int,
         NEW more \in Int, NEW m \in Int, Within(part, whole, q, ret, n),
         -q <= 2 * (more * q - whole * m), 2 * (more * q - whole * m) <= q
  PROVE  Within(part + more, whole, q, ret + m, n + 1)
<1>1. /\ (part + more) * q = part * q + more * q
      /\ whole * (ret + m) = whole * ret + whole * m
      /\ (n + 1) * q = n * q + q
  OBVIOUS
<1>2. /\ part * q \in Int /\ more * q \in Int /\ n * q \in Int
      /\ whole * ret \in Int /\ whole * m \in Int
  OBVIOUS
<1> QED
  BY <1>1, <1>2 DEF Within

\* A purchase whose rows and accounts a step leaves alone keeps its books.
LEMMA Untouched ==
  ASSUME NEW d \in Purchase, BookOK(d), DriftOK(d),
         purchase'[d].line = purchase[d].line,
         BackNet(d)' = BackNet(d), BackTax(d)' = BackTax(d),
         Keyed(returns, d)' = Keyed(returns, d),
         ledger'[d] = ledger[d], paid'[d] = paid[d],
         returned'[d] = returned[d], moved'[d] = moved[d],
         purchase'[d].status \in {"none", "ordered"} => purchase[d].status \in {"none", "ordered"},
         purchase'[d].status = "received" => purchase[d].status = "received"
  PROVE  BookOK(d)' /\ DriftOK(d)'
<1>1. BookOK(d)'
  BY DEF BookOK
<1>2. DriftOK(d)'
  BY DEF DriftOK
<1> QED
  BY <1>1, <1>2

\* Entries and keys stay matched where neither is written.
LEMMA CountsKept ==
  ASSUME CountsOK, journal' = journal, payments' = payments, returns' = returns,
         \A p \in Purchase : purchase'[p].status \in {"none", "ordered"} =>
                                purchase[p].status \in {"none", "ordered"}
  PROVE  CountsOK'
  BY DEF CountsOK, Matches, Keyed

\* The numbers stay gapless where no purchase is created.
LEMMA NumbersKept ==
  ASSUME NumbersOK, sequence' = sequence,
         \A p \in Purchase : /\ purchase'[p].number = purchase[p].number
                             /\ purchase'[p].status = "none" <=> purchase[p].status = "none"
  PROVE  NumbersOK'
<1>1. There' = There
  BY DEF There
<1>2. {purchase'[p].number : p \in There} = {purchase[p].number : p \in There}
  BY DEF There
<1> QED
  BY <1>1, <1>2 DEF NumbersOK, NumbersGapless, There

\* createPurchase takes the next number and books nothing.
LEMMA CreateBooks ==
  ASSUME PInv, BInv, NEW t \in Tx, CommitCreate(t)
  PROVE  /\ CountsOK' /\ NumbersOK' /\ BooksOK' /\ ReturnDriftBounded'
         /\ UNCHANGED <<journal, ledger, stock, issued, moved, returns>>
<1>1. PICK p \in Purchase, o \in Order :
         /\ purchase[p].status = "none"
         /\ purchase' = [purchase EXCEPT ![p] =
                            [status |-> "ordered", number |-> sequence, line |-> o]]
         /\ sequence' = sequence + 1
         /\ UNCHANGED <<payments, paid, returns, returned, goods, books>>
  BY DEF CommitCreate, PInv, RequestsOK, Goes, Recorded
<1>2. /\ purchase'[p].status = "ordered" /\ purchase'[p].number = sequence
      /\ \A d \in Purchase : d # p => purchase'[d] = purchase[d]
  BY <1>1 DEF PInv, RowTypes
<1>3. CountsOK'
  BY <1>1, <1>2, CountsKept DEF BInv, books
<1>4. NumbersOK'
  <2>1. p \notin There /\ There' = There \cup {p}
    BY <1>1, <1>2 DEF There
  <2>2. IsFiniteSet(There) /\ Cardinality(There) \in Nat
    BY PurchasesAssumption, FS_Subset, FS_CardinalityType DEF There
  <2>3. Cardinality(There \cup {p}) = Cardinality(There) + 1
    BY <2>1, <2>2, FS_AddElement
  <2>4. /\ sequence = Cardinality(There) + 1
        /\ {purchase[d].number : d \in There} = 1..Cardinality(There)
    BY DEF BInv, NumbersOK, NumbersGapless, There
  <2>5. {purchase'[d].number : d \in There} = {purchase[d].number : d \in There}
    BY <1>2, <2>1 DEF There
  <2>6. {purchase'[d].number : d \in There \cup {p}}
           = {purchase'[d].number : d \in There} \cup {sequence}
    BY <1>2
  <2>7. 1..(Cardinality(There) + 1) = 1..Cardinality(There) \cup {Cardinality(There) + 1}
    BY <2>2
  <2>8. {purchase'[d].number : d \in There'} = 1..Cardinality(There')
    BY <2>1, <2>3, <2>4, <2>5, <2>6, <2>7
  <2>9. sequence' = Cardinality(There') + 1
    BY <1>1, <2>1, <2>3, <2>4
  <2> QED
    BY <2>8, <2>9 DEF NumbersOK, NumbersGapless, There
<1>5. \A d \in Purchase : BookOK(d)' /\ DriftOK(d)'
  <2>1. ASSUME NEW d \in Purchase, d # p PROVE BookOK(d)' /\ DriftOK(d)'
    <3>1. purchase'[d] = purchase[d] /\ UNCHANGED <<returns, ledger, paid, returned, moved>>
      BY <1>1, <1>2, <2>1 DEF goods, books
    <3>2. BookOK(d) /\ DriftOK(d)
      BY DriftIs DEF BInv, BooksOK
    <3>3. Keyed(returns, d)' = Keyed(returns, d)
      BY <3>1 DEF Keyed
    <3> QED
      BY <3>1, <3>2, <3>3, BackKept, Untouched
  <2>2. BookOK(p)'
    <3>1. BookOK(p) /\ ledger' = ledger
      BY <1>1 DEF BInv, BooksOK, books
    <3>2. \A a \in Account : ledger[p][a] = 0
      BY <1>1, <3>1 DEF BookOK
    <3> QED
      BY <1>2, <3>1, <3>2 DEF BookOK
  <2>3. DriftOK(p)'
    BY <1>2 DEF DriftOK
  <2> QED
    BY <2>1, <2>2, <2>3
<1>6. BooksOK' /\ ReturnDriftBounded'
  BY <1>5, DriftIsNext DEF BooksOK
<1> QED
  BY <1>1, <1>3, <1>4, <1>6 DEF goods, books

\* receivePurchase books the whole purchase: nothing went back or was paid yet.
LEMMA ReceiveBooks ==
  ASSUME PInv, BInv, NEW t \in Tx, CommitReceive(t)
  PROVE  /\ CountsOK' /\ NumbersOK' /\ BooksOK' /\ ReturnDriftBounded'
         /\ journal' \in Seq(PurchaseEntry) /\ ledger' \in [Purchase -> Lines]
         /\ StockIsSumOfMovements' /\ stock' \in Nat
         /\ UNCHANGED <<issued, returns>>
<1>1. PICK p \in Purchase : p = tx[t].purchase
  BY DEF CommitReceive, PInv, RequestsOK
<1> DEFINE o == purchase[p].line
           l == ReceiptLines(p)
<1>2. /\ purchase[p].status = "ordered"
      /\ purchase' = [purchase EXCEPT ![p].status = "received"]
      /\ Move(p, o.qty) /\ Post(p, "receipt", l)
      /\ UNCHANGED <<sequence, payments, paid, returns, returned, issued>>
  BY <1>1 DEF CommitReceive, Goes, Rejected, PInv, RowTypes
<1>3. /\ purchase'[p].status = "received" /\ purchase'[p].line = o
      /\ purchase'[p].number = purchase[p].number
      /\ \A d \in Purchase : d # p => purchase'[d] = purchase[d]
  BY <1>2 DEF PInv, RowTypes, PurchaseRow
<1>4. /\ o.qty \in Nat \ {0} /\ Net(o) \in Nat /\ Tax(o) \in Nat
  BY <1>2, OrderedLine DEF BInv
<1>5. /\ l \in Lines
      /\ l["ap"] = -(Net(o) + Tax(o)) /\ l["cash"] = 0
      /\ l["inventory"] = Net(o) /\ l["vat"] = Tax(o)
      /\ \A a \in Account \ Booked : l[a] = 0
  BY <1>2, ReceiptLinesValue DEF BInv
<1>6. paid[p] = 0 /\ returned[p] = 0 /\ moved[p] = 0
  BY <1>2 DEF PInv, RowsOK
<1>7. \A a \in Account : ledger[p][a] = 0
  BY <1>2 DEF BInv, BooksOK, BookOK
<1>8. Keyed(returns, p) = {} /\ BackNet(p) = 0 /\ BackTax(p) = 0
  BY <1>2, BackType DEF BInv, CountsOK
<1>9. stock' = stock + o.qty /\ moved' = [moved EXCEPT ![p] = @ + o.qty]
  BY <1>2 DEF Move
<1> HIDE DEF o, l
<1>10. /\ journal' \in Seq(PurchaseEntry) /\ ledger' \in [Purchase -> Lines]
       /\ \A a \in Account : ledger'[p][a] = ledger[p][a] + l[a]
       /\ \A d \in Purchase : d # p => ledger'[d] = ledger[d]
  BY <1>2, <1>5, PostMoves DEF BInv, BookTypes
<1>11. CountsOK'
  <2>1. journal' = PostEntry(journal, p, "receipt", l) /\ journal \in Seq(PurchaseEntry)
    BY <1>2 DEF Post, BInv, BookTypes
  <2>2. /\ Cardinality(PostedAs(journal', p, "receipt"))
              = Cardinality(PostedAs(journal, p, "receipt")) + 1
        /\ \A d, other : d # p \/ other # "receipt" =>
              PostedAs(journal', d, other) = PostedAs(journal, d, other)
    BY <2>1, PostAdds
  <2>3. PostedAs(journal, p, "receipt") = {}
    BY <1>2 DEF BInv, CountsOK
  <2>4. Cardinality(PostedAs(journal', p, "receipt")) <= 1
    BY <2>2, <2>3, FS_EmptySet
  <2>5. \A d \in Purchase : Keyed(returns, d)' = Keyed(returns, d)
                            /\ Keyed(payments, d)' = Keyed(payments, d)
    BY <1>2 DEF Keyed
  <2>6. ASSUME NEW d \in Purchase
        PROVE  /\ Matches(journal, payments, d, "payment")'
               /\ Matches(journal, returns, d, "return")'
    BY <2>2, <2>5 DEF Matches, BInv, CountsOK
  <2>7. ASSUME NEW d \in Purchase
        PROVE  /\ Cardinality(PostedAs(journal', d, "receipt")) <= 1
               /\ purchase'[d].status \in {"none", "ordered"} =>
                     PostedAs(journal', d, "receipt") = {} /\ Keyed(returns, d)' = {}
    BY <1>3, <2>2, <2>4, <2>5 DEF BInv, CountsOK
  <2> QED
    BY <2>6, <2>7 DEF CountsOK
<1>12. NumbersOK'
  BY <1>2, <1>3, NumbersKept DEF BInv
<1>13. /\ Keyed(returns, p)' = {} /\ Cardinality(Keyed(returns, p)') = 0
       /\ BackNet(p)' = 0 /\ BackTax(p)' = 0
  <2>1. Keyed(returns, p)' = Keyed(returns, p)
    BY <1>2 DEF Keyed
  <2> QED
    BY <1>2, <1>3, <1>8, <2>1, BackKept, FS_EmptySet DEF o
<1>14. BookOK(p)'
  <2>1. /\ ledger'[p]["ap"] = paid'[p] - (Net(o) - 0) - (Tax(o) - 0)
        /\ ledger'[p]["cash"] = -paid'[p]
        /\ ledger'[p]["inventory"] = Net(o) - 0 /\ ledger'[p]["vat"] = Tax(o) - 0
    BY <1>2, <1>4, <1>5, <1>6, <1>7, <1>10 DEF Account
  <2>2. \A a \in Account \ {"ap", "cash", "inventory", "vat"} : ledger'[p][a] = 0
    BY <1>5, <1>7, <1>10 DEF Booked
  <2>3. moved'[p] = o.qty - returned'[p]
    BY <1>2, <1>4, <1>6, <1>9 DEF PInv, RowTypes
  <2> QED
    BY <1>3, <1>13, <2>1, <2>2, <2>3 DEF BookOK
<1>15. DriftOK(p)'
  <2>1. \A n \in Int : n * 0 = 0 /\ 0 * n = 0
    OBVIOUS
  <2>2. Within(0, Net(o), o.qty, 0, 0) /\ Within(0, Tax(o), o.qty, 0, 0)
    BY <1>4, <2>1 DEF Within
  <2> QED
    BY <1>2, <1>3, <1>6, <1>13, <2>2 DEF DriftOK
<1>16. ASSUME NEW d \in Purchase, d # p PROVE BookOK(d)' /\ DriftOK(d)'
  <2>1. /\ purchase'[d] = purchase[d] /\ ledger'[d] = ledger[d] /\ moved'[d] = moved[d]
        /\ UNCHANGED <<returns, paid, returned>>
    BY <1>2, <1>3, <1>9, <1>10, <1>16 DEF PInv, RowTypes
  <2>2. BookOK(d) /\ DriftOK(d)
    BY DriftIs DEF BInv, BooksOK
  <2>3. Keyed(returns, d)' = Keyed(returns, d)
    BY <2>1 DEF Keyed
  <2> QED
    BY <2>1, <2>2, <2>3, BackKept, Untouched
<1>17. BooksOK' /\ ReturnDriftBounded'
  BY <1>14, <1>15, <1>16, DriftIsNext DEF BooksOK
<1>18. StockIsSumOfMovements' /\ stock' \in Nat
  <2>1. /\ moved \in [Purchase -> Int] /\ IsFiniteSet(Purchase) /\ o.qty \in Int
        /\ moved' = [moved EXCEPT ![p] = @ + o.qty]
    BY <1>4, <1>9, PurchasesAssumption DEF PInv, RowTypes
  <2>2. SumFunction(moved') = SumFunction(moved) + o.qty /\ SumFunction(moved) \in Int
    BY <2>1, SumMoves
  <2> QED
    BY <1>2, <1>4, <1>9, <2>2, PurchasesAssumption
       DEF BInv, BookTypes, StockIsSumOfMovements
<1> QED
  BY <1>2, <1>10, <1>11, <1>12, <1>17, <1>18

\* recordPayment: one entry and one key more, what is owed moves to cash.
LEMMA PayBooks ==
  ASSUME PInv, BInv, NEW t \in Tx, CommitPay(t)
  PROVE  /\ CountsOK' /\ NumbersOK' /\ BooksOK' /\ ReturnDriftBounded'
         /\ journal' \in Seq(PurchaseEntry) /\ ledger' \in [Purchase -> Lines]
         /\ UNCHANGED <<stock, issued, moved, returns>>
<1>1. PICK p \in Purchase, k \in Key, n \in Nat :
         /\ p = tx[t].purchase /\ k = tx[t].key /\ n = tx[t].n
         /\ purchase[p].status \in {"received", "cancelled"}
  BY DEF CommitPay, PInv, RequestsOK, RowTypes, Request
<1> DEFINE l == PaymentLines(n)
<1>2. /\ payments[k] = NoRow
      /\ payments' = [payments EXCEPT ![k] = [purchase |-> p, n |-> n]]
      /\ paid' = [paid EXCEPT ![p] = @ + n]
      /\ Post(p, "payment", l)
      /\ UNCHANGED <<purchase, sequence, returns, returned, goods>>
  BY <1>1 DEF CommitPay, Goes, Recorded
<1>3. /\ l \in Lines /\ l["ap"] = n /\ l["cash"] = -n
      /\ \A a \in Account \ {"ap", "cash"} : l[a] = 0
  BY PaymentLinesValue
<1> HIDE DEF l
<1>4. /\ journal' \in Seq(PurchaseEntry) /\ ledger' \in [Purchase -> Lines]
      /\ \A a \in Account : ledger'[p][a] = ledger[p][a] + l[a]
      /\ \A d \in Purchase : d # p => ledger'[d] = ledger[d]
  BY <1>2, <1>3, PostMoves DEF BInv, BookTypes
<1>5. CountsOK'
  <2>1. journal' = PostEntry(journal, p, "payment", l) /\ journal \in Seq(PurchaseEntry)
    BY <1>2 DEF Post, BInv, BookTypes
  <2>2. /\ Cardinality(PostedAs(journal', p, "payment"))
              = Cardinality(PostedAs(journal, p, "payment")) + 1
        /\ \A d, other : d # p \/ other # "payment" =>
              PostedAs(journal', d, other) = PostedAs(journal, d, other)
    BY <2>1, PostAdds
  <2>3. /\ payments \in [Key -> KeyedRow] /\ IsFiniteSet(Keyed(payments, p))
        /\ payments[k] = NoRow
        /\ payments' = [payments EXCEPT ![k] = [purchase |-> p, n |-> n]]
    BY <1>2 DEF PInv, RowTypes, BInv, CountsOK, Matches
  <2>4. /\ IsFiniteSet(Keyed(payments', p))
        /\ Cardinality(Keyed(payments', p)) = Cardinality(Keyed(payments, p)) + 1
        /\ \A d \in Purchase : d # p => Keyed(payments', d) = Keyed(payments, d)
    <3>1. /\ payments'[k].purchase = p /\ IsFiniteSet(Keyed(payments, p))
          /\ payments[k] = NoRow /\ \A m \in Key \ {k} : payments'[m] = payments[m]
      BY <2>3
    <3> QED
      BY <1>1, <3>1, KeyRecorded
  <2>5. \A d \in Purchase : Matches(journal', payments', d, "payment")
    BY <2>2, <2>4 DEF Matches, BInv, CountsOK
  <2>6. \A d \in Purchase : Matches(journal', returns', d, "return")
    BY <1>2, <2>2 DEF Matches, BInv, CountsOK
  <2>7. ASSUME NEW d \in Purchase
        PROVE  /\ Cardinality(PostedAs(journal', d, "receipt")) <= 1
               /\ purchase'[d].status \in {"none", "ordered"} =>
                     PostedAs(journal', d, "receipt") = {} /\ Keyed(returns', d) = {}
    BY <1>2, <2>2 DEF BInv, CountsOK
  <2> QED
    BY <2>5, <2>6, <2>7 DEF CountsOK, Matches, Keyed
<1>6. NumbersOK'
  BY <1>2, NumbersKept DEF BInv
<1>7. \A d \in Purchase : /\ Keyed(returns, d)' = Keyed(returns, d)
                          /\ BackNet(d)' = BackNet(d)
                          /\ BackTax(d)' = BackTax(d)
  BY <1>2, BackKept DEF Keyed
<1>8. BookOK(p)'
  <2> SUFFICES ASSUME purchase[p].status = "received" PROVE BookOK(p)'
    BY <1>1, <1>2 DEF BookOK
  <2> DEFINE net == Net(purchase[p].line) - BackNet(p)
             tax == Tax(purchase[p].line) - BackTax(p)
  <2>1. net \in Int /\ tax \in Int /\ paid[p] \in Int /\ paid'[p] = paid[p] + n
    BY <1>2, OrderedLine, BackType DEF BInv, PInv, RowTypes
  <2>2. /\ ledger[p]["ap"] = paid[p] - net - tax /\ ledger[p]["cash"] = -paid[p]
        /\ ledger[p]["inventory"] = net /\ ledger[p]["vat"] = tax
        /\ \A a \in Account \ {"ap", "cash", "inventory", "vat"} : ledger[p][a] = 0
        /\ moved[p] = purchase[p].line.qty - returned[p]
    BY DEF BInv, BooksOK, BookOK
  <2>3. /\ purchase' = purchase /\ moved' = moved /\ returned' = returned
        /\ Net(purchase'[p].line) - BackNet(p)' = net
        /\ Tax(purchase'[p].line) - BackTax(p)' = tax
    BY <1>2, <1>7 DEF goods
  <2> HIDE DEF net, tax
  <2>4. /\ ledger'[p]["ap"] = paid'[p] - net - tax /\ ledger'[p]["cash"] = -paid'[p]
        /\ ledger'[p]["inventory"] = net /\ ledger'[p]["vat"] = tax
    BY <1>3, <1>4, <2>1, <2>2 DEF Account
  <2>5. \A a \in Account \ {"ap", "cash", "inventory", "vat"} : ledger'[p][a] = 0
    BY <1>3, <1>4, <2>2
  <2> QED
    BY <2>2, <2>3, <2>4, <2>5 DEF BookOK
<1>9. DriftOK(p)'
  BY <1>2, <1>7, DriftIs DEF BInv, DriftOK
<1>10. ASSUME NEW d \in Purchase, d # p PROVE BookOK(d)' /\ DriftOK(d)'
  <2>1. /\ purchase'[d] = purchase[d] /\ ledger'[d] = ledger[d] /\ moved'[d] = moved[d]
        /\ returned'[d] = returned[d] /\ paid'[d] = paid[d]
    BY <1>2, <1>4, <1>10 DEF goods, PInv, RowTypes
  <2>2. BookOK(d) /\ DriftOK(d)
    BY DriftIs DEF BInv, BooksOK
  <2> QED
    BY <1>7, <2>1, <2>2, Untouched
<1>11. BooksOK' /\ ReturnDriftBounded'
  BY <1>8, <1>9, <1>10, DriftIsNext DEF BooksOK
<1> QED
  BY <1>2, <1>4, <1>5, <1>6, <1>11 DEF goods

\* createReturn: one entry and one key more, the parts leave inventory and VAT.
LEMMA ReturnBooks ==
  ASSUME PInv, BInv, NEW t \in Tx, CommitReturn(t)
  PROVE  /\ CountsOK' /\ NumbersOK' /\ BooksOK' /\ ReturnDriftBounded'
         /\ journal' \in Seq(PurchaseEntry) /\ ledger' \in [Purchase -> Lines]
         /\ StockIsSumOfMovements' /\ stock' \in Nat
         /\ returns' \in [Key -> KeyedRow] /\ issued' = issued
<1>1. PICK p \in Purchase, k \in Key, n \in Nat :
         /\ p = tx[t].purchase /\ k = tx[t].key /\ n = tx[t].n
         /\ purchase[p].status \in {"received", "cancelled"}
  BY DEF CommitReturn, PInv, BInv, BookTypes, RequestsOK, RowTypes, Request
<1> DEFINE l == ReturnLines(p, n)
           o == purchase[p].line
<1>2. /\ returns[k] = NoRow
      /\ returns' = [returns EXCEPT ![k] = [purchase |-> p, n |-> n]]
      /\ returned' = [returned EXCEPT ![p] = @ + n]
      /\ Move(p, -n) /\ Post(p, "return", l)
      /\ UNCHANGED <<purchase, sequence, payments, paid, issued>>
      /\ CanMove([qty |-> stock, avg |-> 0], -n)
  BY <1>1 DEF CommitReturn, Goes, Recorded, Failed
<1>3. /\ o.qty \in Nat \ {0} /\ Net(o) \in Nat /\ Tax(o) \in Nat
      /\ ReturnNet(p, n) \in Nat /\ ReturnTax(p, n) \in Nat
      /\ -o.qty <= 2 * (ReturnNet(p, n) * o.qty - Net(o) * n)
      /\ 2 * (ReturnNet(p, n) * o.qty - Net(o) * n) <= o.qty
      /\ -o.qty <= 2 * (ReturnTax(p, n) * o.qty - Tax(o) * n)
      /\ 2 * (ReturnTax(p, n) * o.qty - Tax(o) * n) <= o.qty
  BY <1>1, OrderedLine DEF BInv
<1>4. /\ l \in Lines
      /\ l["ap"] = ReturnNet(p, n) + ReturnTax(p, n) /\ l["cash"] = 0
      /\ l["inventory"] = -ReturnNet(p, n) /\ l["vat"] = -ReturnTax(p, n)
      /\ \A a \in Account \ Booked : l[a] = 0
  BY <1>3, ReturnLinesValue
<1> HIDE DEF l
<1>5. /\ journal' \in Seq(PurchaseEntry) /\ ledger' \in [Purchase -> Lines]
      /\ \A a \in Account : ledger'[p][a] = ledger[p][a] + l[a]
      /\ \A d \in Purchase : d # p => ledger'[d] = ledger[d]
  BY <1>2, <1>4, PostMoves DEF BInv, BookTypes
<1>6. returns' \in [Key -> KeyedRow]
  BY <1>2 DEF BInv, BookTypes, KeyedRow
<1>7. CountsOK'
  <2>1. journal' = PostEntry(journal, p, "return", l) /\ journal \in Seq(PurchaseEntry)
    BY <1>2 DEF Post, BInv, BookTypes
  <2>2. /\ Cardinality(PostedAs(journal', p, "return"))
              = Cardinality(PostedAs(journal, p, "return")) + 1
        /\ \A d, other : d # p \/ other # "return" =>
              PostedAs(journal', d, other) = PostedAs(journal, d, other)
    BY <2>1, PostAdds
  <2>3. /\ returns \in [Key -> KeyedRow] /\ IsFiniteSet(Keyed(returns, p))
        /\ returns[k] = NoRow
        /\ returns' = [returns EXCEPT ![k] = [purchase |-> p, n |-> n]]
    BY <1>2 DEF BInv, BookTypes, CountsOK, Matches
  <2>4. /\ IsFiniteSet(Keyed(returns', p))
        /\ Cardinality(Keyed(returns', p)) = Cardinality(Keyed(returns, p)) + 1
        /\ \A d \in Purchase : d # p => Keyed(returns', d) = Keyed(returns, d)
    <3>1. /\ returns'[k].purchase = p /\ IsFiniteSet(Keyed(returns, p))
          /\ returns[k] = NoRow /\ \A m \in Key \ {k} : returns'[m] = returns[m]
      BY <2>3
    <3> QED
      BY <1>1, <3>1, KeyRecorded
  <2>5. \A d \in Purchase : Matches(journal', returns', d, "return")
    BY <2>2, <2>4 DEF Matches, BInv, CountsOK
  <2>6. \A d \in Purchase : Matches(journal', payments', d, "payment")
    BY <1>2, <2>2 DEF Matches, BInv, CountsOK
  <2>7. ASSUME NEW d \in Purchase
        PROVE  /\ Cardinality(PostedAs(journal', d, "receipt")) <= 1
               /\ purchase'[d].status \in {"none", "ordered"} =>
                     PostedAs(journal', d, "receipt") = {} /\ Keyed(returns', d) = {}
    BY <1>1, <1>2, <2>2, <2>4 DEF BInv, CountsOK
  <2> QED
    BY <2>5, <2>6, <2>7 DEF CountsOK, Matches, Keyed
<1>8. NumbersOK'
  BY <1>2, NumbersKept DEF BInv
<1>9. /\ BackNet(p)' = BackNet(p) + ReturnNet(p, n)
      /\ BackTax(p)' = BackTax(p) + ReturnTax(p, n)
      /\ Keyed(returns, p)' = Keyed(returns, p) \cup {k} /\ k \notin Keyed(returns, p)
      /\ \A d \in Purchase : d # p =>
            /\ Keyed(returns, d)' = Keyed(returns, d)
            /\ BackNet(d)' = BackNet(d)
            /\ BackTax(d)' = BackTax(d)
  BY <1>1, <1>2, BackGrows DEF BInv
<1>10. /\ BackNet(p) \in Int /\ BackTax(p) \in Int
       /\ IsFiniteSet(Keyed(returns, p)) /\ Cardinality(Keyed(returns, p)) \in Nat
  BY <1>1, BackType DEF BInv
<1>11. Cardinality(Keyed(returns, p)') = Cardinality(Keyed(returns, p)) + 1
  <2> DEFINE S == Keyed(returns, p)
  <2>1. IsFiniteSet(S) /\ k \notin S
    BY <1>9, <1>10
  <2> HIDE DEF S
  <2>2. Cardinality(S \cup {k}) = Cardinality(S) + 1
    BY <2>1, FS_AddElement
  <2> QED
    BY <1>9, <2>2 DEF S
<1>12. /\ stock' = stock - n /\ moved' = [moved EXCEPT ![p] = @ + -n]
       /\ stock - n >= 0
  BY <1>2 DEF Move, CanMove, BInv, BookTypes
<1>13. returned[p] \in Nat /\ returned'[p] = returned[p] + n
       /\ moved[p] \in Int /\ moved'[p] = moved[p] - n /\ paid[p] \in Int /\ paid'[p] = paid[p]
  BY <1>2, <1>12 DEF PInv, RowTypes
<1>14. BookOK(p)'
  <2> SUFFICES ASSUME purchase[p].status = "received" PROVE BookOK(p)'
    BY <1>1, <1>2 DEF BookOK
  <2> DEFINE net == Net(o) - BackNet(p)
             tax == Tax(o) - BackTax(p)
             rnet == ReturnNet(p, n)
             rtax == ReturnTax(p, n)
  <2>1. net \in Int /\ tax \in Int /\ rnet \in Int /\ rtax \in Int
    BY <1>3, <1>10
  <2>2. /\ ledger[p]["ap"] = paid[p] - net - tax /\ ledger[p]["cash"] = -paid[p]
        /\ ledger[p]["inventory"] = net /\ ledger[p]["vat"] = tax
        /\ \A a \in Account \ {"ap", "cash", "inventory", "vat"} : ledger[p][a] = 0
        /\ moved[p] = o.qty - returned[p]
    BY DEF BInv, BooksOK, BookOK
  <2>3. /\ Net(o) - BackNet(p)' = net - rnet
        /\ Tax(o) - BackTax(p)' = tax - rtax
    BY <1>3, <1>9, <1>10
  <2>4. /\ l["ap"] = rnet + rtax /\ l["cash"] = 0 /\ l["inventory"] = -rnet /\ l["vat"] = -rtax
    BY <1>4
  <2> HIDE DEF net, tax, rnet, rtax
  <2>5. /\ ledger'[p]["ap"] = paid'[p] - (net - rnet) - (tax - rtax)
        /\ ledger'[p]["cash"] = -paid'[p]
        /\ ledger'[p]["inventory"] = net - rnet /\ ledger'[p]["vat"] = tax - rtax
    <3>1. \A a \in Booked : a \in Account
      BY DEF Booked, Account
    <3>2. /\ ledger'[p]["ap"] = ledger[p]["ap"] + l["ap"]
          /\ ledger'[p]["cash"] = ledger[p]["cash"] + l["cash"]
          /\ ledger'[p]["inventory"] = ledger[p]["inventory"] + l["inventory"]
          /\ ledger'[p]["vat"] = ledger[p]["vat"] + l["vat"]
      BY <1>5, <3>1 DEF Booked
    <3> QED
      BY <1>13, <2>1, <2>2, <2>4, <3>2
  <2>6. \A a \in Account \ {"ap", "cash", "inventory", "vat"} : ledger'[p][a] = 0
    BY <1>4, <1>5, <2>2 DEF Booked
  <2>7. moved'[p] = o.qty - returned'[p]
    BY <1>3, <1>13, <2>2
  <2>8. purchase' = purchase
    BY <1>2
  <2> QED
    BY <2>2, <2>3, <2>5, <2>6, <2>7, <2>8 DEF BookOK
<1>15. DriftOK(p)'
  <2> SUFFICES ASSUME purchase[p].status = "received" PROVE DriftOK(p)'
    BY <1>1, <1>2 DEF DriftOK
  <2> DEFINE c == Cardinality(Keyed(returns, p))
             rnet == ReturnNet(p, n)
             rtax == ReturnTax(p, n)
             bnet == BackNet(p)
             btax == BackTax(p)
  <2>1. /\ Within(bnet, Net(o), o.qty, returned[p], c)
        /\ Within(btax, Tax(o), o.qty, returned[p], c)
    BY DriftIs DEF BInv, DriftOK
  <2>2. /\ c \in Int /\ rnet \in Int /\ rtax \in Int /\ bnet \in Int /\ btax \in Int
        /\ o.qty \in Int /\ Net(o) \in Int /\ Tax(o) \in Int /\ returned[p] \in Int /\ n \in Int
    BY <1>3, <1>10, <1>13
  <2>3. /\ BackNet(p)' = bnet + rnet /\ BackTax(p)' = btax + rtax
        /\ Cardinality(Keyed(returns, p)') = c + 1 /\ purchase' = purchase
    BY <1>2, <1>9, <1>11
  <2>4. /\ -o.qty <= 2 * (rnet * o.qty - Net(o) * n) /\ 2 * (rnet * o.qty - Net(o) * n) <= o.qty
        /\ -o.qty <= 2 * (rtax * o.qty - Tax(o) * n) /\ 2 * (rtax * o.qty - Tax(o) * n) <= o.qty
    BY <1>3
  <2> HIDE DEF c, rnet, rtax, bnet, btax
  <2>5. Within(bnet + rnet, Net(o), o.qty, returned[p] + n, c + 1)
    BY <2>1, <2>2, <2>4, DriftAdds
  <2>6. Within(btax + rtax, Tax(o), o.qty, returned[p] + n, c + 1)
    BY <2>1, <2>2, <2>4, DriftAdds
  <2> QED
    BY <1>13, <2>3, <2>5, <2>6 DEF DriftOK
<1>16. ASSUME NEW d \in Purchase, d # p PROVE BookOK(d)' /\ DriftOK(d)'
  <2>1. /\ purchase'[d] = purchase[d] /\ ledger'[d] = ledger[d] /\ moved'[d] = moved[d]
        /\ returned'[d] = returned[d] /\ paid'[d] = paid[d]
    BY <1>2, <1>5, <1>12, <1>16 DEF PInv, RowTypes
  <2>2. BookOK(d) /\ DriftOK(d)
    BY DriftIs DEF BInv, BooksOK
  <2> QED
    BY <1>9, <1>16, <2>1, <2>2, Untouched
<1>17. BooksOK' /\ ReturnDriftBounded'
  BY <1>14, <1>15, <1>16, DriftIsNext DEF BooksOK
<1>18. StockIsSumOfMovements' /\ stock' \in Nat
  <2>1. /\ moved \in [Purchase -> Int] /\ IsFiniteSet(Purchase) /\ -n \in Int
        /\ moved' = [moved EXCEPT ![p] = @ + -n]
    BY <1>12, PurchasesAssumption DEF PInv, RowTypes
  <2>2. SumFunction(moved') = SumFunction(moved) + -n /\ SumFunction(moved) \in Int
    BY <2>1, SumMoves
  <2> QED
    BY <1>2, <1>12, <2>2, PurchasesAssumption
       DEF BInv, BookTypes, StockIsSumOfMovements
<1> QED
  BY <1>2, <1>5, <1>6, <1>7, <1>8, <1>17, <1>18

-----------------------------------------------------------------------------
\* A step that writes no row but statuses past the order, and no entry, keeps
\* the books.
LEMMA QuietBooks ==
  ASSUME PInv, BInv,
         UNCHANGED <<sequence, payments, paid, returns, returned, moved, books>>,
         \A p \in Purchase :
            /\ purchase'[p].line = purchase[p].line
            /\ purchase'[p].number = purchase[p].number
            /\ \/ purchase'[p].status = purchase[p].status
               \/ purchase[p].status # "none" /\ purchase'[p].status = "cancelled"
  PROVE  CountsOK' /\ NumbersOK' /\ BooksOK' /\ ReturnDriftBounded'
<1>1. CountsOK'
  <2>1. \A p \in Purchase : purchase'[p].status \in {"none", "ordered"} =>
                               purchase[p].status \in {"none", "ordered"}
    OBVIOUS
  <2> QED
    BY <2>1, CountsKept DEF BInv, books
<1>2. NumbersOK'
  <2>1. \A p \in Purchase : /\ purchase'[p].number = purchase[p].number
                            /\ purchase'[p].status = "none" <=> purchase[p].status = "none"
    OBVIOUS
  <2> QED
    BY <2>1, NumbersKept DEF BInv
<1>3. ASSUME NEW d \in Purchase PROVE BookOK(d)' /\ DriftOK(d)'
  <2>1. BookOK(d) /\ DriftOK(d)
    BY DriftIs DEF BInv, BooksOK
  <2>2. Keyed(returns, d)' = Keyed(returns, d)
    BY DEF Keyed
  <2>3. BackNet(d)' = BackNet(d) /\ BackTax(d)' = BackTax(d)
    BY BackKept
  <2>4. UNCHANGED <<ledger, paid, returned, moved>>
    BY DEF books
  <2> QED
    BY <2>1, <2>2, <2>3, <2>4, Untouched
<1>4. BooksOK' /\ ReturnDriftBounded'
  BY <1>3, DriftIsNext DEF BooksOK
<1> QED
  BY <1>1, <1>2, <1>4

\* The books of an empty database.
LEMMA InitBInv == Init => BInv
<1> SUFFICES ASSUME Init PROVE BInv
  OBVIOUS
<1>1. \A p \in Purchase : purchase[p].status = "none"
  BY DEF Init, NoPurchase
<1>2. /\ \A p \in Purchase : Keyed(payments, p) = {} /\ Keyed(returns, p) = {}
      /\ \A p \in Purchase, kind \in {"receipt", "payment", "return"} :
            PostedAs(journal, p, kind) = {}
  BY PurchasesAssumption DEF Init, NoRow, Keyed, PostedAs
<1>3. LinesOf(<<>>) \in Lines /\ \A a \in Account : LinesOf(<<>>)[a] = 0
  BY DEF LinesOf, Lines
<1>4. BookTypes
  BY <1>1, <1>3, PurchasesAssumption DEF Init, BookTypes, NoRow, KeyedRow, NoRequest
<1>5. CountsOK
  BY <1>2, FS_EmptySet DEF CountsOK, Matches
<1>6. StockIsSumOfMovements
  <2>1. /\ IsFiniteSet(Purchase) /\ moved = [p \in Purchase |-> 0]
        /\ \A p \in Purchase : moved[p] = 0
    BY PurchasesAssumption DEF Init
  <2>2. SumFunctionOnSet(moved, Purchase) = 0
    BY <2>1, SumZero
  <2>3. SumFunction(moved) = SumFunctionOnSet(moved, Purchase)
    BY <2>1 DEF SumFunction
  <2> QED
    BY <2>2, <2>3, PurchasesAssumption DEF StockIsSumOfMovements, Init
<1>7. NumbersOK
  <2>1. There = {} /\ Cardinality(There) = 0
    BY <1>1, FS_EmptySet DEF There
  <2>2. {purchase[p].number : p \in There} = 1..Cardinality(There)
    BY <2>1
  <2>3. NumbersGapless
    BY <2>2 DEF NumbersGapless, There
  <2> QED
    BY <2>1, <2>3 DEF NumbersOK, Init
<1>8. BooksOK
  BY <1>1, <1>3 DEF BooksOK, BookOK, Init
<1>9. ReturnDriftBounded
  BY <1>1 DEF ReturnDriftBounded
<1> QED
  BY <1>4, <1>5, <1>6, <1>7, <1>8, <1>9 DEF BInv

\* Every step keeps the books.
LEMMA StepBInv == PInv /\ BInv /\ [Next]_vars => BInv'
<1> SUFFICES ASSUME PInv, BInv, [Next]_vars PROVE BInv'
  OBVIOUS
<1> DEFINE Types == /\ returns' \in [Key -> KeyedRow] /\ stock' \in Nat /\ issued' \in Nat
                    /\ journal' \in Seq(PurchaseEntry) /\ ledger' \in [Purchase -> Lines]
           Follows == /\ Types /\ StockIsSumOfMovements'
                      /\ CountsOK' /\ NumbersOK' /\ BooksOK' /\ ReturnDriftBounded'
<1>1. BookTypes /\ StockIsSumOfMovements
  BY DEF BInv
<1>2. SUFFICES Follows
  BY <1>1, RequestsGive DEF BInv, BookTypes
<1>3. ASSUME NEW t \in Tx, CommitCreate(t) PROVE Follows
  <2>1. /\ CountsOK' /\ NumbersOK' /\ BooksOK' /\ ReturnDriftBounded'
        /\ UNCHANGED <<journal, ledger, stock, issued, moved, returns>>
    BY <1>3, CreateBooks
  <2> QED
    BY <1>1, <2>1 DEF BookTypes, StockIsSumOfMovements
<1>4. ASSUME NEW t \in Tx, CommitReceive(t) PROVE Follows
  BY <1>1, <1>4, ReceiveBooks DEF BookTypes
<1>5. ASSUME NEW t \in Tx, CommitPay(t) PROVE Follows
  <2>1. /\ CountsOK' /\ NumbersOK' /\ BooksOK' /\ ReturnDriftBounded'
        /\ journal' \in Seq(PurchaseEntry) /\ ledger' \in [Purchase -> Lines]
        /\ UNCHANGED <<stock, issued, moved, returns>>
    BY <1>5, PayBooks
  <2> QED
    BY <1>1, <2>1 DEF BookTypes, StockIsSumOfMovements
<1>6. ASSUME NEW t \in Tx, CommitReturn(t) PROVE Follows
  BY <1>1, <1>6, ReturnBooks DEF BookTypes
<1>7. ASSUME UNCHANGED <<sequence, payments, paid, returns, returned, goods, books>>,
             \A p \in Purchase :
                /\ purchase'[p].line = purchase[p].line
                /\ purchase'[p].number = purchase[p].number
                /\ \/ purchase'[p].status = purchase[p].status
                   \/ purchase[p].status # "none" /\ purchase'[p].status = "cancelled"
      PROVE  Follows
  <2>1. CountsOK' /\ NumbersOK' /\ BooksOK' /\ ReturnDriftBounded'
    BY <1>7, QuietBooks DEF goods
  <2>2. Types /\ StockIsSumOfMovements'
    BY <1>1, <1>7 DEF goods, books, BookTypes, StockIsSumOfMovements
  <2> QED
    BY <2>1, <2>2
<1>8. ASSUME NEW t \in Tx, CommitCancel(t) PROVE Follows
  <2>1. tx[t].purchase \in Purchase /\ purchase[tx[t].purchase].status # "none"
    BY <1>8 DEF CommitCancel, PInv, RequestsOK
  <2>2. /\ purchase' = [purchase EXCEPT ![tx[t].purchase].status = "cancelled"]
        /\ UNCHANGED <<sequence, payments, paid, returns, returned, goods, books>>
    BY <1>8 DEF CommitCancel
  <2>3. \A p \in Purchase :
           /\ purchase'[p].line = purchase[p].line
           /\ purchase'[p].number = purchase[p].number
           /\ \/ purchase'[p].status = purchase[p].status
              \/ purchase[p].status # "none" /\ purchase'[p].status = "cancelled"
    BY <2>1, <2>2 DEF PInv, RowTypes, PurchaseRow
  <2> QED
    BY <1>7, <2>2, <2>3
<1>9. ASSUME NEW t \in Tx,
             \/ BeginCreate(t) \/ BeginReceive(t) \/ BeginPay(t)
             \/ BeginReturn(t) \/ BeginCancel(t) \/ RolledBack(t)
      PROVE  Follows
  <2>1. UNCHANGED <<rows, goods, books>>
    BY <1>9 DEF BeginCreate, BeginReceive, BeginPay, BeginReturn, BeginCancel, Begin, RolledBack
  <2> QED
    BY <1>7, <2>1 DEF rows
<1>10. CASE IssueElsewhere
  <2> PICK q \in Nat : /\ q <= stock /\ stock' = stock - q /\ issued' = issued + q
                       /\ UNCHANGED <<rows, moved, books, tx>>
    BY <1>10, PurchasesAssumption DEF IssueElsewhere
  <2>1. /\ q <= stock /\ stock' = stock - q /\ issued' = issued + q
        /\ UNCHANGED <<rows, moved, books, tx>>
    OBVIOUS
  <2>2. CountsOK' /\ NumbersOK' /\ BooksOK' /\ ReturnDriftBounded'
    BY <2>1, QuietBooks DEF rows
  <2>3. SumFunction(moved) \in Int
    <3>1. IsFiniteSet(DOMAIN moved) /\ \A p \in DOMAIN moved : moved[p] \in Int
      BY PurchasesAssumption DEF PInv, RowTypes
    <3> QED
      BY <3>1, SumOfFunction
  <2>4. Types /\ StockIsSumOfMovements'
    BY <1>1, <2>1, <2>3, PurchasesAssumption
       DEF BookTypes, StockIsSumOfMovements, rows, books
  <2> QED
    BY <2>2, <2>4
<1>11. CASE UNCHANGED vars
  BY <1>7, <1>11 DEF vars, rows
<1> QED
  BY <1>3, <1>4, <1>5, <1>6, <1>8, <1>9, <1>10, <1>11, Zenon
     DEF Next, Refuse, Replay, Lose

\* The books are sound in every state.
LEMMA BInvariance == Spec => [](PInv /\ BInv)
<1>1. Init => PInv /\ BInv
  BY InitPInv, InitBInv
<1>2. PInv /\ BInv /\ [Next]_vars => (PInv /\ BInv)'
  BY StepPInv, StepBInv
<1> QED
  BY <1>1, <1>2, PTL DEF Spec

\* However requests are repeated, cut off and refused, a purchase arrives once and
\* a key takes effect once, the stock is what the movements say and the numbers
\* have no gap (purchases.service.ts, purchase-return.service.ts).
THEOREM RollBacksWriteNothing == Spec => []RollBacksLeaveNothing
<1>1. PInv /\ BInv => TypeOK
  BY DEF PInv, BInv, RowTypes, BookTypes, TypeOK
<1>2. BInv => OnceEach
  BY DEF BInv, CountsOK, Matches, OnceEach, Posted, PostedAs
<1>3. PInv /\ BInv => RollBacksLeaveNothing
  BY <1>1, <1>2 DEF BInv, NumbersOK, RollBacksLeaveNothing
<1> QED
  BY <1>3, BInvariance, PTL

\* The ledger of a received purchase is what its rows say, account by account,
\* and its movements are the goods that stayed.
THEOREM BooksFollowPurchase == Spec => []BooksMatchPurchase
<1> SUFFICES ASSUME PInv, BInv PROVE BooksMatchPurchase
  BY BInvariance, PTL
<1>1. ASSUME NEW p \in Purchase, purchase[p].status = "received"
      PROVE  LET net == Net(purchase[p].line) - BackNet(p)
                 tax == Tax(purchase[p].line) - BackTax(p)
             IN  /\ ledger[p] = LinesOf([ap |-> paid[p] - net - tax, cash |-> -paid[p],
                                         inventory |-> net, vat |-> tax])
                 /\ moved[p] = purchase[p].line.qty - returned[p]
  <2> DEFINE net == Net(purchase[p].line) - BackNet(p)
             tax == Tax(purchase[p].line) - BackTax(p)
             r == [ap |-> paid[p] - net - tax, cash |-> -paid[p],
                   inventory |-> net, vat |-> tax]
             l == ledger[p]
  <2>1. /\ l["ap"] = paid[p] - net - tax /\ l["cash"] = -paid[p]
        /\ l["inventory"] = net /\ l["vat"] = tax
        /\ \A a \in Account \ {"ap", "cash", "inventory", "vat"} : l[a] = 0
        /\ moved[p] = purchase[p].line.qty - returned[p]
    BY <1>1 DEF BInv, BooksOK, BookOK
  <2>2. l \in Lines
    BY DEF BInv, BookTypes
  <2> HIDE DEF net, tax, l
  <2>3. \A a \in Account : l[a] = LinesOf(r)[a]
    BY <2>1 DEF LinesOf, Account
  <2>4. l = LinesOf(r)
    BY <2>2, <2>3 DEF Lines, LinesOf
  <2> QED
    BY <2>1, <2>4 DEF net, tax, l
<1> QED
  BY <1>1, BackIs DEF BooksMatchPurchase

\* What goes back to a supplier adds up: never more than half of 0.01 above what
\* arrived, and the parts of a line, rounded one by one, drift at most half a
\* cent per return.
THEOREM ReturnsDriftWithinRounding == Spec => []ReturnsAddUp
<1>1. PInv /\ BInv => ReturnsAddUp
  BY DEF PInv, BInv, RowsOK, NeverOverReturned, ReturnsAddUp
<1> QED
  BY <1>1, BInvariance, PTL
=============================================================================
