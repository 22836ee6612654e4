------------------------------ MODULE Qeedha ------------------------------
(***************************************************************************)
(* The Qeedha integration (qeedha-integration/*.ts) composed with the      *)
(* sales it pays: link and revoke of the connection, resolveCustomer,      *)
(* submitTransaction and cancel, next to every request of Sales.           *)
(*                                                                         *)
(* A submission is one transaction.  The guard of its route and its        *)
(* unlocked reads are one step, all it does from the lock on the sale row  *)
(* to its commit is another.  Unlike the requests of Sales it catches what *)
(* the payment throws, stores a failed transaction and commits: whatever   *)
(* the payment had written by then stays.                                  *)
(*                                                                         *)
(* One connection per company, and a secret is named by its generation.    *)
(* idempotencyKey and clientReferenceId share the set Key.                 *)
(***************************************************************************)
EXTENDS Sales

CONSTANTS
    Sub,         \* submissions that can be open at the same time
    Customer,    \* externalCustomerReferences
    MaxSecrets   \* bound: calls of link

ASSUME QeedhaAssumption == MaxSecrets \in Nat

VARIABLES
    connection,   \* row of integration_connections
    mapped,       \* references of integration_customer_mappings
    transaction,  \* rows of integration_transactions, by idempotencyKey
    sub           \* the submission each slot is running

qvars == <<connection, mapped, transaction, sub>>

-----------------------------------------------------------------------------
\* secret: the generation last handed out, 0 before the first link.
ConnectionRow == [status : {"not_connected", "connected", "disabled"}, secret : Nat]

NoTransaction == [status |-> "none", sale |-> None, n |-> 0, paid |-> FALSE]

\* paid: the row names a payment (paymentId).
TransactionRow == [status : {"none", "success", "failed", "cancelled"},
                   sale : Sale \cup {None}, n : Nat, paid : BOOLEAN]

\* open: the sale was completed when it was read.  found: recordPaymentCore
\* found a payment of the key.
NoSubmission == [sale |-> None, key |-> None, amount |-> 0,
                 open |-> FALSE, found |-> FALSE]

Submission == [sale : Sale \cup {None}, key : Key \cup {None}, amount : Nat,
               open : BOOLEAN, found : BOOLEAN]

QInit ==
    /\ Init
    /\ connection = [status |-> "not_connected", secret |-> 0]
    /\ mapped = {}
    /\ transaction = [k \in Key |-> NoTransaction]
    /\ sub = [q \in Sub |-> NoSubmission]

-----------------------------------------------------------------------------
\* The first call links, later ones rotate the secret; either connects.
Link ==
    /\ connection.secret < MaxSecrets
    /\ connection' = [status |-> "connected", secret |-> connection.secret + 1]
    /\ UNCHANGED <<vars, mapped, transaction, sub>>

Revoke ==
    /\ connection.status = "connected"
    /\ connection' = [connection EXCEPT !.status = "disabled"]
    /\ UNCHANGED <<vars, mapped, transaction, sub>>

\* The advisory lock on the reference makes the look-up and the insert of the
\* customer and its mapping one step.
ResolveCustomer(c) ==
    /\ connection.status = "connected"
    /\ c \notin mapped
    /\ mapped' = mapped \cup {c}
    /\ UNCHANGED <<vars, connection, transaction, sub>>

\* The guard, the look-up of the key, and the checks that leave nothing behind.
\* The status of the sale and the payment of the key are read here and judged
\* later.
BeginSubmit(q) ==
    \E s \in Sale, k \in Key, c \in Customer, a \in Amount :
        /\ sub[q] = NoSubmission
        /\ connection.status = "connected"
        /\ transaction[k] = NoTransaction
        /\ sale[s].status # "none"
        /\ c \in mapped
        /\ sub' = [sub EXCEPT ![q] = [sale |-> s, key |-> k, amount |-> a,
                                      open |-> sale[s].status = "completed",
                                      found |-> payments[k] # NoRow]]
        /\ UNCHANGED <<vars, connection, mapped, transaction>>

Answer(q) == sub' = [sub EXCEPT ![q] = NoSubmission]

\* Faulty variant: the key has no unique index, the last row counts.
StoreAnyway(q, status, p) ==
    transaction' = [transaction EXCEPT ![sub[q].key] =
                       [status |-> status, sale |-> sub[q].sale, n |-> sub[q].amount, paid |-> p]]

\* The transaction row is inserted last; its unique key rolls everything back.
Store(q, status, p) ==
    /\ transaction[sub[q].key] = NoTransaction
    /\ transaction' = [transaction EXCEPT ![sub[q].key] =
                          [status |-> status, sale |-> sub[q].sale, n |-> sub[q].amount, paid |-> p]]

TooMuch(q) == sub[q].amount > Outstanding(sub[q].sale)

\* The payment of the key was there: the transaction points to it, or has failed
\* when it is another sale's.
CommitExisting(q) ==
    /\ sub[q] # NoSubmission
    /\ sub[q].found
    /\ Store(q, IF payments[sub[q].key].sale = sub[q].sale THEN "success" ELSE "failed",
                payments[sub[q].key].sale = sub[q].sale)
    /\ Answer(q)
    /\ UNCHANGED <<vars, connection, mapped>>

\* The sale was cancelled, or the amount exceeds what is still owed: nothing
\* was written yet.
CommitRejected(q) ==
    /\ sub[q] # NoSubmission
    /\ ~sub[q].found
    /\ ~sub[q].open \/ TooMuch(q)
    /\ Store(q, "failed", FALSE)
    /\ Answer(q)
    /\ UNCHANGED <<vars, connection, mapped>>

Accepted(q) ==
    /\ sub[q] # NoSubmission
    /\ ~sub[q].found /\ sub[q].open /\ ~TooMuch(q)

\* The payment row, its key unique, and its part of the balance.
Pay(q) ==
    /\ Accepted(q)
    /\ payments[sub[q].key] = NoRow
    /\ payments' = [payments EXCEPT ![sub[q].key] =
                       [sale |-> sub[q].sale, n |-> sub[q].amount]]
    /\ paid' = [paid EXCEPT ![sub[q].sale] = @ + sub[q].amount]

CommitSuccess(q) ==
    /\ ~closed
    /\ Pay(q)
    /\ Post(sub[q].sale, "payment", PaymentLines(sub[q]))
    /\ Store(q, "success", TRUE)
    /\ Answer(q)
    /\ UNCHANGED <<sale, invoiceSeq, returns, returned, stock, moved, closed, tx,
                   connection, mapped>>

\* Faulty variant: a transaction that could not post its entry is a success.
CommitUnpostedSuccess(q) ==
    /\ closed
    /\ Pay(q)
    /\ Store(q, "success", FALSE)
    /\ Answer(q)
    /\ UNCHANGED <<sale, invoiceSeq, returns, returned, stock, moved, books, closed, tx,
                   connection, mapped>>

\* postJournalEntry throws after the payment row was inserted: the catch stores
\* a failed transaction, and the payment is committed with it.
CommitUnposted(q) ==
    /\ closed
    /\ Pay(q)
    /\ Store(q, "failed", FALSE)
    /\ Answer(q)
    /\ UNCHANGED <<sale, invoiceSeq, returns, returned, stock, moved, books, closed, tx,
                   connection, mapped>>

\* P2002 on the payment or on the transaction: rolled back, and answered with
\* the transaction of the key (404 when a payment of Sales holds the key).
ReplaySubmit(q) ==
    /\ sub[q] # NoSubmission
    /\ \/ transaction[sub[q].key] # NoTransaction
       \/ Accepted(q) /\ payments[sub[q].key] # NoRow
    /\ Answer(q)
    /\ UNCHANGED <<vars, connection, mapped, transaction>>

\* The connection is lost or the process dies; the caller asks again.
LoseSubmit(q) ==
    /\ sub[q] # NoSubmission
    /\ Answer(q)
    /\ UNCHANGED <<vars, connection, mapped, transaction>>

\* cancel: a failed transaction becomes cancelled, a successful one never does.
CancelTransaction(k) ==
    /\ connection.status = "connected"
    /\ transaction[k].status = "failed"
    /\ transaction' = [transaction EXCEPT ![k].status = "cancelled"]
    /\ UNCHANGED <<vars, connection, mapped, sub>>

QNext ==
    \/ Next /\ UNCHANGED qvars
    \/ Link
    \/ Revoke
    \/ \E c \in Customer : ResolveCustomer(c)
    \/ \E q \in Sub :
          \/ BeginSubmit(q) \/ CommitExisting(q) \/ CommitRejected(q)
          \/ CommitSuccess(q) \/ CommitUnposted(q)
          \/ ReplaySubmit(q) \/ LoseSubmit(q)
    \/ \E k \in Key : CancelTransaction(k)

QSpec == QInit /\ [][QNext]_<<vars, qvars>>

-----------------------------------------------------------------------------
QTypeOK ==
    /\ TypeOK
    /\ connection \in ConnectionRow
    /\ mapped \subseteq Customer
    /\ transaction \in [Key -> TransactionRow]
    /\ sub \in [Sub -> Submission]

\* A transaction that was answered with success paid its sale, by a payment of
\* its key that is in the books, whatever raced it: a second submission of the
\* key, a payment at the till, a cancellation of the sale.
SuccessIsPayment ==
    \A k \in Key : transaction[k].status = "success" =>
        /\ payments[k].sale = transaction[k].sale
        /\ \E i \in 1..Len(journal) :
              /\ journal[i].ref = payments[k].sale /\ journal[i].kind = "payment"
              /\ journal[i].lines = PaymentLines([amount |-> payments[k].n])

\* Submissions and sales that fail after they moved stock or drew a number leave
\* nothing behind, with two sales competing for both.
RollBacksLeaveNothing == QTypeOK /\ StockIsSumOfMovements /\ InvoicesGapless

\* The answer to a key is final: however often and however concurrently it is
\* submitted, the stored outcome never changes, but a failed transaction may be
\* cancelled.
AnswerIsFinal ==
    [][\A k \in Key : transaction[k] # NoTransaction =>
          \/ transaction'[k] = transaction[k]
          \/ /\ transaction[k].status = "failed"
             /\ transaction'[k] = [transaction[k] EXCEPT !.status = "cancelled"]]_<<vars, qvars>>

\* Payments at the till and payments of the integration settle a sale together:
\* once per key and within its total.
Payments == INSTANCE Settlement
    WITH Doc <- Sale, Key <- Key, NoDoc <- None,
         total <- [s \in Sale |-> Total(s)], paid <- paid,
         payment <- [k \in Key |-> [doc |-> payments[k].sale, n |-> payments[k].n]]

ImplementsSettlement == Payments!Spec

-----------------------------------------------------------------------------
\* A failed transaction never moved money, so that it may be cancelled (the
\* comment of cancel; docs/QEEDHA_INTEGRATION.md).
FailedMovedNoMoney ==
    [][\A k \in Key : (transaction[k] = NoTransaction /\ transaction'[k].status = "failed") =>
          paid' = paid]_<<vars, qvars>>
=============================================================================
