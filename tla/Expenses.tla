----------------------------- MODULE Expenses -----------------------------
(***************************************************************************)
(* The life of an expense: createExpense, updateExpense and deleteExpense  *)
(* (expenses/expenses.service.ts), as concurrent requests.                 *)
(*                                                                         *)
(* Each request is one transaction and reads the expense without a lock.   *)
(* createExpense and updateExpense then write its row first, and what they *)
(* do after that is one step: whoever else would commit to this expense    *)
(* meanwhile needs that row.  deleteExpense finds and checks the entry to  *)
(* reverse before it locks anything, and writes the row last.              *)
(*                                                                         *)
(* amount stands for the three fields an entry is made from: amount,       *)
(* category and payment method.  A client that leaves them out sends back  *)
(* what the transaction read.                                              *)
(***************************************************************************)
EXTENDS Journal, FiniteSets

CONSTANTS
    Expense,     \* clientReferenceIds; an expense is named by its key
    Tx,          \* requests that can be open at the same time
    None,        \* no expense
    Amount,      \* amounts a client sends
    MaxEntries   \* bound: entries of the journal

ASSUME ExpensesAssumption ==
    /\ None \notin Expense
    /\ Amount \subseteq Nat \ {0}
    /\ MaxEntries \in Nat

VARIABLES
    expense,   \* rows of expenses
    journal,   \* journal_entries with referenceType = Expense
    ledger,    \* SUM(journal_lines) of each expense, by account
    tx         \* the request each transaction is running, and how far it is

vars == <<expense, journal, ledger, tx>>

-----------------------------------------------------------------------------
ExpenseRow == [status : {"none", "active", "cancelled"}, amount : Nat]

ExpenseEntry == EntryOf(Expense, {"expense"})

\* seen: the amount the transaction read.  entry: the entry it will reverse.
NoRequest == [op |-> "none", at |-> "end", expense |-> None,
              amount |-> 0, seen |-> 0, entry |-> 0]

Request == [op : {"none", "create", "update", "delete"},
            at : {"find", "check", "write", "end"},
            expense : Expense \cup {None}, amount : Nat, seen : Nat, entry : Nat]

Running(t, op, at) == tx[t].op = op /\ tx[t].at = at

ExpenseLines(a) == LinesOf([expense |-> a, cash |-> -a])

Init ==
    /\ expense = [e \in Expense |-> [status |-> "none", amount |-> 0]]
    /\ journal = <<>>
    /\ ledger = [e \in Expense |-> LinesOf(<<>>)]
    /\ tx = [t \in Tx |-> NoRequest]

-----------------------------------------------------------------------------
Begin(t, r) ==
    /\ tx[t].op = "none"
    /\ tx' = [tx EXCEPT ![t] = r]
    /\ UNCHANGED <<expense, journal, ledger>>

\* The fast path answers a key that is already stored.
BeginCreate(t) ==
    \E e \in Expense, a \in Amount :
        /\ expense[e].status = "none"
        /\ Begin(t, [NoRequest EXCEPT !.op = "create", !.at = "write",
                                      !.expense = e, !.amount = a])

BeginUpdate(t) ==
    \E e \in Expense, a \in Amount :
        /\ expense[e].status = "active"
        /\ Begin(t, [NoRequest EXCEPT !.op = "update", !.at = "write", !.expense = e,
                                      !.amount = a, !.seen = expense[e].amount])

BeginDelete(t) ==
    \E e \in Expense :
        /\ expense[e].status = "active"
        /\ Begin(t, [NoRequest EXCEPT !.op = "delete", !.at = "find", !.expense = e])

-----------------------------------------------------------------------------
Finish(t) == tx' = [tx EXCEPT ![t] = NoRequest]

\* findActiveJournalEntry of deleteExpense: any posted entry of the expense,
\* for the query has no order and does not leave reversing entries out.
FindEntry(t) ==
    /\ Running(t, "delete", "find")
    /\ \E i \in PostedEntries(journal, tx[t].expense) :
          tx' = [tx EXCEPT ![t].at = "check", ![t].entry = i]
    /\ UNCHANGED <<expense, journal, ledger>>

\* reverseJournalEntry reads that entry again and refuses a reversed one.
CheckEntry(t) ==
    /\ Running(t, "delete", "check")
    /\ journal[tx[t].entry].status = "posted"
    /\ tx' = [tx EXCEPT ![t].at = "write"]
    /\ UNCHANGED <<expense, journal, ledger>>

\* Faulty variant: without the unique index on the key.
CommitCreateNoKey(t) ==
    LET e == tx[t].expense
        a == tx[t].amount
    IN  /\ Running(t, "create", "write")
        /\ Len(journal) < MaxEntries
        /\ expense' = [expense EXCEPT ![e] = [status |-> "active", amount |-> a]]
        /\ journal' = PostEntry(journal, e, "expense", ExpenseLines(a))
        /\ ledger' = [ledger EXCEPT ![e] = AddLines(@, ExpenseLines(a))]
        /\ Finish(t)

\* The unique index refuses a second row of the key (P2002); the controller
\* then answers with the first one, and Abort stands for it.
CommitCreate(t) ==
    LET e == tx[t].expense
        a == tx[t].amount
    IN  /\ Running(t, "create", "write")
        /\ Len(journal) < MaxEntries
        /\ expense[e].status = "none"
        /\ expense' = [expense EXCEPT ![e] = [status |-> "active", amount |-> a]]
        /\ journal' = PostEntry(journal, e, "expense", ExpenseLines(a))
        /\ ledger' = [ledger EXCEPT ![e] = AddLines(@, ExpenseLines(a))]
        /\ Finish(t)

\* Nothing an entry is made from differs from what was read: only the row is
\* written, with the amount that was read.
CommitEdit(t) ==
    /\ Running(t, "update", "write")
    /\ tx[t].amount = tx[t].seen
    /\ expense' = [expense EXCEPT ![tx[t].expense].amount = tx[t].amount]
    /\ Finish(t)
    /\ UNCHANGED <<journal, ledger>>

\* Faulty variant: the status is written back with the other fields.
CommitChangeRevives(t) ==
    LET e == tx[t].expense
        a == tx[t].amount
    IN  /\ Running(t, "update", "write")
        /\ a # tx[t].seen
        /\ Len(journal) + 2 <= MaxEntries
        /\ expense' = [expense EXCEPT ![e] = [status |-> "active", amount |-> a]]
        /\ \E i \in PostedEntries(journal, e) :
              /\ journal' = PostEntry(ReverseEntry(journal, i), e, "expense", ExpenseLines(a))
              /\ ledger' = [ledger EXCEPT ![e] =
                               AddLines(AddLines(@, SwapLines(journal[i].lines)),
                                        ExpenseLines(a))]
        /\ Finish(t)

\* financiallyChanged: reverse one posted entry of the expense and post a new
\* one.  The status is not looked at again.
CommitChange(t) ==
    LET e == tx[t].expense
        a == tx[t].amount
    IN  /\ Running(t, "update", "write")
        /\ a # tx[t].seen
        /\ Len(journal) + 2 <= MaxEntries
        /\ expense' = [expense EXCEPT ![e].amount = a]
        /\ \E i \in PostedEntries(journal, e) :
              /\ journal' = PostEntry(ReverseEntry(journal, i), e, "expense", ExpenseLines(a))
              /\ ledger' = [ledger EXCEPT ![e] =
                               AddLines(AddLines(@, SwapLines(journal[i].lines)),
                                        ExpenseLines(a))]
        /\ Finish(t)

\* The update that marks the entry names it by id only.
CommitDelete(t) ==
    LET e == tx[t].expense
        i == tx[t].entry
    IN  /\ Running(t, "delete", "write")
        /\ Len(journal) < MaxEntries
        /\ journal' = ReverseEntry(journal, i)
        /\ ledger' = [ledger EXCEPT ![e] = AddLines(@, SwapLines(journal[i].lines))]
        /\ expense' = [expense EXCEPT ![e].status = "cancelled"]
        /\ Finish(t)

\* A check failed, the period is closed, the key exists, a deadlock was broken
\* or the connection was lost: the transaction rolls back, at any step.
Abort(t) ==
    /\ tx[t].op # "none"
    /\ Finish(t)
    /\ UNCHANGED <<expense, journal, ledger>>

Next ==
    \E t \in Tx :
        \/ BeginCreate(t) \/ BeginUpdate(t) \/ BeginDelete(t)
        \/ FindEntry(t) \/ CheckEntry(t)
        \/ CommitCreate(t) \/ CommitEdit(t) \/ CommitChange(t) \/ CommitDelete(t)
        \/ Abort(t)

Spec == Init /\ [][Next]_vars

-----------------------------------------------------------------------------
TypeOK ==
    /\ expense \in [Expense -> ExpenseRow]
    /\ journal \in Seq(ExpenseEntry)
    /\ ledger \in [Expense -> Lines]
    /\ tx \in [Tx -> Request]

Booked(e) == ledger[e]["expense"]

EntriesFor(e) == {i \in 1..Len(journal) : journal[i].ref = e}

Corrections(e) == {i \in EntriesFor(e) : journal[i].reverses # 0}

Cost(e) == IF expense[e].status = "active" THEN expense[e].amount ELSE 0

\* A key is recorded once: the entries of an expense are one that created it
\* and, for each later one, the reversal that made room for it or ended it.
OneCreation ==
    \A e \in Expense :
        Cardinality(EntriesFor(e) \ Corrections(e)) <= Cardinality(Corrections(e)) + 1

\* No row without its entry and no entry without its row: a request that fails
\* after the row was written leaves neither.
RowIffEntry == \A e \in Expense : expense[e].status # "none" <=> EntriesFor(e) # {}

\* An expense is its row, the one entry that made it, and corrections of that.
RowsMatchEntries == TypeOK /\ OneCreation /\ RowIffEntry

\* A deleted expense stays deleted, whatever a concurrent update writes.
CancelledForGood ==
    [][\A e \in Expense : expense[e].status = "cancelled" =>
                              expense'[e].status = "cancelled"]_vars

\* Entries are only appended and marked.
HistoryKept == [][Continues(journal, journal')]_vars

\* Neither a deletion nor an entry is ever taken back.
NothingRevived == CancelledForGood /\ HistoryKept

-----------------------------------------------------------------------------
\* The books show what the expense costs: a change reverses the active entry
\* and posts the right one, a deletion leaves nothing (docs/EXPENSES.md).
BooksMatchExpense == \A e \in Expense : Booked(e) = Cost(e)

\* A deleted expense cannot be changed (docs/EXPENSES.md: 409).
NoChangeOfCancelled ==
    [][\A e \in Expense : expense[e].status = "cancelled" =>
                              expense'[e].amount = expense[e].amount]_vars

\* A deleted expense is not deleted again (docs/EXPENSES.md: 409).
DeletedOnce ==
    [][\A t \in Tx : CommitDelete(t) => expense[tx[t].expense].status = "active"]_vars

\* Every financial change of the row posts an entry (docs/EXPENSES.md).
EveryChangeIsPosted ==
    [][\A e \in Expense : (/\ expense[e].status = "active"
                           /\ expense'[e].amount # expense[e].amount) =>
                              Len(journal') > Len(journal)]_vars
=============================================================================
