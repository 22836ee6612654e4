--------------------------- MODULE ExpensesProofs ---------------------------
(***************************************************************************)
(* Theorems about expenses, for any number of them and of concurrent       *)
(* requests: types, rows and entries belong together, every entry but one  *)
(* has its correction, and neither a deletion nor an entry is taken back.  *)
(*                                                                         *)
(* Then theorems about imports, for any file, any number of requests on    *)
(* the job, of confirmations and of edits by other users: what the job     *)
(* reports is so, unique keys are there once, and an import that is left   *)
(* undisturbed is whole.                                                   *)
(***************************************************************************)
EXTENDS Expenses, Imports, JournalProofs, FiniteSetTheorems

\* The entries of an expense that reverse nothing, and those that reverse one.
Originals(j, e) == {i \in 1..Len(j) : j[i].ref = e /\ j[i].reverses = 0}

Undoings(j, e) == {i \in 1..Len(j) : j[i].ref = e /\ j[i].reverses # 0}

\* A request names an expense, and the entry it will reverse is one of that.
RequestsOK ==
    \A t \in Tx :
        LET r == tx[t] IN
        /\ r.op # "none" => r.expense \in Expense
        /\ r.op = "delete" /\ r.at \in {"check", "write"} =>
              r.entry \in 1..Len(journal) /\ journal[r.entry].ref = r.expense

\* A row is there exactly when an entry is.
RowsOK ==
    \A e \in Expense :
        expense[e].status = "none" <=> Originals(journal, e) = {} /\ Undoings(journal, e) = {}

\* All originals but one were made room for.
CountsOK ==
    \A e \in Expense :
        Cardinality(Originals(journal, e)) <= Cardinality(Undoings(journal, e)) + 1

\* The inductive invariant.
EInv == TypeOK /\ RequestsOK /\ RowsOK /\ CountsOK

-----------------------------------------------------------------------------
\* Entries of a journal can be counted.
LEMMA EntriesCount ==
  ASSUME NEW j \in Seq(ExpenseEntry), NEW e
  PROVE  /\ IsFiniteSet(Originals(j, e)) /\ Cardinality(Originals(j, e)) \in Nat
         /\ IsFiniteSet(Undoings(j, e)) /\ Cardinality(Undoings(j, e)) \in Nat
<1>1. IsFiniteSet(1..Len(j))
  BY FS_Interval
<1>2. Originals(j, e) \subseteq 1..Len(j) /\ Undoings(j, e) \subseteq 1..Len(j)
  BY DEF Originals, Undoings
<1>3. IsFiniteSet(Originals(j, e)) /\ IsFiniteSet(Undoings(j, e))
  BY <1>1, <1>2, FS_Subset
<1> QED
  BY <1>3, FS_CardinalityType

\* The entry of an expense is one.
LEMMA ExpenseLinesType == \A a \in Nat : ExpenseLines(a) \in Lines
<1> SUFFICES ASSUME NEW a \in Nat PROVE ExpenseLines(a) \in Lines
  OBVIOUS
<1>1. \A b \in DOMAIN [expense |-> a, cash |-> -a] : [expense |-> a, cash |-> -a][b] \in Int
  OBVIOUS
<1> QED
  BY <1>1, LinesOfType DEF ExpenseLines

\* What posting an expense does to a journal.
LEMMA PostEffect ==
  ASSUME NEW j \in Seq(ExpenseEntry), NEW e \in Expense, NEW a \in Nat
  PROVE  LET jj == PostEntry(j, e, "expense", ExpenseLines(a))
             n  == Len(j) + 1
         IN  /\ jj \in Seq(ExpenseEntry) /\ Continues(j, jj)
             /\ Originals(jj, e) = Originals(j, e) \cup {n} /\ Undoings(jj, e) = Undoings(j, e)
             /\ \A d \in Expense \ {e} :
                   Originals(jj, d) = Originals(j, d) /\ Undoings(jj, d) = Undoings(j, d)
<1> DEFINE l  == ExpenseLines(a)
           jj == PostEntry(j, e, "expense", l)
           n  == Len(j) + 1
<1>1. l \in Lines
  BY ExpenseLinesType
<1> HIDE DEF l
<1>2. jj \in Seq(ExpenseEntry)
  BY <1>1, PostEntryType DEF ExpenseEntry
<1>3. /\ Len(jj) = n /\ n \in Nat /\ \A i \in 1..Len(j) : jj[i] = j[i]
      /\ jj[n].ref = e /\ jj[n].reverses = 0
  BY DEF PostEntry, Entry
<1> HIDE DEF jj
<1>4. Continues(j, jj)
  BY <1>3 DEF Continues
<1>5. /\ Originals(jj, e) = Originals(j, e) \cup {n} /\ Undoings(jj, e) = Undoings(j, e)
      /\ \A d \in Expense \ {e} :
            Originals(jj, d) = Originals(j, d) /\ Undoings(jj, d) = Undoings(j, d)
  BY <1>3 DEF Originals, Undoings
<1> QED
  BY <1>2, <1>4, <1>5 DEF jj, l

\* What reversing an entry of an expense does to a journal.
LEMMA ReverseEffect ==
  ASSUME NEW j \in Seq(ExpenseEntry), NEW e \in Expense, NEW i \in 1..Len(j), j[i].ref = e
  PROVE  LET jj == ReverseEntry(j, i)
             n  == Len(j) + 1
         IN  /\ jj \in Seq(ExpenseEntry) /\ Continues(j, jj)
             /\ Originals(jj, e) = Originals(j, e) /\ Undoings(jj, e) = Undoings(j, e) \cup {n}
             /\ \A d \in Expense \ {e} :
                   Originals(jj, d) = Originals(j, d) /\ Undoings(jj, d) = Undoings(j, d)
<1> DEFINE jj == ReverseEntry(j, i)
           n  == Len(j) + 1
<1>1. jj \in Seq(ExpenseEntry) /\ Continues(j, jj)
  BY ReverseEntryType, ReverseEntryContinues DEF ExpenseEntry
<1>2. \A k \in 1..Len(j) : j[k] \in ExpenseEntry
  OBVIOUS
<1>3. /\ Len(jj) = n /\ n \in Nat
      /\ \A k \in 1..Len(j) : jj[k].ref = j[k].ref /\ jj[k].reverses = j[k].reverses
      /\ jj[n].ref = e /\ jj[n].reverses = i
  BY <1>2 DEF ReverseEntry, Reversal, ExpenseEntry, EntryOf
<1> HIDE DEF jj
<1>4. jj[n].reverses # 0 /\ 1..Len(jj) = 1..Len(j) \cup {n}
  BY <1>3
<1>5. Originals(jj, e) = Originals(j, e) /\ Undoings(jj, e) = Undoings(j, e) \cup {n}
  BY <1>3, <1>4 DEF Originals, Undoings
<1>6. \A d \in Expense \ {e} :
         Originals(jj, d) = Originals(j, d) /\ Undoings(jj, d) = Undoings(j, d)
  BY <1>3, <1>4 DEF Originals, Undoings
<1> QED
  BY <1>1, <1>5, <1>6 DEF jj

\* A number that was not counted yet adds one.
LEMMA OneMore ==
  ASSUME NEW j \in Seq(ExpenseEntry), NEW e
  PROVE  /\ Cardinality(Originals(j, e) \cup {Len(j) + 1}) = Cardinality(Originals(j, e)) + 1
         /\ Cardinality(Undoings(j, e) \cup {Len(j) + 1}) = Cardinality(Undoings(j, e)) + 1
<1>1. Len(j) + 1 \notin Originals(j, e) /\ Len(j) + 1 \notin Undoings(j, e)
  BY DEF Originals, Undoings
<1> QED
  BY <1>1, EntriesCount, FS_AddElement

\* The entry of a request stays an entry of its expense.
LEMMA RequestsStay ==
  ASSUME TypeOK, RequestsOK, NEW t \in Tx, Finish(t), Continues(journal, journal'),
         journal' \in Seq(ExpenseEntry)
  PROVE  tx' \in [Tx -> Request] /\ RequestsOK'
<1>1. tx' \in [Tx -> Request]
  BY DEF TypeOK, Finish, NoRequest, Request
<1>2. \A i \in 1..Len(journal) : i \in 1..Len(journal') /\ journal'[i].ref = journal[i].ref
  <2>1. \A i \in 1..Len(journal) : journal[i] \in ExpenseEntry
    BY DEF TypeOK
  <2> SUFFICES ASSUME NEW i \in 1..Len(journal)
               PROVE  i \in 1..Len(journal') /\ journal'[i].ref = journal[i].ref
    OBVIOUS
  <2>2. Len(journal') >= Len(journal) /\ Len(journal') \in Nat /\ Len(journal) \in Nat
    BY DEF Continues, TypeOK
  <2>3. \/ journal'[i] = journal[i]
        \/ journal'[i] = [journal[i] EXCEPT !.status = "reversed"]
    BY DEF Continues
  <2> QED
    BY <2>1, <2>2, <2>3 DEF ExpenseEntry, EntryOf
<1>3. ASSUME NEW u \in Tx, tx'[u].op # "none" PROVE tx'[u] = tx[u]
  BY <1>3 DEF Finish, NoRequest, TypeOK
<1>4. RequestsOK'
  BY <1>2, <1>3 DEF RequestsOK
<1> QED
  BY <1>1, <1>4

-----------------------------------------------------------------------------
\* The invariant holds of an empty database.
LEMMA InitEInv == Init => EInv
<1> SUFFICES ASSUME Init PROVE EInv
  OBVIOUS
<1>1. TypeOK
  <2>1. LinesOf(<<>>) \in Lines
    BY LinesOfType
  <2> QED
    BY <2>1 DEF Init, TypeOK, ExpenseRow, NoRequest, Request
<1>2. RequestsOK
  BY DEF Init, RequestsOK, NoRequest
<1>3. \A e \in Expense : Originals(journal, e) = {} /\ Undoings(journal, e) = {}
  BY DEF Init, Originals, Undoings
<1>4. RowsOK
  BY <1>3 DEF Init, RowsOK
<1>5. CountsOK
  BY <1>3, FS_EmptySet DEF CountsOK
<1> QED
  BY <1>1, <1>2, <1>4, <1>5 DEF EInv

\* A request that begins, or goes on, leaves rows and entries alone.
LEMMA TxKeeps ==
  ASSUME EInv, UNCHANGED <<expense, journal, ledger>>, tx' \in [Tx -> Request], RequestsOK'
  PROVE  EInv' /\ Continues(journal, journal')
  BY DEF EInv, TypeOK, RowsOK, CountsOK, Continues

\* createExpense writes a row that was not there, with its entry.
LEMMA CreateKeeps ==
  ASSUME EInv, NEW t \in Tx, CommitCreate(t)
  PROVE  EInv' /\ Continues(journal, journal')
<1>1. PICK e \in Expense, a \in Nat : e = tx[t].expense /\ a = tx[t].amount
  BY DEF EInv, TypeOK, RequestsOK, Request, CommitCreate, Running
<1>2. /\ expense[e].status = "none"
      /\ expense' = [expense EXCEPT ![e] = [status |-> "active", amount |-> a]]
      /\ journal' = PostEntry(journal, e, "expense", ExpenseLines(a))
      /\ ledger' = [ledger EXCEPT ![e] = AddLines(@, ExpenseLines(a))]
      /\ Finish(t)
  BY <1>1 DEF CommitCreate
<1> USE DEF EInv
<1>3. /\ journal' \in Seq(ExpenseEntry) /\ Continues(journal, journal')
      /\ Originals(journal', e) = Originals(journal, e) \cup {Len(journal) + 1}
      /\ Undoings(journal', e) = Undoings(journal, e)
      /\ \A d \in Expense \ {e} : /\ Originals(journal', d) = Originals(journal, d)
                                  /\ Undoings(journal', d) = Undoings(journal, d)
  <2>1. journal \in Seq(ExpenseEntry)
    BY DEF TypeOK
  <2> DEFINE jj == PostEntry(journal, e, "expense", ExpenseLines(a))
  <2>2. /\ jj \in Seq(ExpenseEntry) /\ Continues(journal, jj)
        /\ Originals(jj, e) = Originals(journal, e) \cup {Len(journal) + 1}
        /\ Undoings(jj, e) = Undoings(journal, e)
        /\ \A d \in Expense \ {e} : /\ Originals(jj, d) = Originals(journal, d)
                                    /\ Undoings(jj, d) = Undoings(journal, d)
    BY <2>1, PostEffect
  <2>3. journal' = jj
    BY <1>2
  <2> HIDE DEF jj
  <2> QED
    BY <2>2, <2>3
<1>4. tx' \in [Tx -> Request] /\ RequestsOK'
  BY <1>2, <1>3, RequestsStay
<1>5. TypeOK'
  <2>1. ExpenseLines(a) \in Lines
    BY ExpenseLinesType
  <2>2. AddLines(ledger[e], ExpenseLines(a)) \in Lines
    BY <2>1, AddLinesType DEF TypeOK
  <2> QED
    BY <1>2, <1>3, <1>4, <2>2 DEF TypeOK, ExpenseRow
<1>6. RowsOK'
  BY <1>2, <1>3 DEF RowsOK, TypeOK, ExpenseRow
<1>7. CountsOK'
  <2>1. Cardinality(Originals(journal', e)) <= Cardinality(Undoings(journal', e)) + 1
    <3>1. Originals(journal, e) = {} /\ Undoings(journal, e) = {}
      BY <1>2 DEF RowsOK
    <3>2. Cardinality(Originals(journal', e)) = Cardinality(Originals(journal, e)) + 1
      BY <1>3, OneMore DEF TypeOK
    <3>3. Cardinality(Originals(journal, e)) = 0 /\ Cardinality(Undoings(journal', e)) = 0
      BY <1>3, <3>1, FS_EmptySet
    <3> QED
      BY <3>2, <3>3
  <2> QED
    BY <1>3, <2>1 DEF CountsOK
<1> QED
  BY <1>3, <1>4, <1>5, <1>6, <1>7

\* updateExpense makes room for the entry it posts.
LEMMA ChangeKeeps ==
  ASSUME EInv, NEW t \in Tx, CommitChange(t)
  PROVE  EInv' /\ Continues(journal, journal')
<1>1. PICK e \in Expense, a \in Nat : e = tx[t].expense /\ a = tx[t].amount
  BY DEF EInv, TypeOK, RequestsOK, Request, CommitChange, Running
<1>2. PICK i \in PostedEntries(journal, e) :
         /\ journal' = PostEntry(ReverseEntry(journal, i), e, "expense", ExpenseLines(a))
         /\ ledger' = [ledger EXCEPT ![e] = AddLines(AddLines(@, SwapLines(journal[i].lines)),
                                                     ExpenseLines(a))]
         /\ expense' = [expense EXCEPT ![e].amount = a] /\ Finish(t)
  BY <1>1 DEF CommitChange
<1> DEFINE j == ReverseEntry(journal, i)
           n == Len(journal) + 1
<1> USE DEF EInv
<1>3. i \in 1..Len(journal) /\ journal[i].ref = e /\ journal[i] \in ExpenseEntry
  BY DEF PostedEntries, TypeOK
<1>4. /\ j \in Seq(ExpenseEntry) /\ Continues(journal, j)
      /\ Originals(j, e) = Originals(journal, e)
      /\ Undoings(j, e) = Undoings(journal, e) \cup {n}
      /\ \A d \in Expense \ {e} : /\ Originals(j, d) = Originals(journal, d)
                                  /\ Undoings(j, d) = Undoings(journal, d)
  BY <1>3, ReverseEffect DEF TypeOK
<1> HIDE DEF j
<1>5. /\ journal' \in Seq(ExpenseEntry) /\ Continues(j, journal')
      /\ Originals(journal', e) = Originals(j, e) \cup {Len(j) + 1}
      /\ Undoings(journal', e) = Undoings(j, e)
      /\ \A d \in Expense \ {e} : /\ Originals(journal', d) = Originals(j, d)
                                  /\ Undoings(journal', d) = Undoings(j, d)
  BY <1>2, <1>4, PostEffect DEF j
<1>6. Continues(journal, journal')
  <2>1. /\ Len(journal) \in Nat /\ Len(j) \in Nat /\ Len(journal') \in Nat
        /\ Len(journal) <= Len(j) /\ Len(j) <= Len(journal')
    BY <1>4, <1>5 DEF Continues, TypeOK
  <2>2. ASSUME NEW k \in 1..Len(journal)
        PROVE  \/ journal'[k] = journal[k]
               \/ journal[k].status = "posted" /\ journal'[k] = [journal[k] EXCEPT !.status = "reversed"]
    <3>1. k \in 1..Len(j) /\ journal[k] \in ExpenseEntry
      BY <2>1 DEF TypeOK
    <3>2. \/ j[k] = journal[k]
          \/ journal[k].status = "posted" /\ j[k] = [journal[k] EXCEPT !.status = "reversed"]
      BY <1>4 DEF Continues
    <3>3. \/ journal'[k] = j[k]
          \/ j[k].status = "posted" /\ journal'[k] = [j[k] EXCEPT !.status = "reversed"]
      BY <1>5, <3>1 DEF Continues
    <3> QED
      BY <3>1, <3>2, <3>3 DEF ExpenseEntry, EntryOf
  <2> QED
    BY <2>1, <2>2 DEF Continues
<1>7. tx' \in [Tx -> Request] /\ RequestsOK'
  BY <1>2, <1>5, <1>6, RequestsStay
<1>8. TypeOK'
  <2>1. ExpenseLines(a) \in Lines /\ SwapLines(journal[i].lines) \in Lines
    BY <1>3, ExpenseLinesType, SwapLinesType DEF ExpenseEntry, EntryOf
  <2>2. AddLines(AddLines(ledger[e], SwapLines(journal[i].lines)), ExpenseLines(a)) \in Lines
    BY <2>1, AddLinesType DEF TypeOK
  <2> QED
    BY <1>2, <1>5, <1>7, <2>2 DEF TypeOK, ExpenseRow
<1>9. RowsOK'
  <2>1. expense[e].status # "none"
    <3>1. i \in Originals(journal, e) \cup Undoings(journal, e)
      BY <1>3 DEF Originals, Undoings
    <3> QED
      BY <3>1 DEF RowsOK
  <2>2. expense'[e].status = expense[e].status /\ \A d \in Expense \ {e} : expense'[d] = expense[d]
    BY <1>2 DEF TypeOK, ExpenseRow
  <2> QED
    BY <1>4, <1>5, <2>1, <2>2 DEF RowsOK
<1>10. CountsOK'
  <2>1. /\ Cardinality(Originals(journal', e)) = Cardinality(Originals(journal, e)) + 1
        /\ Cardinality(Undoings(journal', e)) = Cardinality(Undoings(journal, e)) + 1
    <3>1. journal \in Seq(ExpenseEntry)
      BY DEF TypeOK
    <3>2. Cardinality(Originals(journal', e)) = Cardinality(Originals(j, e)) + 1
      BY <1>4, <1>5, OneMore
    <3>3. Cardinality(Undoings(j, e)) = Cardinality(Undoings(journal, e)) + 1
      BY <1>4, <3>1, OneMore
    <3> QED
      BY <1>4, <1>5, <3>2, <3>3
  <2>2. /\ Cardinality(Originals(journal, e)) \in Nat /\ Cardinality(Undoings(journal, e)) \in Nat
        /\ Cardinality(Originals(journal, e)) <= Cardinality(Undoings(journal, e)) + 1
    BY EntriesCount DEF TypeOK, CountsOK
  <2>3. \A d \in Expense \ {e} : /\ Originals(journal', d) = Originals(journal, d)
                                 /\ Undoings(journal', d) = Undoings(journal, d)
    BY <1>4, <1>5
  <2> QED
    BY <2>1, <2>2, <2>3 DEF CountsOK
<1> QED
  BY <1>6, <1>7, <1>8, <1>9, <1>10

\* deleteExpense reverses an entry of the expense, even one reversed before.
LEMMA DeleteKeeps ==
  ASSUME EInv, NEW t \in Tx, CommitDelete(t)
  PROVE  EInv' /\ Continues(journal, journal')
<1> USE DEF EInv
<1>1. PICK e \in Expense, i \in 1..Len(journal) :
         e = tx[t].expense /\ i = tx[t].entry /\ journal[i].ref = e
  BY DEF RequestsOK, CommitDelete, Running
<1>2. /\ journal' = ReverseEntry(journal, i)
      /\ ledger' = [ledger EXCEPT ![e] = AddLines(@, SwapLines(journal[i].lines))]
      /\ expense' = [expense EXCEPT ![e].status = "cancelled"] /\ Finish(t)
  BY <1>1 DEF CommitDelete
<1>3. /\ journal' \in Seq(ExpenseEntry) /\ Continues(journal, journal')
      /\ Originals(journal', e) = Originals(journal, e)
      /\ Undoings(journal', e) = Undoings(journal, e) \cup {Len(journal) + 1}
      /\ \A d \in Expense \ {e} : /\ Originals(journal', d) = Originals(journal, d)
                                  /\ Undoings(journal', d) = Undoings(journal, d)
  BY <1>1, <1>2, ReverseEffect DEF TypeOK
<1>4. tx' \in [Tx -> Request] /\ RequestsOK'
  BY <1>2, <1>3, RequestsStay
<1>5. TypeOK'
  <2>1. journal[i] \in ExpenseEntry
    BY DEF TypeOK
  <2>2. SwapLines(journal[i].lines) \in Lines
    BY <2>1, SwapLinesType DEF ExpenseEntry, EntryOf
  <2>3. AddLines(ledger[e], SwapLines(journal[i].lines)) \in Lines
    BY <2>2, AddLinesType DEF TypeOK
  <2> QED
    BY <1>2, <1>3, <1>4, <2>3 DEF TypeOK, ExpenseRow
<1>6. RowsOK'
  BY <1>2, <1>3 DEF RowsOK, TypeOK, ExpenseRow
<1>7. CountsOK'
  <2>1. /\ Cardinality(Undoings(journal', e)) = Cardinality(Undoings(journal, e)) + 1
        /\ Cardinality(Originals(journal, e)) \in Nat /\ Cardinality(Undoings(journal, e)) \in Nat
    BY <1>3, OneMore, EntriesCount DEF TypeOK
  <2>2. Cardinality(Originals(journal', e)) <= Cardinality(Undoings(journal', e)) + 1
    BY <1>3, <2>1 DEF CountsOK
  <2> QED
    BY <1>3, <2>2 DEF CountsOK
<1> QED
  BY <1>3, <1>4, <1>5, <1>6, <1>7

\* Every step keeps the invariant, appends to the journal or marks an entry, and
\* leaves a deleted expense deleted.
LEMMA StepEInv ==
  ASSUME EInv, [Next]_vars
  PROVE  /\ EInv' /\ Continues(journal, journal')
         /\ \A e \in Expense : expense[e].status = "cancelled" => expense'[e].status = "cancelled"
<1> DEFINE Kept == /\ EInv' /\ Continues(journal, journal')
                   /\ \A e \in Expense : expense[e].status = "cancelled" =>
                                            expense'[e].status = "cancelled"
<1> USE DEF EInv
<1>1. ASSUME NEW t \in Tx, NEW r \in Request, Begin(t, r),
             r.op # "none" => r.expense \in Expense, r.at \notin {"check"},
             r.at = "write" => r.op # "delete"
      PROVE  Kept
  <2>1. tx' = [tx EXCEPT ![t] = r] /\ UNCHANGED <<expense, journal, ledger>>
    BY <1>1 DEF Begin
  <2>2. tx' \in [Tx -> Request] /\ RequestsOK'
    BY <1>1, <2>1 DEF TypeOK, RequestsOK
  <2> QED
    BY <2>1, <2>2, TxKeeps
<1>2. ASSUME NEW t \in Tx, BeginCreate(t) PROVE Kept
  <2>1. PICK e \in Expense, a \in Amount :
           Begin(t, [NoRequest EXCEPT !.op = "create", !.at = "write",
                                      !.expense = e, !.amount = a])
    BY <1>2 DEF BeginCreate
  <2> DEFINE r == [NoRequest EXCEPT !.op = "create", !.at = "write", !.expense = e, !.amount = a]
  <2>2. r \in Request /\ r.op = "create" /\ r.at = "write" /\ r.expense = e
    BY ExpensesAssumption DEF NoRequest, Request
  <2> HIDE DEF r
  <2> QED
    BY <1>1, <2>1, <2>2 DEF r
<1>3. ASSUME NEW t \in Tx, BeginUpdate(t) PROVE Kept
  <2>1. PICK e \in Expense, a \in Amount :
           Begin(t, [NoRequest EXCEPT !.op = "update", !.at = "write", !.expense = e,
                                      !.amount = a, !.seen = expense[e].amount])
    BY <1>3 DEF BeginUpdate
  <2> DEFINE r == [NoRequest EXCEPT !.op = "update", !.at = "write", !.expense = e,
                                    !.amount = a, !.seen = expense[e].amount]
  <2>2. r \in Request /\ r.op = "update" /\ r.at = "write" /\ r.expense = e
    BY ExpensesAssumption DEF NoRequest, Request, TypeOK, ExpenseRow
  <2> HIDE DEF r
  <2> QED
    BY <1>1, <2>1, <2>2 DEF r
<1>4. ASSUME NEW t \in Tx, BeginDelete(t) PROVE Kept
  <2>1. PICK e \in Expense :
           Begin(t, [NoRequest EXCEPT !.op = "delete", !.at = "find", !.expense = e])
    BY <1>4 DEF BeginDelete
  <2> DEFINE r == [NoRequest EXCEPT !.op = "delete", !.at = "find", !.expense = e]
  <2>2. r \in Request /\ r.op = "delete" /\ r.at = "find" /\ r.expense = e
    BY DEF NoRequest, Request
  <2> HIDE DEF r
  <2> QED
    BY <1>1, <2>1, <2>2 DEF r
<1>5. ASSUME NEW t \in Tx, FindEntry(t) PROVE Kept
  <2>1. PICK i \in PostedEntries(journal, tx[t].expense) :
           /\ tx' = [tx EXCEPT ![t].at = "check", ![t].entry = i]
           /\ UNCHANGED <<expense, journal, ledger>>
    BY <1>5 DEF FindEntry
  <2>2. i \in 1..Len(journal) /\ i \in Nat /\ journal[i].ref = tx[t].expense
    BY DEF PostedEntries
  <2>3. tx' \in [Tx -> Request] /\ RequestsOK'
    BY <2>1, <2>2 DEF TypeOK, RequestsOK, Request
  <2> QED
    BY <2>1, <2>3, TxKeeps
<1>6. ASSUME NEW t \in Tx, CheckEntry(t) PROVE Kept
  <2>1. /\ tx' = [tx EXCEPT ![t].at = "write"] /\ tx[t].op = "delete" /\ tx[t].at = "check"
        /\ UNCHANGED <<expense, journal, ledger>>
    BY <1>6 DEF CheckEntry, Running
  <2>2. tx' \in [Tx -> Request] /\ RequestsOK'
    BY <2>1 DEF TypeOK, RequestsOK, Request
  <2> QED
    BY <2>1, <2>2, TxKeeps
<1>7. ASSUME NEW t \in Tx, CommitCreate(t) PROVE Kept
  <2>1. \A e \in Expense : expense[e].status = "cancelled" => expense'[e].status = "cancelled"
    BY <1>7 DEF CommitCreate, TypeOK
  <2> QED
    BY <1>7, <2>1, CreateKeeps
<1>8. ASSUME NEW t \in Tx, CommitEdit(t) PROVE Kept
  <2>1. /\ expense' = [expense EXCEPT ![tx[t].expense].amount = tx[t].amount]
        /\ Finish(t) /\ UNCHANGED <<journal, ledger>> /\ tx[t].amount \in Nat
    BY <1>8 DEF CommitEdit, TypeOK, Request
  <2>2. Continues(journal, journal')
    BY <2>1 DEF Continues, TypeOK
  <2>3. tx' \in [Tx -> Request] /\ RequestsOK'
    BY <2>1, <2>2, RequestsStay DEF TypeOK
  <2>4. /\ expense' \in [Expense -> ExpenseRow]
        /\ \A e \in Expense : expense'[e].status = expense[e].status
    BY <2>1 DEF TypeOK, ExpenseRow
  <2> QED
    BY <2>1, <2>2, <2>3, <2>4 DEF TypeOK, RowsOK, CountsOK
<1>9. ASSUME NEW t \in Tx, CommitChange(t) PROVE Kept
  <2>1. \A e \in Expense : expense'[e].status = expense[e].status
    BY <1>9 DEF CommitChange, TypeOK, ExpenseRow
  <2> QED
    BY <1>9, <2>1, ChangeKeeps
<1>10. ASSUME NEW t \in Tx, CommitDelete(t) PROVE Kept
  <2>1. \A e \in Expense : expense[e].status = "cancelled" => expense'[e].status = "cancelled"
    BY <1>10 DEF CommitDelete, TypeOK, ExpenseRow
  <2> QED
    BY <1>10, <2>1, DeleteKeeps
<1>11. ASSUME NEW t \in Tx, Abort(t) PROVE Kept
  <2>1. Finish(t) /\ UNCHANGED <<expense, journal, ledger>>
    BY <1>11 DEF Abort
  <2>2. Continues(journal, journal') /\ journal' \in Seq(ExpenseEntry)
    BY <2>1 DEF Continues, TypeOK
  <2>3. tx' \in [Tx -> Request] /\ RequestsOK'
    BY <2>1, <2>2, RequestsStay
  <2> QED
    BY <2>1, <2>3, TxKeeps
<1>12. ASSUME UNCHANGED vars PROVE Kept
  <2>1. tx' \in [Tx -> Request] /\ RequestsOK' /\ UNCHANGED <<expense, journal, ledger>>
    BY <1>12 DEF vars, TypeOK, RequestsOK
  <2> QED
    BY <2>1, TxKeeps
<1> HIDE DEF Kept
<1>13. Kept
  BY <1>2, <1>3, <1>4, <1>5, <1>6, <1>7, <1>8, <1>9, <1>10, <1>11, <1>12, Zenon DEF Next
<1> QED
  BY <1>13 DEF Kept

\* The invariant holds in every state.
LEMMA EInvariance == Spec => []EInv
<1>1. EInv /\ [Next]_vars => EInv'
  BY StepEInv
<1> QED
  BY <1>1, InitEInv, PTL DEF Spec

\* An expense is its row, the one entry that made it, and corrections of that,
\* for any number of concurrent creations, changes and deletions.
THEOREM RowsAndEntriesBelong == Spec => []RowsMatchEntries
<1>1. EInv => RowsMatchEntries
  <2> SUFFICES ASSUME EInv PROVE RowsMatchEntries
    OBVIOUS
  <2>1. ASSUME NEW e \in Expense
        PROVE  /\ EntriesFor(e) \ Corrections(e) = Originals(journal, e)
               /\ Corrections(e) = Undoings(journal, e)
               /\ EntriesFor(e) = Originals(journal, e) \cup Undoings(journal, e)
    BY DEF EntriesFor, Corrections, Originals, Undoings
  <2>2. OneCreation
    BY <2>1 DEF OneCreation, EInv, CountsOK
  <2>3. RowIffEntry
    BY <2>1 DEF RowIffEntry, EInv, RowsOK
  <2> QED
    BY <2>2, <2>3 DEF RowsMatchEntries, EInv
<1> QED
  BY <1>1, EInvariance, PTL

\* A deletion is never undone by a change that raced it, and no entry is edited
\* or dropped.
THEOREM NothingTakenBack == Spec => NothingRevived
<1>1. EInv /\ [Next]_vars => [\A e \in Expense : expense[e].status = "cancelled" =>
                                  expense'[e].status = "cancelled"]_vars
  BY StepEInv
<1>2. EInv /\ [Next]_vars => [Continues(journal, journal')]_vars
  BY StepEInv
<1> QED
  BY <1>1, <1>2, EInvariance, PTL DEF Spec, NothingRevived, CancelledForGood, HistoryKept

-----------------------------------------------------------------------------
(***************************************************************************)
(* Imports, for any file, any number of requests on the job, any number of *)
(* edits by other users and of confirmations.                              *)
(***************************************************************************)

\* Rows that were made among the first n of the file.
MadeUpTo(n) == {i \in 1..n : made[i] > 0}

\* Rows a request accepted among the first n of the file.
AcceptedUpTo(q, n) == req[q].accepted \cap 1..n

\* A request has read every row of the file, with a key where one must be.
ReadOK(q) ==
    /\ Len(req[q].rows) = Total
    /\ job.entity # "parties" =>
          \A i \in 1..Total : req[q].rows[i].ok => req[q].rows[i].key # Empty

\* It accepted complete rows only, and no key or code twice.
AcceptedOK(q) ==
    LET r == req[q] IN
    \A i \in r.accepted :
        /\ r.rows[i].ok
        /\ r.alone => \A j \in r.accepted : i # j =>
              /\ r.rows[i].key = r.rows[j].key => r.rows[i].key = Empty
              /\ r.rows[i].code = r.rows[j].code => r.rows[i].code = Empty

\* It has counted every row it passed, and made those it counts as imported.
ProgressOK(q) ==
    LET r == req[q] IN
    /\ r.next \in 1..(Total + 1)
    /\ r.done + r.bad = r.next - 1
    /\ r.done <= Cardinality(MadeUpTo(r.next - 1))

\* Undisturbed, it has created all it accepted so far, and can create the rest.
UndisturbedOK(q) ==
    LET r == req[q] IN
    r.step = "row" /\ r.alone /\ job.entity \notin {"units", "opening_stock"} =>
        /\ r.done = Cardinality(AcceptedUpTo(q, r.next - 1))
        /\ \A i \in r.accepted : i >= r.next => CanCreate(job.entity, r.rows[i])

CallOK(q) ==
    LET r == req[q] IN
    /\ r.step # "idle" => job.status # "none"
    /\ r.step \notin {"row", "move"} => r.done = 0 /\ r.bad = 0
    /\ r.step = "map" => r.mapping \in 1..Len(job.file)
    /\ r.step \in {"check", "recheck", "validated", "row", "move"} => ReadOK(q)
    /\ r.step \in {"row", "move"} => AcceptedOK(q) /\ ProgressOK(q)
    /\ r.step = "move" => r.next \in r.accepted /\ job.entity = "opening_stock"
    /\ UndisturbedOK(q)

\* A job is created once, for one file, and reads it by a mapping of that.
JobOK ==
    /\ job.status = "none" => job = NoJob
    /\ job.status # "none" =>
          /\ job.entity \in Entity /\ job.file \in File[job.entity]
          /\ job.mapping \in 1..Len(job.file)

\* Until the file is saved the job is only uploaded, or cancelled.
SavedOK ==
    \/ saved
    \/ /\ job.status \in {"none", "uploaded", "cancelled"}
       /\ \A q \in Caller : req[q].step \in {"idle", "save", "cancel"}

\* A name with a unique index is there once, deleted or not.
KeysOK ==
    \A t \in {"product", "barcode", "unit"}, n \in Name : live[t][n] + gone[t][n] <= 1

\* What is said of a job that is completed.
ReportOK == EveryRowReported /\ ReportedWereMade /\ UndisturbedImportIsWhole

\* The inductive invariant.
ImportInv ==
    /\ ImportTypeOK /\ JobOK /\ SavedOK /\ KeysOK /\ ReportOK
    /\ \A q \in Caller : CallOK(q)

-----------------------------------------------------------------------------
\* A file has rows; how many, no mapping decides.
LEMMA TotalNat ==
  ASSUME JobOK
  PROVE  Total \in Nat /\ (job.status # "none" => Total = Len(job.file[1]))
<1>1. CASE job.status = "none"
  BY <1>1 DEF JobOK, NoJob, Total
<1>2. CASE job.status # "none"
  <2>1. job.file # NoFile /\ job.file \in Seq(Seq(Row))
    BY <1>2, ImportAssumption DEF JobOK
  <2> QED
    BY <1>2, <2>1 DEF Total
<1> QED
  BY <1>1, <1>2

\* Rows up to a number are so many at most, and fewer up to a smaller one.
LEMMA UpTo ==
  ASSUME NEW n \in Nat, NEW S \in SUBSET (1..n)
  PROVE  IsFiniteSet(S) /\ Cardinality(S) \in Nat /\ Cardinality(S) <= n
<1>1. IsFiniteSet(1..n) /\ Cardinality(1..n) = n
  BY FS_Interval
<1> QED
  BY <1>1, FS_Subset, FS_CardinalityType

\* Rows that were made can be counted, and the first n are among them all.
LEMMA MadeCount ==
  ASSUME ImportTypeOK, JobOK, NEW n \in 0..Total
  PROVE  /\ IsFiniteSet(MadeUpTo(n)) /\ Cardinality(MadeUpTo(n)) \in Nat
         /\ Cardinality(MadeUpTo(n)) <= Cardinality({i \in DOMAIN made : made[i] > 0})
<1>1. Total \in Nat /\ n \in Nat /\ n <= Total
  BY TotalNat
<1>2. DOMAIN made = 1..Total
  BY DEF ImportTypeOK
<1> DEFINE S == {i \in DOMAIN made : made[i] > 0}
<1>3. S \in SUBSET (1..Total) /\ MadeUpTo(n) \in SUBSET S
  BY <1>1, <1>2 DEF MadeUpTo
<1>4. IsFiniteSet(S)
  BY <1>1, <1>3, UpTo
<1> QED
  BY <1>3, <1>4, FS_Subset, FS_CardinalityType

\* The import starts in the invariant.
LEMMA InitImportInv == ImportInit => ImportInv
<1> SUFFICES ASSUME ImportInit PROVE ImportInv
  OBVIOUS
<1>1. job = NoJob /\ Total = 0 /\ saved = FALSE /\ made = <<>> /\ edits = 0 /\ crashed = FALSE
  BY DEF ImportInit, NoJob, Total
<1>2. /\ live \in [Table -> [Name \cup {Empty} -> Nat]]
      /\ gone \in [Table -> [Name \cup {Empty} -> Nat]]
      /\ \A t \in Table, n \in Name : live[t][n] + gone[t][n] <= 1
  BY DEF ImportInit, Rows
<1>3. req = [q \in Caller |-> Idle] /\ stock \in [Name -> Nat]
  BY DEF ImportInit
<1>4. made \in [1..Total -> Nat]
  BY <1>1
<1>5. Idle \in Call
  BY <1>1 DEF Idle, Call, Step
<1>6. ImportTypeOK
  <2>1. NoFile \in AnyFile
    BY DEF AnyFile
  <2>3. job \in Job
    BY <1>1, <2>1 DEF NoJob, Status, Job
  <2>4. edits \in 0..MaxEdits
    BY <1>1, ImportAssumption
  <2>2. req \in [Caller -> Call]
    BY <1>3, <1>5
  <2> QED
    BY <1>1, <1>2, <1>3, <1>4, <2>3, <2>2, <2>4 DEF ImportTypeOK
<1>7. \A q \in Caller : CallOK(q)
  BY <1>3 DEF CallOK, Idle, UndisturbedOK
<1>8. JobOK /\ SavedOK /\ KeysOK
  BY <1>1, <1>2, <1>3 DEF JobOK, SavedOK, KeysOK, NoJob, Idle, Table
<1>9. ReportOK
  <2>1. Cardinality({i \in DOMAIN made : made[i] > 0}) = 0
    <3>1. {i \in DOMAIN made : made[i] > 0} = {}
      BY <1>1
    <3> QED
      BY <3>1, FS_EmptySet
  <2> QED
    BY <1>1, <2>1 DEF ReportOK, EveryRowReported, ReportedWereMade, UndisturbedImportIsWhole, NoJob
<1> QED
  BY <1>6, <1>7, <1>8, <1>9 DEF ImportInv

-----------------------------------------------------------------------------
\* A job that is there keeps its file and its kind.
SameFile == job'.file = job.file /\ job'.entity = job.entity /\ (job.status # "none" => job'.status # "none")

\* A request is not disturbed by what writes neither to its state nor to the catalog.
LEMMA Undisturbed ==
  ASSUME NEW p \in Caller, CallOK(p), req'[p] = req[p], SameFile, UNCHANGED <<catalog, made>>
  PROVE  CallOK(p)'
<1>1. Total' = Total /\ made' = made /\ live' = live /\ gone' = gone
  BY DEF Total, SameFile, catalog
<1>2. \A n : MadeUpTo(n)' = MadeUpTo(n) /\ AcceptedUpTo(p, n)' = AcceptedUpTo(p, n)
  BY <1>1 DEF MadeUpTo, AcceptedUpTo
<1>3. \A e, row : CanCreate(e, row)' = CanCreate(e, row)
  BY <1>1 DEF CanCreate, Free, Taken, Known
<1>4. ReadOK(p)' = ReadOK(p) /\ AcceptedOK(p)' = AcceptedOK(p)
  BY <1>1 DEF ReadOK, AcceptedOK, SameFile
<1>5. ProgressOK(p)' = ProgressOK(p)
  BY <1>1, <1>2 DEF ProgressOK
<1>6. UndisturbedOK(p)' = UndisturbedOK(p)
  BY <1>2, <1>3 DEF UndisturbedOK, SameFile
<1> QED
  BY <1>4, <1>5, <1>6 DEF CallOK, SameFile

\* A request takes a step that does not write to the catalog.
LEMMA CallStep ==
  ASSUME ImportInv, NEW q \in Caller, NEW r \in Call,
         UNCHANGED <<catalog, made, edits>>, req' = [req EXCEPT ![q] = r],
         saved' \in BOOLEAN, crashed' \in BOOLEAN, job' \in Job, SameFile,
         JobOK', SavedOK', ReportOK', CallOK(q)'
  PROVE  ImportInv'
<1>1. Total' = Total /\ Call' = Call
  BY DEF Total, SameFile, Call
<1>2. req' \in [Caller -> Call]
  BY DEF ImportInv, ImportTypeOK
<1>3. ImportTypeOK'
  BY <1>1, <1>2 DEF ImportInv, ImportTypeOK, catalog, Job, AnyFile
<1>4. KeysOK'
  BY DEF ImportInv, KeysOK, catalog
<1>5. ASSUME NEW p \in Caller PROVE CallOK(p)'
  <2>1. CASE p # q
    <3>1. req'[p] = req[p]
      BY <2>1 DEF ImportInv, ImportTypeOK
    <3> QED
      BY <3>1, Undisturbed DEF ImportInv
  <2> QED
    BY <2>1
<1> QED
  BY <1>3, <1>4, <1>5 DEF ImportInv

\* It may leave the job as it is.
LEMMA QuietStep ==
  ASSUME ImportInv, NEW q \in Caller, NEW r \in Call,
         UNCHANGED <<job, catalog, made, edits>>, req' = [req EXCEPT ![q] = r],
         saved' \in BOOLEAN, crashed' \in BOOLEAN, SavedOK', CallOK(q)'
  PROVE  ImportInv'
<1>1. SameFile /\ JobOK' /\ job' \in Job
  BY DEF ImportInv, SameFile, JobOK, ImportTypeOK
<1>2. ReportOK'
  BY DEF ImportInv, ReportOK, EveryRowReported, ReportedWereMade, UndisturbedImportIsWhole, Total
<1> QED
  BY <1>1, <1>2, CallStep

\* A request that has ended says nothing.
LEMMA Ended ==
  ASSUME NEW q \in Caller, req'[q] = Idle
  PROVE  CallOK(q)'
  BY DEF CallOK, Idle, UndisturbedOK

\* Nor does one that has not read the file, but that the job is there.
LEMMA Started ==
  ASSUME NEW q \in Caller, job'.status # "none", req'[q].done = 0, req'[q].bad = 0,
         req'[q].step \notin {"map", "check", "recheck", "validated", "row", "move"}
  PROVE  CallOK(q)'
  BY DEF CallOK, UndisturbedOK

\* The request is one.
LEMMA CallTyped ==
  ASSUME ImportInv, NEW q \in Caller
  PROVE  /\ req[q] \in Call /\ CallOK(q) /\ Total \in Nat
         /\ \A r : [req EXCEPT ![q] = r][q] = r
         /\ \A r, p : p # q /\ p \in Caller => [req EXCEPT ![q] = r][p] = req[p]
         /\ Idle \in Call
<1>1. Total \in Nat
  BY TotalNat DEF ImportInv
<1>2. Idle \in Call
  BY <1>1 DEF Idle, Call, Step
<1> QED
  BY <1>1, <1>2 DEF ImportInv, ImportTypeOK

\* A file that is saved stays saved.
LEMMA StaysSaved ==
  ASSUME saved' = TRUE
  PROVE  SavedOK'
  BY DEF SavedOK

\* The file is saved.
LEMMA SaveStep ==
  ASSUME ImportInv, NEW q \in Caller, SaveFile(q)
  PROVE  ImportInv'
<1> DEFINE r == [req[q] EXCEPT !.step = "analyze"]
<1>1. req[q] \in Call /\ CallOK(q) /\ req[q].step = "save" /\ req' = [req EXCEPT ![q] = r]
  BY CallTyped DEF SaveFile, Proceed, Go, At
<1>2. r \in Call /\ r.step = "analyze" /\ r.done = 0 /\ r.bad = 0 /\ job'.status # "none"
  BY <1>1 DEF Call, Step, CallOK, SaveFile
<1> HIDE DEF r
<1>3. req'[q] = r
  BY <1>1, CallTyped
<1>4. CallOK(q)'
  BY <1>2, <1>3, Started
<1>5. saved' \in BOOLEAN /\ crashed' \in BOOLEAN /\ SavedOK'
  BY StaysSaved DEF SaveFile, ImportInv, ImportTypeOK
<1> QED
  BY <1>1, <1>2, <1>4, <1>5, QuietStep DEF SaveFile

\* A request on a job that was analysed begins: its file is saved.
LEMMA BeginStep ==
  ASSUME ImportInv, NEW q \in Caller,
         BeginMapping(q) \/ BeginValidation(q) \/ BeginConfirm(q)
  PROVE  ImportInv'
<1>1. PICK r : /\ req' = [req EXCEPT ![q] = r]
               /\ \/ \E m \in DOMAIN job.file : r = [Idle EXCEPT !.step = "map", !.mapping = m]
                  \/ \E s \in {"validating", "importing"} :
                        req[q].step = "idle" /\ r = [req[q] EXCEPT !.step = s]
  BY DEF BeginMapping, BeginValidation, BeginConfirm, Proceed, Go, At
<1>2. job.status \in {"ready", "validated"} /\ job' = job /\ saved' = saved /\ crashed' = crashed
      /\ UNCHANGED <<catalog, made, edits>>
  BY DEF BeginMapping, BeginValidation, BeginConfirm
<1>3. req[q] \in Call /\ CallOK(q) /\ req'[q] = r
  BY <1>1, CallTyped
<1>4. job.file \in Seq(Seq(Row))
  BY <1>2, ImportAssumption DEF ImportInv, JobOK
<1>7. DOMAIN job.file = 1..Len(job.file) /\ Len(job.file) \in Nat
  <2> DEFINE f == job.file
  <2>1. f \in Seq(Seq(Row))
    BY <1>4
  <2> HIDE DEF f
  <2>2. DOMAIN f = 1..Len(f) /\ Len(f) \in Nat
    BY <2>1
  <2> QED
    BY <2>2 DEF f
<1>5. r \in Call /\ CallOK(q)'
  <2>1. CASE \E m \in DOMAIN job.file : r = [Idle EXCEPT !.step = "map", !.mapping = m]
    <3>1. PICK m \in 1..Len(job.file) : r = [Idle EXCEPT !.step = "map", !.mapping = m]
      BY <1>7, <2>1
    <3>2. m \in Nat
      BY <1>7
    <3>3. r \in Call
      BY <3>1, <3>2, CallTyped DEF Call, Step
    <3>4. r.step = "map" /\ r.mapping = m /\ r.done = 0 /\ r.bad = 0
      BY <3>1 DEF Idle
    <3>5. req'[q].mapping \in 1..Len(job'.file) /\ job'.status # "none"
      BY <1>2, <1>3, <3>1, <3>4
    <3>6. req'[q].step = "map" /\ req'[q].done = 0 /\ req'[q].bad = 0
      BY <1>3, <3>4
    <3> QED
      BY <3>3, <3>5, <3>6 DEF CallOK, UndisturbedOK
  <2>2. CASE \E s \in {"validating", "importing"} :
                req[q].step = "idle" /\ r = [req[q] EXCEPT !.step = s]
    <3>1. r \in Call /\ r.step \in {"validating", "importing"} /\ r.done = 0 /\ r.bad = 0
      BY <1>3, <2>2 DEF Call, Step, CallOK
    <3> QED
      BY <1>2, <1>3, <3>1, Started
  <2> QED
    BY <1>1, <2>1, <2>2
<1>6. SavedOK'
  BY <1>2 DEF ImportInv, SavedOK
<1> QED
  BY <1>1, <1>2, <1>5, <1>6, QuietStep DEF ImportInv, ImportTypeOK

\* A cancellation begins.
LEMMA BeginCancelStep ==
  ASSUME ImportInv, NEW q \in Caller, BeginCancel(q)
  PROVE  ImportInv'
<1> DEFINE r == [req[q] EXCEPT !.step = "cancel"]
<1>1. req[q] \in Call /\ CallOK(q) /\ req[q].step = "idle" /\ req' = [req EXCEPT ![q] = r]
  BY CallTyped DEF BeginCancel, Proceed, Go, At
<1>2. r \in Call /\ r.step = "cancel" /\ r.done = 0 /\ r.bad = 0 /\ job'.status # "none"
  BY <1>1 DEF Call, Step, CallOK, BeginCancel
<1> HIDE DEF r
<1>3. req'[q] = r /\ \A p \in Caller : p # q => req'[p] = req[p]
  BY <1>1, CallTyped
<1>4. CallOK(q)'
  BY <1>2, <1>3, Started
<1>5. saved' \in BOOLEAN /\ crashed' \in BOOLEAN
  BY DEF BeginCancel, ImportInv, ImportTypeOK
<1>6. SavedOK'
  BY <1>2, <1>3 DEF ImportInv, SavedOK, BeginCancel
<1> QED
  BY <1>1, <1>2, <1>4, <1>5, <1>6, QuietStep DEF BeginCancel

\* A request dies.
LEMMA CrashStep ==
  ASSUME ImportInv, NEW q \in Caller, Crash(q)
  PROVE  ImportInv'
<1>1. req' = [req EXCEPT ![q] = Idle] /\ Idle \in Call
  BY CallTyped DEF Crash, Go
<1>2. req'[q] = Idle /\ \A p \in Caller : p # q => req'[p] = req[p]
  BY <1>1, CallTyped
<1>3. CallOK(q)'
  BY <1>2, Ended
<1>4. saved' \in BOOLEAN /\ crashed' \in BOOLEAN
  BY DEF Crash, ImportInv, ImportTypeOK
<1>5. SavedOK'
  BY <1>2 DEF ImportInv, SavedOK, Crash, Idle
<1> QED
  BY <1>1, <1>3, <1>4, <1>5, QuietStep DEF Crash

-----------------------------------------------------------------------------
\* A row that passes the validation can be created, where the validation looks for
\* what the database will.
LEMMA FitsCreates ==
  ASSUME NEW e \in Kind \ {"units", "opening_stock"}, NEW row, Fits(e, row)
  PROVE  CanCreate(e, row)
<1>1. \A t, n : Free(t, n) = ~Taken(t, n)
  BY DEF Free
<1>2. CASE e = "products"
  BY <1>1, <1>2 DEF Fits, CanCreate, validateProductsRows
<1>3. CASE e = "barcodes"
  BY <1>1, <1>3 DEF Fits, CanCreate, validateBarcodesRows
<1>4. CASE e = "categories"
  BY <1>4 DEF Fits, CanCreate, validateCategoriesRows
<1>5. CASE e = "parties"
  BY <1>1, <1>5 DEF Fits, CanCreate, validatePartyRows
<1> QED
  BY <1>2, <1>3, <1>4, <1>5 DEF Kind

\* A request that read the file holds a sequence of that many rows.
LEMMA ReadRows ==
  ASSUME ImportInv, NEW q \in Caller, ReadOK(q)
  PROVE  DOMAIN req[q].rows = 1..Total /\ \A i \in 1..Total : req[q].rows[i] \in Row
<1> DEFINE rows == req[q].rows
<1>1. rows \in Seq(Row) /\ Len(rows) = Total
  BY CallTyped DEF Call, ReadOK
<1> HIDE DEF rows
<1>2. DOMAIN rows = 1..Len(rows) /\ \A i \in 1..Len(rows) : rows[i] \in Row
  BY <1>1
<1> QED
  BY <1>1, <1>2 DEF rows

\* What is accepted is complete and occurs once.
LEMMA AcceptedAre ==
  ASSUME NEW e, NEW rows, NEW N \in Nat, DOMAIN rows = 1..N
  PROVE  /\ Accepted(e, rows) \subseteq 1..N
         /\ \A i \in Accepted(e, rows) : rows[i].ok /\ Fits(e, rows[i])
         /\ \A i, j \in Accepted(e, rows) : i # j =>
               /\ rows[i].key = rows[j].key => rows[i].key = Empty
               /\ rows[i].code = rows[j].code => rows[i].code = Empty
<1>1. \A i \in Accepted(e, rows) : i \in 1..N /\ rows[i].ok /\ Fits(e, rows[i])
                                   /\ ~RepeatedKey(rows, i) /\ ~RepeatedCode(rows, i)
  BY DEF Accepted
<1>2. ASSUME NEW i \in Accepted(e, rows), NEW j \in Accepted(e, rows), i < j
      PROVE  /\ rows[i].key = rows[j].key => rows[j].key = Empty
             /\ rows[i].code = rows[j].code => rows[j].code = Empty
  <2>1. i \in 1..(j - 1)
    BY <1>1, <1>2
  <2> QED
    BY <1>1, <2>1 DEF RepeatedKey, RepeatedCode
<1>3. ASSUME NEW i \in Accepted(e, rows), NEW j \in Accepted(e, rows), i # j
      PROVE  /\ rows[i].key = rows[j].key => rows[i].key = Empty
             /\ rows[i].code = rows[j].code => rows[i].code = Empty
  <2>1. i < j \/ j < i
    BY <1>1, <1>3
  <2> QED
    BY <1>2, <2>1
<1> QED
  BY <1>1, <1>3

\* The rows are checked.
LEMMA CheckStep ==
  ASSUME ImportInv, NEW q \in Caller, CheckRows(q)
  PROVE  ImportInv'
<1> DEFINE ok == Accepted(job.entity, req[q].rows)
           s  == IF req[q].step = "check" THEN "validated" ELSE "row"
           r  == [req[q] EXCEPT !.step = s, !.accepted = ok, !.alone = TRUE, !.next = 1]
<1>1. req' = [req EXCEPT ![q] = r] /\ req[q].step \in {"check", "recheck"}
  BY DEF CheckRows, Go, At
<1> HIDE DEF r
<1>2. req[q] \in Call /\ CallOK(q) /\ req'[q] = r /\ Total \in Nat
  BY <1>1, CallTyped
<1>3. ReadOK(q) /\ job.status # "none" /\ req[q].done = 0 /\ req[q].bad = 0
  BY <1>1, <1>2 DEF CallOK
<1>4. UNCHANGED <<job, saved, catalog, made, edits, crashed>>
  BY DEF CheckRows
<1>5. DOMAIN req[q].rows = 1..Total
  BY <1>3, ReadRows
<1>6. /\ ok \subseteq 1..Total
      /\ \A i \in ok : req[q].rows[i].ok /\ Fits(job.entity, req[q].rows[i])
      /\ \A i, j \in ok : i # j =>
            /\ req[q].rows[i].key = req[q].rows[j].key => req[q].rows[i].key = Empty
            /\ req[q].rows[i].code = req[q].rows[j].code => req[q].rows[i].code = Empty
  BY <1>2, <1>5, AcceptedAre
<1> HIDE DEF ok
<1>7. r \in Call /\ r.step \in {"validated", "row"} /\ r.rows = req[q].rows /\ r.accepted = ok
      /\ r.next = 1 /\ r.done = 0 /\ r.bad = 0 /\ r.alone = TRUE
  BY <1>2, <1>3, <1>6 DEF Call, Step, r
<1> HIDE DEF s
<1>8. Total' = Total /\ job' = job /\ live' = live /\ gone' = gone /\ made' = made
  BY <1>4 DEF Total, catalog
<1>9. ReadOK(q)'
  BY <1>2, <1>3, <1>7, <1>8 DEF ReadOK
<1>10. AcceptedOK(q)'
  <2>1. req'[q].accepted = ok /\ req'[q].rows = req[q].rows
    BY <1>2, <1>7
  <2> QED
    BY <1>6, <2>1 DEF AcceptedOK
<1>11. ProgressOK(q)'
  <2>1. Cardinality(MadeUpTo(0)) \in Nat /\ MadeUpTo(0)' = MadeUpTo(0)
    <3>1. 0 \in 0..Total
      BY <1>2
    <3>2. Cardinality(MadeUpTo(0)) \in Nat
      BY <3>1, MadeCount DEF ImportInv
    <3> QED
      BY <1>8, <3>2 DEF MadeUpTo
  <2>2. req'[q].next \in 1..(Total + 1) /\ req'[q].next - 1 = 0
        /\ req'[q].done = 0 /\ req'[q].bad = 0
    BY <1>2, <1>7
  <2> QED
    BY <1>8, <2>1, <2>2 DEF ProgressOK
<1>12. UndisturbedOK(q)'
  <2>1. AcceptedUpTo(q, 0)' = {}
    BY DEF AcceptedUpTo
  <2>2. Cardinality(AcceptedUpTo(q, 0)') = 0
    BY <2>1, FS_EmptySet
  <2>3. ASSUME job.entity \notin {"units", "opening_stock"}, NEW i \in ok
        PROVE  CanCreate(job.entity, req[q].rows[i])
    BY <1>3, <1>6, <2>3, FitsCreates, ImportAssumption DEF ImportInv, JobOK
  <2>4. \A e, row : CanCreate(e, row)' = CanCreate(e, row)
    BY <1>8 DEF CanCreate, Free, Taken, Known
  <2>5. req'[q].done = 0 /\ req'[q].next - 1 = 0 /\ req'[q].accepted = ok
        /\ req'[q].rows = req[q].rows
    BY <1>2, <1>7
  <2> QED
    BY <1>8, <2>2, <2>3, <2>4, <2>5 DEF UndisturbedOK
<1>13. CallOK(q)'
  BY <1>2, <1>3, <1>7, <1>8, <1>9, <1>10, <1>11, <1>12 DEF CallOK
<1>14. SavedOK'
  BY <1>1, <1>4 DEF ImportInv, SavedOK
<1> QED
  BY <1>1, <1>4, <1>7, <1>13, <1>14, QuietStep DEF ImportInv, ImportTypeOK

\* One accepted row more, if it is one.
LEMMA OneAccepted ==
  ASSUME ImportInv, NEW q \in Caller, NEW n \in 1..Total
  PROVE  /\ Cardinality(AcceptedUpTo(q, n - 1)) \in Nat
         /\ Cardinality(AcceptedUpTo(q, n)) = Cardinality(AcceptedUpTo(q, n - 1))
               + (IF n \in req[q].accepted THEN 1 ELSE 0)
<1>1. Total \in Nat /\ n \in Nat /\ n - 1 \in Nat
  BY CallTyped
<1>2. AcceptedUpTo(q, n - 1) \subseteq 1..(n - 1)
  BY DEF AcceptedUpTo
<1>3. IsFiniteSet(AcceptedUpTo(q, n - 1)) /\ Cardinality(AcceptedUpTo(q, n - 1)) \in Nat
  BY <1>1, <1>2, UpTo
<1>4. CASE n \in req[q].accepted
  <2>1. AcceptedUpTo(q, n) = AcceptedUpTo(q, n - 1) \cup {n} /\ n \notin AcceptedUpTo(q, n - 1)
    BY <1>1, <1>4 DEF AcceptedUpTo
  <2> QED
    BY <1>3, <1>4, <2>1, FS_AddElement
<1>5. CASE n \notin req[q].accepted
  <2>1. AcceptedUpTo(q, n) = AcceptedUpTo(q, n - 1)
    BY <1>1, <1>5 DEF AcceptedUpTo
  <2> QED
    BY <1>3, <1>5, <2>1
<1> QED
  BY <1>4, <1>5

\* The row that is next is one of the file.
LEMMA NextIsRow ==
  ASSUME ImportInv, NEW q \in Caller, At(q, "row"), More(q)
  PROVE  /\ req[q].next \in 1..Total /\ req[q].next - 1 \in 0..Total
         /\ ReadOK(q) /\ AcceptedOK(q) /\ ProgressOK(q) /\ UndisturbedOK(q)
         /\ job.status # "none" /\ job.entity \in Kind
<1>1. CallOK(q) /\ Total \in Nat
  BY CallTyped
<1>2. /\ ReadOK(q) /\ AcceptedOK(q) /\ ProgressOK(q) /\ UndisturbedOK(q)
      /\ job.status # "none"
  BY <1>1 DEF CallOK, At
<1>3. req[q].next \in 1..Total
  BY <1>1, <1>2 DEF ProgressOK, More, ReadOK
<1>4. job.entity \in Kind
  BY <1>2, ImportAssumption DEF ImportInv, JobOK
<1> QED
  BY <1>1, <1>2, <1>3, <1>4

\* A row is counted: a request that was typed is.
LEMMA CountedIs ==
  ASSUME NEW q \in Caller, req[q] \in Call, NEW ok \in BOOLEAN
  PROVE  LET r == Counted(q, ok) IN
         /\ r \in Call
         /\ r.step = "row" /\ r.rows = req[q].rows /\ r.accepted = req[q].accepted
         /\ r.alone = req[q].alone /\ r.next = req[q].next + 1
         /\ r.done = (IF ok THEN req[q].done + 1 ELSE req[q].done)
         /\ r.bad = (IF ok THEN req[q].bad ELSE req[q].bad + 1)
<1> DEFINE d == IF ok THEN req[q].done + 1 ELSE req[q].done
           b == IF ok THEN req[q].bad ELSE req[q].bad + 1
           r == Counted(q, ok)
<1>1. r = [req[q] EXCEPT !.step = "row", !.next = req[q].next + 1, !.done = d, !.bad = b]
  BY DEF Counted, Call
<1>2. d \in Nat /\ b \in Nat /\ req[q].next + 1 \in Nat /\ "row" \in Step
  BY DEF Call, Step
<1> HIDE DEF d, b, r
<1>3. r \in Call
  BY <1>1, <1>2 DEF Call
<1>4. /\ r.step = "row" /\ r.rows = req[q].rows /\ r.accepted = req[q].accepted
      /\ r.alone = req[q].alone /\ r.next = req[q].next + 1 /\ r.done = d /\ r.bad = b
  BY <1>1 DEF Call
<1> QED
  BY <1>3, <1>4 DEF d, b, r

\* A row is left out, or cannot be created: nothing stays of it but the error.
LEMMA SkipStep ==
  ASSUME ImportInv, NEW q \in Caller, SkipRow(q)
  PROVE  ImportInv'
<1> DEFINE r == Counted(q, FALSE)
<1>0. PICK n : n = req[q].next
  OBVIOUS
<1>1. req' = [req EXCEPT ![q] = r] /\ At(q, "row") /\ More(q)
  BY DEF SkipRow, Go
<1> HIDE DEF r
<1>2. req[q] \in Call /\ req'[q] = r /\ Total \in Nat
  BY <1>1, CallTyped
<1>3. /\ n \in 1..Total /\ n - 1 \in 0..Total
      /\ ReadOK(q) /\ AcceptedOK(q) /\ ProgressOK(q) /\ UndisturbedOK(q)
      /\ job.status # "none" /\ job.entity \in Kind
  BY <1>0, <1>1, NextIsRow
<1>4. UNCHANGED <<job, saved, catalog, made, edits, crashed>>
  BY DEF SkipRow
<1>5. r \in Call
  BY <1>2, CountedIs DEF r
<1>6. /\ r.step = "row" /\ r.next = n + 1 /\ r.done = req[q].done /\ r.bad = req[q].bad + 1
      /\ r.rows = req[q].rows /\ r.accepted = req[q].accepted /\ r.alone = req[q].alone
  BY <1>0, <1>2, CountedIs DEF r
<1>7. Total' = Total /\ job' = job /\ live' = live /\ gone' = gone /\ made' = made
  BY <1>4 DEF Total, catalog
<1>8. ReadOK(q)'
  BY <1>2, <1>3, <1>6, <1>7 DEF ReadOK
<1>9. AcceptedOK(q)'
  <2>1. req[q].step = "row"
    BY <1>1 DEF At
  <2> QED
    BY <1>2, <1>3, <1>6, <2>1 DEF AcceptedOK
<1>10. ProgressOK(q)'
  <2>1. MadeUpTo(n - 1) \subseteq MadeUpTo(n)
    BY <1>2, <1>3 DEF MadeUpTo
  <2>6. n \in 0..Total
    BY <1>2, <1>3
  <2>2. IsFiniteSet(MadeUpTo(n)) /\ Cardinality(MadeUpTo(n)) \in Nat
        /\ Cardinality(MadeUpTo(n - 1)) \in Nat
    BY <1>3, <2>6, MadeCount DEF ImportInv
  <2>3. Cardinality(MadeUpTo(n - 1)) <= Cardinality(MadeUpTo(n))
    BY <2>1, <2>2, FS_Subset
  <2>4. MadeUpTo(n)' = MadeUpTo(n)
    BY <1>7 DEF MadeUpTo
  <2>5. req'[q].next - 1 = n /\ n + 1 \in 1..(Total + 1) /\ req[q].done \in Nat /\ req[q].bad \in Nat
    BY <1>2, <1>3, <1>6 DEF Call
  <2> QED
    BY <1>0, <1>2, <1>3, <1>6, <1>7, <2>2, <2>3, <2>4, <2>5 DEF ProgressOK
<1>11. UndisturbedOK(q)'
  <2> SUFFICES ASSUME req[q].alone, job.entity \notin {"units", "opening_stock"}
               PROVE  /\ req[q].done = Cardinality(AcceptedUpTo(q, n))
                      /\ \A i \in req[q].accepted : i >= n + 1 =>
                            CanCreate(job.entity, req[q].rows[i])
    <3>1. AcceptedUpTo(q, n)' = AcceptedUpTo(q, n)
      BY <1>2, <1>6 DEF AcceptedUpTo
    <3>2. \A e, row : CanCreate(e, row)' = CanCreate(e, row)
      BY <1>7 DEF CanCreate, Free, Taken, Known
    <3>3. req'[q].next - 1 = n
      BY <1>2, <1>3, <1>6
    <3> QED
      BY <1>2, <1>6, <1>7, <3>1, <3>2, <3>3 DEF UndisturbedOK
  <2>1. req[q].step = "row"
    BY <1>1 DEF At
  <2>2. /\ req[q].done = Cardinality(AcceptedUpTo(q, n - 1))
        /\ \A i \in req[q].accepted : i >= n => CanCreate(job.entity, req[q].rows[i])
    BY <1>0, <1>3, <2>1 DEF UndisturbedOK
  <2>3. n \notin req[q].accepted
    BY <1>0, <1>3, <2>2 DEF SkipRow, Current
  <2>4. Cardinality(AcceptedUpTo(q, n)) = Cardinality(AcceptedUpTo(q, n - 1))
    BY <1>3, <2>3, OneAccepted
  <2>5. \A i \in req[q].accepted : i >= n + 1 => i >= n
    BY <1>2, <1>3 DEF Call
  <2> QED
    BY <2>2, <2>4, <2>5
<1>12. CallOK(q)'
  BY <1>2, <1>3, <1>6, <1>7, <1>8, <1>9, <1>10, <1>11 DEF CallOK
<1>13. SavedOK'
  BY <1>1, <1>4 DEF ImportInv, SavedOK, At
<1> QED
  BY <1>1, <1>4, <1>5, <1>12, <1>13, QuietStep DEF ImportInv, ImportTypeOK

\* The row of stock is found empty.
LEMMA FindEmptyStep ==
  ASSUME ImportInv, NEW q \in Caller, FindEmpty(q)
  PROVE  ImportInv'
<1> DEFINE r == [req[q] EXCEPT !.step = "move"]
<1>1. req' = [req EXCEPT ![q] = r] /\ At(q, "row") /\ More(q)
  BY DEF FindEmpty, Proceed, Go
<1>2. req[q] \in Call /\ req'[q] = r
  BY <1>1, CallTyped
<1>3. /\ ReadOK(q) /\ AcceptedOK(q) /\ ProgressOK(q) /\ job.status # "none"
  BY <1>1, NextIsRow
<1>4. UNCHANGED <<job, saved, catalog, made, edits, crashed>> /\ req[q].step = "row"
      /\ req[q].next \in req[q].accepted /\ job.entity = "opening_stock"
  BY DEF FindEmpty, At
<1>5. r \in Call /\ r.step = "move" /\ r.next = req[q].next /\ r.done = req[q].done
      /\ r.bad = req[q].bad /\ r.rows = req[q].rows /\ r.accepted = req[q].accepted
      /\ r.alone = req[q].alone
  BY <1>2 DEF Call, Step
<1> HIDE DEF r
<1>6. Total' = Total /\ job' = job /\ made' = made
  BY <1>4 DEF Total
<1>7. ReadOK(q)'
  BY <1>2, <1>3, <1>5, <1>6 DEF ReadOK
<1>8. AcceptedOK(q)'
  BY <1>2, <1>3, <1>5 DEF AcceptedOK
<1>9. ProgressOK(q)'
  <2>1. \A k : MadeUpTo(k)' = MadeUpTo(k)
    BY <1>6 DEF MadeUpTo
  <2> QED
    BY <1>2, <1>3, <1>5, <1>6, <2>1 DEF ProgressOK
<1>10. CallOK(q)'
  BY <1>2, <1>3, <1>4, <1>5, <1>6, <1>7, <1>8, <1>9 DEF CallOK, UndisturbedOK
<1>11. SavedOK'
  BY <1>4 DEF ImportInv, SavedOK
<1> QED
  BY <1>1, <1>4, <1>5, <1>10, <1>11, QuietStep DEF ImportInv, ImportTypeOK

-----------------------------------------------------------------------------
(* The catalog is written to. *)

\* Somebody else wrote to the catalog: a request knows no longer what it can create, but
\* what it counted it has counted, whatever its rows are called now.
LEMMA OthersDisturbed ==
  ASSUME ImportInv, NEW p \in Caller, job' = job,
         \A i \in 1..Total : made[i] > 0 => made'[i] > 0,
         req'[p].step = req[p].step, req'[p].mapping = req[p].mapping,
         req'[p].accepted = req[p].accepted, req'[p].next = req[p].next,
         req'[p].done = req[p].done, req'[p].bad = req[p].bad, req'[p].alone = FALSE,
         Len(req'[p].rows) = Len(req[p].rows),
         ReadOK(p) => \A i \in 1..Total :
             /\ req'[p].rows[i].ok = req[p].rows[i].ok
             /\ req[p].rows[i].key # Empty => req'[p].rows[i].key # Empty
  PROVE  CallOK(p)'
<1>1. CallOK(p) /\ req[p] \in Call /\ Total \in Nat
  BY CallTyped
<1>2. Total' = Total
  BY DEF Total
<1>3. ReadOK(p) => ReadOK(p)'
  BY <1>2 DEF ReadOK
<1>4. ReadOK(p) /\ AcceptedOK(p) => AcceptedOK(p)'
  BY <1>1 DEF AcceptedOK, Call
<1>5. ProgressOK(p) => ProgressOK(p)'
  <2> SUFFICES ASSUME ProgressOK(p) PROVE ProgressOK(p)'
    OBVIOUS
  <2>1. PICK n : n = req[p].next - 1
    OBVIOUS
  <2>2. n \in 0..Total /\ n \in Nat
    BY <1>1, <2>1 DEF ProgressOK
  <2>3. MadeUpTo(n) \subseteq MadeUpTo(n)'
    BY <1>1, <2>2 DEF MadeUpTo
  <2>4. MadeUpTo(n)' \subseteq 1..n
    BY DEF MadeUpTo
  <2>5. IsFiniteSet(MadeUpTo(n)') /\ Cardinality(MadeUpTo(n)') \in Nat
    BY <2>2, <2>4, UpTo
  <2>6. Cardinality(MadeUpTo(n)) <= Cardinality(MadeUpTo(n)') /\ Cardinality(MadeUpTo(n)) \in Nat
    BY <2>2, <2>3, <2>5, FS_Subset, MadeCount DEF ImportInv
  <2>7. req[p].done <= Cardinality(MadeUpTo(n)) /\ req[p].done \in Nat
    BY <1>1, <2>1 DEF ProgressOK, Call
  <2>8. req'[p].done <= Cardinality(MadeUpTo(n)')
    BY <2>5, <2>6, <2>7
  <2> QED
    BY <1>2, <2>1, <2>8 DEF ProgressOK
<1> QED
  BY <1>1, <1>2, <1>3, <1>4, <1>5 DEF CallOK, UndisturbedOK

\* The tables of the catalog, by key.
Tables == [Table -> [Name \cup {Empty} -> Nat]]

\* Another number of rows under a key.
LEMMA OneWritten ==
  ASSUME NEW lv \in Tables, NEW t \in Table, NEW n \in Name \cup {Empty}, NEW x \in Nat
  PROVE  LET l == [lv EXCEPT ![t][n] = x] IN
         /\ l \in Tables
         /\ l[t][n] = x
         /\ \A u \in Table, m \in Name \cup {Empty} : u # t \/ m # n => l[u][m] = lv[u][m]
  BY DEF Tables

\* One row more under a key.
LEMMA OneRowMore ==
  ASSUME NEW lv \in Tables, NEW t \in Table, NEW n \in Name \cup {Empty}
  PROVE  LET l == [lv EXCEPT ![t][n] = @ + 1] IN
         /\ l \in Tables
         /\ l[t][n] = lv[t][n] + 1
         /\ \A u \in Table, m \in Name \cup {Empty} : u # t \/ m # n => l[u][m] = lv[u][m]
<1>1. lv[t][n] + 1 \in Nat
  BY DEF Tables
<1> QED
  BY <1>1, OneWritten

\* What a row that is created adds to the catalog: its key and, for a product, its code.
LEMMA AddedIs ==
  ASSUME live \in Tables, NEW e \in Kind, NEW row \in Row
  PROVE  LET l == Added(e, row)
             New(u, m) == \/ u = TableOf(e) /\ m = row.key
                          \/ e = "products" /\ u = "barcode" /\ m = row.code /\ m # Empty
         IN  /\ l \in Tables
             /\ \A u \in Table, m \in Name \cup {Empty} :
                   /\ ~New(u, m) => l[u][m] = live[u][m]
                   /\ New(u, m) => l[u][m] = live[u][m] + 1
<1>1. TableOf(e) \in Table /\ "barcode" \in Table /\ row.key \in Name \cup {Empty}
      /\ row.code \in Name \cup {Empty} /\ (e = "products" => TableOf(e) # "barcode")
  BY DEF TableOf, Table, Row
<1> DEFINE a == [live EXCEPT ![TableOf(e)][row.key] = @ + 1]
<1>2. /\ a \in Tables /\ a[TableOf(e)][row.key] = live[TableOf(e)][row.key] + 1
      /\ \A u \in Table, m \in Name \cup {Empty} :
            u # TableOf(e) \/ m # row.key => a[u][m] = live[u][m]
  BY <1>1, OneRowMore
<1>3. CASE e = "products" /\ row.code # Empty
  <2> DEFINE b == [a EXCEPT !["barcode"][row.code] = @ + 1]
  <2>1. Added(e, row) = b
    BY <1>3 DEF Added
  <2> HIDE DEF a
  <2>2. /\ b \in Tables /\ b["barcode"][row.code] = a["barcode"][row.code] + 1
        /\ \A u \in Table, m \in Name \cup {Empty} :
              u # "barcode" \/ m # row.code => b[u][m] = a[u][m]
    BY <1>1, <1>2, OneRowMore
  <2> HIDE DEF b
  <2> QED
    BY <1>1, <1>2, <1>3, <2>1, <2>2
<1>4. CASE ~(e = "products" /\ row.code # Empty)
  <2>1. Added(e, row) = a
    BY <1>4 DEF Added
  <2> HIDE DEF a
  <2> QED
    BY <1>1, <1>2, <1>4, <2>1
<1> QED
  BY <1>3, <1>4

\* A row that was created leaves room for one with another key and another code.
LEMMA RoomLeft ==
  ASSUME live \in Tables, gone \in Tables, NEW e \in Kind \ {"units", "opening_stock"},
         NEW row \in Row, NEW other \in Row,
         live' = Added(e, row), gone' = gone, CanCreate(e, other),
         row.key = other.key => other.key = Empty, row.code = other.code => other.code = Empty,
         e # "parties" => other.key # Empty
  PROVE  CanCreate(e, other)'
<1> DEFINE New(u, m) == \/ u = TableOf(e) /\ m = row.key
                        \/ e = "products" /\ u = "barcode" /\ m = row.code /\ m # Empty
           Cell == Name \cup {Empty}
<1>1. /\ live' \in Tables
      /\ \A u \in Table, m \in Cell : ~New(u, m) => live'[u][m] = live[u][m]
      /\ \A u \in Table, m \in Cell : New(u, m) => live'[u][m] = live[u][m] + 1
  BY AddedIs
<1>2. \A u \in Table, m \in Cell : live[u][m] \in Nat
  BY DEF Tables
<1>3. \A u \in Table, m \in Cell : live[u][m] > 0 => live'[u][m] > 0
  BY <1>1, <1>2
<1>4. \A u \in Table, m \in Cell : ~New(u, m) => Free(u, m)' = Free(u, m)
  BY <1>1 DEF Free, Taken
<1>5. other.key \in Cell /\ other.ref \in Cell /\ other.code \in Cell
  BY DEF Row
<1>6. \A u \in Table : Known(u, other.ref) => Known(u, other.ref)'
  BY <1>3, <1>5 DEF Known
<1>7. other.key # Empty => ~New(TableOf(e), other.key)
  BY DEF TableOf
<1>8. e = "products" /\ other.code # Empty => ~New("barcode", other.code)
  BY DEF TableOf
<1>9. "product" \in Table /\ "category" \in Table /\ "barcode" \in Table /\ "party" \in Table
  BY DEF Table
<1> HIDE DEF New, Cell
<1>10. CASE e = "products"
  <2>1. TableOf(e) = "product" /\ other.key # Empty
    BY <1>10 DEF TableOf
  <2> QED
    BY <1>4, <1>5, <1>6, <1>7, <1>8, <1>9, <1>10, <2>1 DEF CanCreate
<1>11. CASE e = "barcodes"
  <2>1. TableOf(e) = "barcode" /\ other.key # Empty
    BY <1>11 DEF TableOf
  <2> QED
    BY <1>3, <1>4, <1>5, <1>7, <1>9, <1>11, <2>1 DEF CanCreate
<1>12. CASE e = "categories"
  BY <1>6, <1>9, <1>12 DEF CanCreate
<1>13. CASE e = "parties"
  <2>1. TableOf(e) = "party"
    BY <1>13 DEF TableOf
  <2> QED
    BY <1>4, <1>5, <1>7, <1>9, <1>13, <2>1 DEF CanCreate
<1> QED
  BY <1>10, <1>11, <1>12, <1>13 DEF Kind

\* Rows that were made stay made: as many, or more.
LEMMA MadeGrows ==
  ASSUME ImportInv, job' = job, made' \in [1..Total -> Nat],
         \A i \in 1..Total : made[i] > 0 => made'[i] > 0
  PROVE  ReportOK'
<1>1. Total' = Total /\ Total \in Nat /\ made \in [1..Total -> Nat] /\ job.imported \in Nat
  BY TotalNat DEF Total, ImportInv, ImportTypeOK, Job
<1> DEFINE S == {i \in DOMAIN made : made[i] > 0}
           T == {i \in DOMAIN made' : made'[i] > 0}
<1>2. S \subseteq T /\ T \subseteq 1..Total
  BY <1>1
<1>3. IsFiniteSet(T) /\ Cardinality(T) \in Nat
  BY <1>1, <1>2, UpTo
<1>4. Cardinality(S) <= Cardinality(T) /\ Cardinality(S) \in Nat
  BY <1>2, <1>3, FS_Subset, FS_CardinalityType
<1>5. job.imported <= Cardinality(S)
  BY DEF ImportInv, ReportOK, ReportedWereMade
<1>6. job.imported <= Cardinality(T)
  <2> HIDE DEF S, T
  <2> QED
    BY <1>1, <1>3, <1>4, <1>5
<1>7. ReportedWereMade'
  BY <1>6 DEF ReportedWereMade
<1> QED
  BY <1>1, <1>7 DEF ImportInv, ReportOK, EveryRowReported, UndisturbedImportIsWhole

\* The catalog is written to, by a request on the job or by somebody else.
LEMMA CatalogStep ==
  ASSUME ImportInv, UNCHANGED <<job, saved, crashed>>, edits' \in 0..MaxEdits,
         live' \in Tables, gone' \in Tables, stock' \in [Name -> Nat], KeysOK',
         made' \in [1..Total -> Nat], \A i \in 1..Total : made[i] > 0 => made'[i] > 0,
         req' \in [Caller -> Call], saved \/ \A p \in Caller : req'[p].step = req[p].step,
         \A p \in Caller : CallOK(p)'
  PROVE  ImportInv'
<1>1. Total' = Total /\ Call' = Call
  BY DEF Total, Call
<1>2. ImportTypeOK'
  BY <1>1 DEF ImportInv, ImportTypeOK, Tables, Job, AnyFile
<1>3. ReportOK'
  BY MadeGrows
<1>4. SavedOK' /\ JobOK'
  BY DEF ImportInv, SavedOK, JobOK
<1> QED
  BY <1>2, <1>3, <1>4 DEF ImportInv

\* Requests that are disturbed are requests still.
LEMMA DisturbedIs ==
  ASSUME ImportInv
  PROVE  /\ Disturbed \in [Caller -> Call]
         /\ \A p \in Caller :
               /\ Disturbed[p].step = req[p].step /\ Disturbed[p].mapping = req[p].mapping
               /\ Disturbed[p].accepted = req[p].accepted /\ Disturbed[p].next = req[p].next
               /\ Disturbed[p].done = req[p].done /\ Disturbed[p].bad = req[p].bad
               /\ Disturbed[p].alone = FALSE /\ Disturbed[p].rows = req[p].rows
  BY DEF ImportInv, ImportTypeOK, Disturbed, Call

\* A row was made and is counted as imported.
LEMMA RowMade ==
  ASSUME ImportInv, NEW q \in Caller, NEW n \in 1..Total, n = req[q].next, ProgressOK(q),
         job' = job, made' = [made EXCEPT ![n] = @ + 1], req'[q].next = n + 1,
         req'[q].done = req[q].done + 1, req'[q].bad = req[q].bad
  PROVE  /\ ProgressOK(q)' /\ made' \in [1..Total -> Nat]
         /\ \A i \in 1..Total : made[i] > 0 => made'[i] > 0
<1>1. Total' = Total /\ Total \in Nat /\ made \in [1..Total -> Nat]
  BY TotalNat DEF Total, ImportInv, ImportTypeOK
<1>2. req[q].done \in Nat /\ req[q].bad \in Nat
  BY CallTyped DEF Call
<1>3. /\ made' \in [1..Total -> Nat] /\ made'[n] > 0
      /\ \A i \in 1..Total : made[i] > 0 => made'[i] > 0
  BY <1>1
<1>4. n \in Nat /\ n - 1 \in 0..Total
  BY <1>1
<1>5. MadeUpTo(n - 1) \subseteq MadeUpTo(n - 1)' /\ MadeUpTo(n - 1)' \subseteq 1..(n - 1)
  BY <1>1, <1>3, <1>4 DEF MadeUpTo
<1>6. IsFiniteSet(MadeUpTo(n - 1)') /\ Cardinality(MadeUpTo(n - 1)') \in Nat
  BY <1>4, <1>5, UpTo
<1>7. Cardinality(MadeUpTo(n - 1)) <= Cardinality(MadeUpTo(n - 1)')
      /\ Cardinality(MadeUpTo(n - 1)) \in Nat
  BY <1>4, <1>5, <1>6, FS_Subset, MadeCount DEF ImportInv
<1>8. MadeUpTo(n)' = MadeUpTo(n - 1)' \cup {n} /\ n \notin MadeUpTo(n - 1)'
  BY <1>3, <1>4 DEF MadeUpTo
<1>9. Cardinality(MadeUpTo(n)') = Cardinality(MadeUpTo(n - 1)') + 1
  <2>1. \A S : IsFiniteSet(S) /\ n \notin S => Cardinality(S \cup {n}) = Cardinality(S) + 1
    BY FS_AddElement
  <2> QED
    BY <1>6, <1>8, <2>1
<1>10. req[q].done <= Cardinality(MadeUpTo(n - 1)) /\ req[q].done + req[q].bad = n - 1
  BY DEF ProgressOK
<1>11. req'[q].done <= Cardinality(MadeUpTo(n)')
  BY <1>2, <1>6, <1>7, <1>9, <1>10
<1>12. req'[q].next - 1 = n /\ n + 1 \in 1..(Total + 1) /\ req'[q].done + req'[q].bad = n
  <2>1. n + 1 \in 1..(Total + 1)
    <3>1. \A x \in 1..Total : x + 1 \in 1..(Total + 1)
      BY <1>1
    <3> QED
      BY <3>1
  <2>2. req'[q].next - 1 = n
    BY <1>4
  <2>3. (req[q].done + 1) + req[q].bad = n
    BY <1>2, <1>4, <1>10
  <2> QED
    BY <2>1, <2>2, <2>3
<1>13. ProgressOK(q)'
  BY <1>1, <1>11, <1>12 DEF ProgressOK
<1> QED
  BY <1>3, <1>13

\* A row is created.
LEMMA CreateRowStep ==
  ASSUME ImportInv, NEW q \in Caller, CreateRow(q)
  PROVE  ImportInv'
<1> DEFINE r == Counted(q, TRUE)
<1>1. /\ req' = [Disturbed EXCEPT ![q] = r] /\ At(q, "row") /\ More(q)
      /\ UNCHANGED <<job, saved, gone, stock, edits, crashed>>
      /\ job.entity # "opening_stock" /\ req[q].next \in req[q].accepted
  BY DEF CreateRow, Seen
<1>2. /\ req[q] \in Call /\ CallOK(q) /\ Total \in Nat
  BY CallTyped
<1>3. /\ r \in Call /\ r.step = "row" /\ r.rows = req[q].rows /\ r.accepted = req[q].accepted
      /\ r.alone = req[q].alone /\ r.next = req[q].next + 1 /\ r.done = req[q].done + 1
      /\ r.bad = req[q].bad
  BY <1>2, CountedIs
<1> HIDE DEF r
<1>4. /\ req' \in [Caller -> Call] /\ req'[q] = r
      /\ \A p \in Caller : p # q => req'[p] = Disturbed[p]
  BY <1>1, <1>3, DisturbedIs
<1>5. PICK n, e, row, rows, acc :
        /\ n = req[q].next /\ e = job.entity /\ row = Current(q)
        /\ rows = req[q].rows /\ acc = req[q].accepted
  OBVIOUS
<1>6. /\ n \in 1..Total /\ n - 1 \in 0..Total /\ ReadOK(q) /\ AcceptedOK(q) /\ ProgressOK(q)
      /\ UndisturbedOK(q) /\ job.status # "none" /\ e \in Kind
  BY <1>1, <1>5, NextIsRow
<1>7. row \in Row /\ row = req[q].rows[n] /\ DOMAIN req[q].rows = 1..Total
      /\ \A i \in 1..Total : req[q].rows[i] \in Row
  BY <1>5, <1>6, ReadRows DEF Current
<1>8. /\ CanCreate(e, row) /\ live' = Added(e, row) /\ made' = [made EXCEPT ![n] = @ + 1]
      /\ e # "opening_stock"
  BY <1>1, <1>5 DEF CreateRow
<1>9. live \in Tables /\ gone \in Tables /\ gone' = gone
  BY <1>1 DEF ImportInv, ImportTypeOK, Tables
<1>10. /\ ProgressOK(q)' /\ made' \in [1..Total -> Nat]
       /\ \A i \in 1..Total : made[i] > 0 => made'[i] > 0
  BY <1>1, <1>3, <1>4, <1>5, <1>6, <1>8, RowMade
<1>11. KeysOK' /\ live' \in Tables
  <2> DEFINE New(u, m) == \/ u = TableOf(e) /\ m = row.key
                          \/ e = "products" /\ u = "barcode" /\ m = row.code /\ m # Empty
  <2>1. /\ live' \in Tables
        /\ \A u \in Table, m \in Name \cup {Empty} :
              /\ ~New(u, m) => live'[u][m] = live[u][m]
              /\ New(u, m) => live'[u][m] = live[u][m] + 1
    BY <1>6, <1>7, <1>8, <1>9, AddedIs
  <2>2. ASSUME NEW t \in {"product", "barcode", "unit"}, NEW m \in Name
        PROVE  live'[t][m] + gone'[t][m] <= 1
    <3>1. t \in Table /\ m \in Name \cup {Empty} /\ m # Empty
      BY ImportAssumption DEF Table
    <3>2. live[t][m] \in Nat /\ gone[t][m] \in Nat /\ live[t][m] + gone[t][m] <= 1
      BY <1>9, <3>1 DEF Tables, ImportInv, KeysOK
    <3>3. CASE New(t, m)
      <4>1. Free(t, m)
        BY <1>6, <1>8, <3>1, <3>3 DEF CanCreate, TableOf, Kind
      <4>2. live[t][m] + gone[t][m] = 0
        BY <3>2, <4>1 DEF Free, Taken
      <4> QED
        BY <1>9, <2>1, <3>1, <3>2, <3>3, <4>2
    <3>4. CASE ~New(t, m)
      BY <1>9, <2>1, <3>1, <3>2, <3>4
    <3> QED
      BY <3>3, <3>4
  <2> QED
    BY <2>1, <2>2 DEF KeysOK
<1>12. UndisturbedOK(q)'
  <2> SUFFICES ASSUME req[q].alone, e \notin {"units", "opening_stock"}
               PROVE  /\ req[q].done + 1 = Cardinality(AcceptedUpTo(q, n))
                      /\ \A i \in acc : i >= n + 1 => CanCreate(e, rows[i])'
    <3>1. AcceptedUpTo(q, n)' = AcceptedUpTo(q, n)
      BY <1>3, <1>4 DEF AcceptedUpTo
    <3>2. req'[q].next - 1 = n /\ req'[q].next = n + 1 /\ req'[q].done = req[q].done + 1
          /\ req'[q].accepted = acc /\ req'[q].rows = rows
          /\ req'[q].alone = req[q].alone /\ job'.entity = e
      BY <1>1, <1>3, <1>4, <1>5, <1>6
    <3> QED
      BY <3>1, <3>2 DEF UndisturbedOK
  <2>1. req[q].step = "row"
    BY <1>1 DEF At
  <2>2. /\ req[q].done = Cardinality(AcceptedUpTo(q, n - 1))
        /\ \A i \in acc : i >= n => CanCreate(e, rows[i])
    BY <1>5, <1>6, <2>1 DEF UndisturbedOK
  <2>3. req[q].done + 1 = Cardinality(AcceptedUpTo(q, n))
    BY <1>1, <1>5, <1>6, <2>2, OneAccepted
  <2>4. ASSUME NEW i \in acc, i >= n + 1 PROVE CanCreate(e, rows[i])'
    <3>1. PICK other : other = rows[i]
      OBVIOUS
    <3>2. i \in 1..Total /\ i >= n /\ i # n /\ n \in acc
      BY <1>1, <1>2, <1>5, <1>6, <2>4 DEF Call
    <3>3. other \in Row /\ CanCreate(e, other)
      BY <1>5, <1>7, <2>2, <3>1, <3>2
    <3>4. /\ row.key = other.key => other.key = Empty
          /\ row.code = other.code => other.code = Empty /\ other.ok
      BY <1>5, <1>6, <1>7, <3>1, <3>2 DEF AcceptedOK
    <3>5. e # "parties" => other.key # Empty
      BY <1>5, <1>6, <3>1, <3>2 DEF ReadOK, AcceptedOK
    <3>6. CanCreate(e, other)'
      BY <1>6, <1>7, <1>8, <1>9, <3>3, <3>4, <3>5, RoomLeft
    <3> QED
      BY <3>1, <3>6
  <2> QED
    BY <2>3, <2>4
<1>13. CallOK(q)'
  <2>1. Total' = Total /\ req[q].step = "row"
    BY <1>1 DEF Total, At
  <2>2. ReadOK(q)'
    BY <1>1, <1>3, <1>4, <1>6, <2>1 DEF ReadOK
  <2>3. AcceptedOK(q)'
    BY <1>3, <1>4, <1>6, <2>1 DEF AcceptedOK
  <2> QED
    BY <1>1, <1>3, <1>4, <1>6, <1>10, <1>12, <2>2, <2>3 DEF CallOK
<1>14. ASSUME NEW p \in Caller, p # q PROVE CallOK(p)'
  BY <1>1, <1>4, <1>10, <1>14, DisturbedIs, OthersDisturbed
<1>15. saved
  BY <1>1 DEF ImportInv, SavedOK, At
<1>16. UNCHANGED <<job, saved, crashed>> /\ edits' \in 0..MaxEdits /\ stock' \in [Name -> Nat]
       /\ gone' \in Tables
  BY <1>1, <1>9 DEF ImportInv, ImportTypeOK
<1>17. \A p \in Caller : CallOK(p)'
  BY <1>13, <1>14
<1> QED
  BY <1>4, <1>10, <1>11, <1>15, <1>16, <1>17, CatalogStep

\* An opening stock is moved in.
LEMMA MoveOpeningStep ==
  ASSUME ImportInv, NEW q \in Caller, MoveOpening(q)
  PROVE  ImportInv'
<1> DEFINE r == Counted(q, TRUE)
<1>1. /\ req' = [Disturbed EXCEPT ![q] = r] /\ req[q].step = "move"
      /\ UNCHANGED <<job, saved, live, gone, edits, crashed>>
  BY DEF MoveOpening, Seen, At
<1>2. /\ req[q] \in Call /\ CallOK(q) /\ Total \in Nat
  BY CallTyped
<1>3. /\ r \in Call /\ r.step = "row" /\ r.rows = req[q].rows /\ r.accepted = req[q].accepted
      /\ r.alone = req[q].alone /\ r.next = req[q].next + 1 /\ r.done = req[q].done + 1
      /\ r.bad = req[q].bad
  BY <1>2, CountedIs
<1> HIDE DEF r
<1>4. /\ req' \in [Caller -> Call] /\ req'[q] = r
      /\ \A p \in Caller : p # q => req'[p] = Disturbed[p]
  BY <1>1, <1>3, DisturbedIs
<1>5. PICK n, row : n = req[q].next /\ row = Current(q)
  OBVIOUS
<1>6. /\ ReadOK(q) /\ AcceptedOK(q) /\ ProgressOK(q) /\ job.status # "none"
      /\ n \in req[q].accepted /\ job.entity = "opening_stock"
  BY <1>1, <1>2, <1>5 DEF CallOK
<1>7. n \in 1..Total
  BY <1>2, <1>6 DEF Call
<1>8. row \in Row /\ row = req[q].rows[n]
  BY <1>5, <1>6, <1>7, ReadRows DEF Current
<1>9. row.key \in Name /\ row.qty \in Nat
  <2>1. row.ok
    BY <1>6, <1>8 DEF AcceptedOK
  <2>2. row.key # Empty
    BY <1>6, <1>7, <1>8, <2>1 DEF ReadOK
  <2> QED
    BY <1>8, <2>2 DEF Row
<1>10. stock' \in [Name -> Nat]
  <2>1. stock' = [stock EXCEPT ![row.key] = @ + row.qty] /\ stock \in [Name -> Nat]
    BY <1>5 DEF MoveOpening, ImportInv, ImportTypeOK
  <2>2. stock[row.key] + row.qty \in Nat
    BY <1>9, <2>1
  <2> QED
    BY <2>1, <2>2
<1>11. /\ ProgressOK(q)' /\ made' \in [1..Total -> Nat]
       /\ \A i \in 1..Total : made[i] > 0 => made'[i] > 0
  <2>1. made' = [made EXCEPT ![n] = @ + 1]
    BY <1>5 DEF MoveOpening
  <2> QED
    BY <1>1, <1>3, <1>4, <1>5, <1>6, <1>7, <2>1, RowMade
<1>12. CallOK(q)'
  <2>1. Total' = Total
    BY <1>1 DEF Total
  <2>2. ReadOK(q)'
    BY <1>1, <1>3, <1>4, <1>6, <2>1 DEF ReadOK
  <2>3. AcceptedOK(q)'
    BY <1>3, <1>4, <1>6, <2>1 DEF AcceptedOK
  <2> QED
    BY <1>1, <1>3, <1>4, <1>6, <1>11, <2>2, <2>3 DEF CallOK, UndisturbedOK
<1>13. ASSUME NEW p \in Caller, p # q PROVE CallOK(p)'
  BY <1>1, <1>4, <1>11, <1>13, DisturbedIs, OthersDisturbed
<1>14. saved
  BY <1>1 DEF ImportInv, SavedOK
<1>15. /\ edits' \in 0..MaxEdits /\ live' \in Tables /\ gone' \in Tables /\ KeysOK'
  BY <1>1 DEF ImportInv, ImportTypeOK, Tables, KeysOK
<1>16. \A p \in Caller : CallOK(p)'
  BY <1>12, <1>13
<1> QED
  BY <1>1, <1>4, <1>10, <1>11, <1>14, <1>15, <1>16, CatalogStep

-----------------------------------------------------------------------------
(* The row of the job is written. *)

\* Nothing is reported of a job that is not completed.
LEMMA NotReported ==
  ASSUME ImportInv, UNCHANGED made, job'.imported = job.imported, job'.status # "completed"
  PROVE  ReportOK'
  BY DEF ImportInv, ReportOK, EveryRowReported, ReportedWereMade, UndisturbedImportIsWhole

\* A request that found the file saved writes to the job.
LEMMA JobStep ==
  ASSUME ImportInv, NEW q \in Caller, NEW r \in Call, req' = [req EXCEPT ![q] = r],
         UNCHANGED <<saved, catalog, made, edits, crashed>>,
         req[q].step \notin {"idle", "save", "cancel"}, job' \in Job, SameFile,
         job'.mapping \in 1..Len(job.file), job'.status # "none",
         ReportOK', CallOK(q)'
  PROVE  ImportInv'
<1>1. saved
  BY DEF ImportInv, SavedOK
<1>2. job.status # "none"
  BY CallTyped DEF CallOK
<1>3. JobOK'
  BY <1>2 DEF ImportInv, JobOK, SameFile
<1>4. SavedOK' /\ saved' \in BOOLEAN /\ crashed' \in BOOLEAN
  BY <1>1 DEF SavedOK, ImportInv, ImportTypeOK
<1> QED
  BY <1>3, <1>4, CallStep

\* What is known of the job while a request runs.
LEMMA JobIs ==
  ASSUME ImportInv, NEW q \in Caller, req[q].step # "idle"
  PROVE  /\ job \in Job /\ job.status # "none" /\ job.mapping \in 1..Len(job.file)
         /\ job.entity \in Entity /\ job.file \in File[job.entity]
  BY CallTyped DEF ImportInv, ImportTypeOK, JobOK, CallOK

\* The analysis begins, and ends.
LEMMA AnalyzeStep ==
  ASSUME ImportInv, NEW q \in Caller, Analyze(q)
  PROVE  ImportInv'
<1> DEFINE r == [req[q] EXCEPT !.step = "parse"]
<1>1. req[q] \in Call /\ CallOK(q) /\ req[q].step = "analyze" /\ req' = [req EXCEPT ![q] = r]
      /\ job' = [job EXCEPT !.status = "analyzing"]
      /\ UNCHANGED <<saved, catalog, made, edits, crashed>>
  BY CallTyped DEF Analyze, Proceed, Go, At
<1>2. r \in Call /\ r.step = "parse" /\ r.done = 0 /\ r.bad = 0
  BY <1>1 DEF Call, Step, CallOK
<1> HIDE DEF r
<1>3. job \in Job /\ job.mapping \in 1..Len(job.file)
  BY <1>1, JobIs
<1>4. /\ job' \in Job /\ SameFile /\ job'.mapping = job.mapping /\ job'.status = "analyzing"
      /\ job'.imported = job.imported
  BY <1>1, <1>3 DEF Job, Status, SameFile
<1>5. req'[q] = r
  BY <1>1, CallTyped
<1>6. CallOK(q)'
  BY <1>2, <1>4, <1>5, Started
<1>7. ReportOK'
  BY <1>1, <1>4, NotReported
<1> QED
  BY <1>1, <1>2, <1>3, <1>4, <1>6, <1>7, JobStep

LEMMA ParseStep ==
  ASSUME ImportInv, NEW q \in Caller, Parse(q)
  PROVE  ImportInv'
<1>1. PICK s \in {"ready", "failed"} : job' = [job EXCEPT !.status = s]
  BY DEF Parse
<1>2. req[q].step = "parse" /\ req' = [req EXCEPT ![q] = Idle] /\ Idle \in Call
      /\ job' = [job EXCEPT !.status = s]
      /\ UNCHANGED <<saved, catalog, made, edits, crashed>>
  BY <1>1, CallTyped DEF Parse, Go, At
<1>3. job \in Job /\ job.mapping \in 1..Len(job.file)
  BY <1>2, JobIs
<1>4. /\ job' \in Job /\ SameFile /\ job'.mapping = job.mapping /\ job'.status = s
      /\ job'.imported = job.imported
  BY <1>1, <1>2, <1>3 DEF Job, Status, SameFile
<1>5. CallOK(q)'
  BY <1>2, CallTyped, Ended
<1>6. ReportOK'
  BY <1>1, <1>2, <1>4, NotReported
<1> QED
  BY <1>1, <1>2, <1>3, <1>4, <1>5, <1>6, JobStep

\* A mapping is stored.
LEMMA SetMappingStep ==
  ASSUME ImportInv, NEW q \in Caller, SetMapping(q)
  PROVE  ImportInv'
<1> DEFINE m == req[q].mapping
<1>1. req[q].step = "map" /\ req' = [req EXCEPT ![q] = Idle] /\ Idle \in Call
      /\ job' = [job EXCEPT !.status = "ready", !.mapping = m, !.valid = 0, !.errors = 0]
      /\ UNCHANGED <<saved, catalog, made, edits, crashed>> /\ CallOK(q) /\ m \in Nat
  BY CallTyped DEF SetMapping, Go, At, Call
<1>2. m \in 1..Len(job.file)
  BY <1>1 DEF CallOK
<1> HIDE DEF m
<1>3. job \in Job
  BY <1>1, JobIs
<1>4. /\ job' \in Job /\ SameFile /\ job'.mapping = m /\ job'.status = "ready"
      /\ job'.imported = job.imported
  BY <1>1, <1>3 DEF Job, Status, SameFile
<1>5. CallOK(q)'
  BY <1>1, CallTyped, Ended
<1>6. ReportOK'
  BY <1>1, <1>4, NotReported
<1> QED
  BY <1>1, <1>2, <1>4, <1>5, <1>6, JobStep

\* The job is cancelled, whether its file is saved or not.
LEMMA CancelStep ==
  ASSUME ImportInv, NEW q \in Caller, Cancel(q)
  PROVE  ImportInv'
<1>1. req[q].step = "cancel" /\ req' = [req EXCEPT ![q] = Idle] /\ Idle \in Call
      /\ job' = [job EXCEPT !.status = "cancelled"]
      /\ UNCHANGED <<saved, catalog, made, edits, crashed>>
  BY CallTyped DEF Cancel, Go, At
<1>2. job \in Job /\ job.status # "none" /\ job.mapping \in 1..Len(job.file)
  BY <1>1, JobIs
<1>3. /\ job' \in Job /\ SameFile /\ job'.mapping = job.mapping /\ job'.status = "cancelled"
      /\ job'.imported = job.imported
  BY <1>1, <1>2 DEF Job, Status, SameFile
<1>4. req'[q] = Idle /\ \A p \in Caller : p # q => req'[p] = req[p]
  BY <1>1, CallTyped
<1>5. CallOK(q)'
  BY <1>4, Ended
<1>6. ReportOK'
  BY <1>1, <1>3, NotReported
<1>7. SavedOK'
  BY <1>1, <1>3, <1>4 DEF ImportInv, SavedOK, Idle
<1>8. JobOK' /\ saved' \in BOOLEAN /\ crashed' \in BOOLEAN
  BY <1>1, <1>2, <1>3 DEF ImportInv, JobOK, SameFile, ImportTypeOK
<1> QED
  BY <1>1, <1>3, <1>5, <1>6, <1>7, <1>8, CallStep

\* The rows are read by the mapping of this moment.
LEMMA ReadStep ==
  ASSUME ImportInv, NEW q \in Caller, MarkValidating(q) \/ MarkImporting(q)
  PROVE  ImportInv'
<1>1. PICK s, x, rows :
         /\ \/ req[q].step = "validating" /\ s = "validating" /\ x = "check"
            \/ req[q].step = "importing" /\ s = "importing" /\ x = "recheck"
         /\ rows = job.file[job.mapping]
         /\ req' = [req EXCEPT ![q] = [req[q] EXCEPT !.step = x, !.rows = rows]]
         /\ job' = [job EXCEPT !.status = s]
         /\ UNCHANGED <<saved, catalog, made, edits, crashed>>
  BY DEF MarkValidating, MarkImporting, Reading, Go, At
<1> DEFINE r == [req[q] EXCEPT !.step = x, !.rows = rows]
<1>2. req[q] \in Call /\ CallOK(q) /\ Total \in Nat /\ req'[q] = r
  BY <1>1, CallTyped
<1>3. /\ job \in Job /\ job.status # "none" /\ job.mapping \in 1..Len(job.file)
      /\ job.entity \in Entity /\ job.file \in File[job.entity]
  BY <1>1, JobIs
<1>4. PICK f, m : f = job.file /\ m = job.mapping
  OBVIOUS
<1>5. f \in Seq(Seq(Row)) /\ m \in 1..Len(f)
  BY <1>3, <1>4, ImportAssumption
<1>6. rows \in Seq(Row) /\ Len(rows) = Len(f[1]) /\ rows = f[m]
  <2>1. f[m] \in Seq(Row)
    BY <1>5
  <2>2. Len(f[m]) = Len(f[1])
    BY <1>3, <1>4, <1>5, ImportAssumption
  <2> QED
    BY <1>1, <1>4, <2>1, <2>2
<1>7. Len(rows) = Total
  BY <1>3, <1>4, <1>6, TotalNat DEF ImportInv
<1>8. \A i \in 1..Total : rows[i].ok /\ job.entity # "parties" => rows[i].key # Empty
  <2>1. \A i \in 1..Len(f[m]) : f[m][i].ok /\ job.entity # "parties" => f[m][i].key # Empty
    BY <1>3, <1>4, <1>5, ImportAssumption
  <2> QED
    BY <1>6, <1>7, <2>1
<1>9. /\ r \in Call /\ r.step = x /\ r.rows = rows /\ r.done = 0 /\ r.bad = 0
  BY <1>1, <1>2, <1>6 DEF Call, Step, CallOK
<1> HIDE DEF r
<1>10. /\ job' \in Job /\ SameFile /\ job'.mapping = job.mapping /\ job'.status = s
       /\ job'.imported = job.imported
  BY <1>1, <1>3 DEF Job, Status, SameFile
<1>11. Total' = Total
  BY <1>10 DEF Total, SameFile
<1>12. ReadOK(q)'
  BY <1>2, <1>7, <1>8, <1>9, <1>10, <1>11 DEF ReadOK, SameFile
<1>13. CallOK(q)'
  BY <1>1, <1>2, <1>9, <1>10, <1>12 DEF CallOK, UndisturbedOK
<1>14. ReportOK'
  BY <1>1, <1>10, NotReported
<1>15. req' = [req EXCEPT ![q] = r]
  BY <1>1 DEF r
<1> QED
  BY <1>1, <1>3, <1>9, <1>10, <1>13, <1>14, <1>15, JobStep

\* The outcome of a validation is stored.
LEMMA StoreValidationStep ==
  ASSUME ImportInv, NEW q \in Caller, StoreValidation(q)
  PROVE  ImportInv'
<1> DEFINE v == Cardinality(req[q].accepted)
           x == Len(req[q].rows) - Cardinality(req[q].accepted)
<1>1. req[q].step = "validated" /\ req' = [req EXCEPT ![q] = Idle] /\ Idle \in Call
      /\ job' = [job EXCEPT !.status = "validated", !.valid = v, !.errors = x]
      /\ UNCHANGED <<saved, catalog, made, edits, crashed>>
  BY CallTyped DEF StoreValidation, Go, At
<1>2. v \in Nat /\ x \in Nat
  <2>1. Total \in Nat /\ req[q].accepted \in SUBSET (1..Total) /\ Len(req[q].rows) = Total
    BY <1>1, CallTyped DEF Call, CallOK, ReadOK
  <2>2. v \in Nat /\ v <= Total
    BY <2>1, UpTo
  <2> QED
    BY <2>1, <2>2
<1> HIDE DEF v, x
<1>3. job \in Job /\ job.mapping \in 1..Len(job.file)
  BY <1>1, JobIs
<1>4. /\ job' \in Job /\ SameFile /\ job'.mapping = job.mapping /\ job'.status = "validated"
      /\ job'.imported = job.imported
  BY <1>1, <1>2, <1>3 DEF Job, Status, SameFile
<1>5. CallOK(q)'
  BY <1>1, CallTyped, Ended
<1>6. ReportOK'
  BY <1>1, <1>4, NotReported
<1> QED
  BY <1>1, <1>3, <1>4, <1>5, <1>6, JobStep

\* An import is completed: every row was passed.
LEMMA FinishStep ==
  ASSUME ImportInv, NEW q \in Caller, FinishImport(q)
  PROVE  ImportInv'
<1> DEFINE v == Cardinality(req[q].accepted)
<1>1. req[q].step = "row" /\ ~More(q) /\ req' = [req EXCEPT ![q] = Idle] /\ Idle \in Call
      /\ job' = [job EXCEPT !.status = "completed", !.imported = req[q].done,
                            !.errors = req[q].bad, !.valid = v, !.alone = req[q].alone]
      /\ UNCHANGED <<saved, catalog, made, edits, crashed>>
  BY CallTyped DEF FinishImport, Go, At
<1>2. /\ Total \in Nat /\ req[q] \in Call /\ ReadOK(q) /\ ProgressOK(q) /\ UndisturbedOK(q)
  BY <1>1, CallTyped DEF CallOK
<1>3. req[q].accepted \in SUBSET (1..Total) /\ v \in Nat
  BY <1>2, UpTo DEF Call
<1> HIDE DEF v
<1>4. req[q].next - 1 = Total /\ req[q].done \in Nat /\ req[q].bad \in Nat
      /\ req[q].alone \in BOOLEAN
  BY <1>1, <1>2 DEF Call, ProgressOK, ReadOK, More
<1>5. job \in Job /\ job.mapping \in 1..Len(job.file)
  BY <1>1, JobIs
<1>6. /\ job' \in Job /\ SameFile /\ job'.mapping = job.mapping /\ job'.status = "completed"
      /\ job'.imported = req[q].done /\ job'.errors = req[q].bad /\ job'.valid = v
      /\ job'.alone = req[q].alone
  BY <1>1, <1>3, <1>4, <1>5 DEF Job, Status, SameFile
<1>7. CallOK(q)'
  BY <1>1, CallTyped, Ended
<1>8. EveryRowReported'
  <2>1. Total' = Total
    BY <1>6 DEF Total, SameFile
  <2> QED
    BY <1>2, <1>4, <1>6, <2>1 DEF EveryRowReported, ProgressOK
<1>9. ReportedWereMade'
  <2>1. req[q].done <= Cardinality(MadeUpTo(Total))
    BY <1>2, <1>4 DEF ProgressOK
  <2>2. MadeUpTo(Total) = {i \in DOMAIN made : made[i] > 0}
    BY DEF ImportInv, ImportTypeOK, MadeUpTo
  <2> QED
    BY <1>1, <1>6, <2>1, <2>2 DEF ReportedWereMade
<1>10. UndisturbedImportIsWhole'
  <2>1. AcceptedUpTo(q, Total) = req[q].accepted
    BY <1>3 DEF AcceptedUpTo
  <2> QED
    BY <1>1, <1>2, <1>4, <1>6, <2>1 DEF UndisturbedImportIsWhole, UndisturbedOK, SameFile, v
<1> QED
  BY <1>1, <1>5, <1>6, <1>7, <1>8, <1>9, <1>10, JobStep DEF ReportOK

\* A job is created where there was none, and no request on it.
LEMMA CreateStep ==
  ASSUME ImportInv, NEW q \in Caller, Create(q)
  PROVE  ImportInv'
<1>1. /\ req[q].step = "idle" /\ job.status = "none" /\ job = NoJob
      /\ req' = [req EXCEPT ![q] = [req[q] EXCEPT !.step = "save"]]
      /\ UNCHANGED <<saved, catalog, edits, crashed>>
  BY DEF Create, Proceed, Go, At, ImportInv, JobOK
<1>0. PICK e \in Entity : \E f \in File[e] :
         /\ job' = [NoJob EXCEPT !.status = "uploaded", !.entity = e, !.file = f]
         /\ made' = [i \in DOMAIN f[1] |-> 0]
  BY DEF Create
<1>2. PICK f \in File[e] :
         /\ job' = [NoJob EXCEPT !.status = "uploaded", !.entity = e, !.file = f]
         /\ made' = [i \in DOMAIN f[1] |-> 0]
  BY <1>0
<1>3. f \in Seq(Seq(Row)) /\ f # NoFile
  BY ImportAssumption
<1>4. 1 \in 1..Len(f) /\ f[1] \in Seq(Row)
  BY <1>3 DEF NoFile
<1>5. PICK N \in Nat : N = Len(f[1]) /\ DOMAIN f[1] = 1..N
  BY <1>4
<1>6. /\ job'.status = "uploaded" /\ job'.entity = e /\ job'.file = f /\ job'.mapping = 1
      /\ job'.imported = 0 /\ job'.alone = FALSE /\ job'.valid = 0 /\ job'.errors = 0
  BY <1>2 DEF NoJob
<1>7. Total' = N /\ Total = 0
  BY <1>1, <1>3, <1>5, <1>6 DEF Total, NoJob
<1>8. job' \in Job
  <2>1. f \in AnyFile
    BY DEF AnyFile
  <2>2. \A x \in Entity : x \in Entity \cup {"none"}
    OBVIOUS
  <2> QED
    BY <1>2, <2>1, <2>2 DEF NoJob, Job, Status
<1>9. made' \in [1..Total' -> Nat] /\ Total' \in Nat
  BY <1>2, <1>5, <1>7
<1>10. ASSUME NEW p \in Caller
       PROVE  /\ req'[p] \in Call' /\ CallOK(p)'
              /\ req'[p].step \in {"idle", "save"}
  <2>1. req[p] \in Call /\ req[p].step = "idle" /\ req[p].done = 0 /\ req[p].bad = 0
    BY <1>1, CallTyped DEF CallOK
  <2>2. req[p].accepted = {}
    BY <1>7, <2>1 DEF Call
  <2>3. req'[p] = req[p] \/ req'[p] = [req[p] EXCEPT !.step = "save"]
    BY <1>1 DEF ImportInv, ImportTypeOK
  <2>4. /\ req'[p].step \in {"idle", "save"} /\ req'[p].mapping = req[p].mapping
        /\ req'[p].done = 0 /\ req'[p].bad = 0
    BY <2>1, <2>3 DEF Call
  <2>5. req'[p] \in Call'
    BY <2>1, <2>2, <2>3 DEF Call, Step
  <2>6. CallOK(p)'
    BY <1>6, <2>4, Started
  <2> QED
    BY <2>4, <2>5, <2>6
<1>11. req' \in [Caller -> Call']
  BY <1>1, <1>10 DEF ImportInv, ImportTypeOK
<1>12. ImportTypeOK'
  BY <1>1, <1>8, <1>9, <1>11 DEF ImportInv, ImportTypeOK, catalog, Job, AnyFile
<1>13. JobOK'
  BY <1>4, <1>6 DEF JobOK
<1>14. SavedOK'
  BY <1>6, <1>10 DEF SavedOK
<1>15. KeysOK'
  BY <1>1 DEF ImportInv, KeysOK, catalog
<1>16. ReportOK'
  <2> DEFINE S == {i \in DOMAIN made' : made'[i] > 0}
  <2>1. S = {}
    BY <1>2
  <2>2. Cardinality(S) = 0
    BY <2>1, FS_EmptySet
  <2> QED
    BY <1>6, <2>2 DEF ReportOK, EveryRowReported, ReportedWereMade, UndisturbedImportIsWhole
<1> QED
  BY <1>10, <1>12, <1>13, <1>14, <1>15, <1>16 DEF ImportInv

-----------------------------------------------------------------------------
(* Other users edit the catalog. *)

\* An edit touches a table of the catalog, and not the job.
LEMMA EditIs ==
  ASSUME ImportInv, NEW t, Edit(t)
  PROVE  /\ edits' \in 0..MaxEdits /\ UNCHANGED <<job, saved, made, crashed>>
         /\ made' \in [1..Total -> Nat] /\ \A i \in 1..Total : made[i] > 0 => made'[i] > 0
         /\ live \in Tables /\ gone \in Tables /\ stock \in [Name -> Nat]
<1>1. edits \in 0..MaxEdits /\ MaxEdits \in Nat /\ edits < MaxEdits /\ edits' = edits + 1
  BY ImportAssumption DEF Edit, ImportInv, ImportTypeOK
<1>2. edits' \in 0..MaxEdits
  BY <1>1
<1>3. UNCHANGED <<job, saved, made, crashed>>
  BY DEF Edit
<1>4. live \in Tables /\ gone \in Tables /\ stock \in [Name -> Nat] /\ made \in [1..Total -> Nat]
  BY DEF ImportInv, ImportTypeOK, Tables
<1> QED
  BY <1>2, <1>3, <1>4

\* Requests whose rows keep their names are only disturbed.
LEMMA JustDisturbed ==
  ASSUME ImportInv, UNCHANGED <<job, made>>, req' = Disturbed
  PROVE  /\ req' \in [Caller -> Call]
         /\ \A p \in Caller : req'[p].step = req[p].step /\ CallOK(p)'
<1>1. req' \in [Caller -> Call] /\ \A p \in Caller : req'[p].step = req[p].step
  BY DisturbedIs
<1>2. ASSUME NEW p \in Caller PROVE CallOK(p)'
  BY DisturbedIs, OthersDisturbed
<1> QED
  BY <1>1, <1>2

\* A name that is free is taken.
LEMMA CreateEntryStep ==
  ASSUME ImportInv, NEW t \in Table, NEW n \in Name, CreateEntry(t, n)
  PROVE  ImportInv'
<1>1. /\ Edit(t) /\ Free(t, n) /\ live' = [live EXCEPT ![t][n] = @ + 1]
      /\ req' = Disturbed /\ gone' = gone /\ stock' = stock
  BY DEF CreateEntry
<1>2. /\ edits' \in 0..MaxEdits /\ UNCHANGED <<job, saved, made, crashed>>
      /\ made' \in [1..Total -> Nat] /\ \A i \in 1..Total : made[i] > 0 => made'[i] > 0
      /\ live \in Tables /\ gone \in Tables /\ stock \in [Name -> Nat]
  BY <1>1, EditIs
<1>3. /\ req' \in [Caller -> Call]
      /\ \A p \in Caller : req'[p].step = req[p].step /\ CallOK(p)'
  BY <1>1, <1>2, JustDisturbed
<1>4. /\ live' \in Tables /\ live'[t][n] = live[t][n] + 1
      /\ \A u \in Table, m \in Name \cup {Empty} : u # t \/ m # n => live'[u][m] = live[u][m]
  <2>3. live \in Tables
    BY <1>2
  <2>1. n \in Name \cup {Empty} /\ live \in Tables /\ live[t][n] + 1 \in Nat
    BY <2>3 DEF Tables
  <2>2. live' = [live EXCEPT ![t][n] = live[t][n] + 1]
    BY <1>1
  <2> QED
    BY <2>1, <2>2 DEF Tables
<1>5. KeysOK'
  <2>1. ASSUME NEW u \in {"product", "barcode", "unit"}, NEW m \in Name
        PROVE  live'[u][m] + gone'[u][m] <= 1
    <3>1. u \in Table /\ live[u][m] \in Nat /\ gone[u][m] \in Nat
          /\ live[u][m] + gone[u][m] <= 1
      BY <1>2 DEF Table, Tables, ImportInv, KeysOK
    <3>2. CASE u = t /\ m = n
      BY <1>1, <1>4, <3>1, <3>2 DEF Free, Taken
    <3> QED
      BY <1>1, <1>4, <3>1, <3>2
  <2> QED
    BY <2>1 DEF KeysOK
<1> QED
  BY <1>1, <1>2, <1>3, <1>4, <1>5, CatalogStep

\* A name that is there is deleted, and stays taken unless it is a barcode.
LEMMA DeleteEntryStep ==
  ASSUME ImportInv, NEW t \in Table, NEW n \in Name, DeleteEntry(t, n)
  PROVE  ImportInv'
<1> DEFINE g == IF t = "barcode" THEN gone[t][n] ELSE gone[t][n] + 1
<1>1. /\ Edit(t) /\ live[t][n] > 0 /\ live' = [live EXCEPT ![t][n] = @ - 1]
      /\ gone' = [gone EXCEPT ![t][n] = IF t = "barcode" THEN @ ELSE @ + 1]
      /\ req' = Disturbed /\ stock' = stock
  BY DEF DeleteEntry
<1>2. /\ edits' \in 0..MaxEdits /\ UNCHANGED <<job, saved, made, crashed>>
      /\ made' \in [1..Total -> Nat] /\ \A i \in 1..Total : made[i] > 0 => made'[i] > 0
      /\ live \in Tables /\ gone \in Tables /\ stock \in [Name -> Nat]
  BY <1>1, EditIs
<1>3. /\ req' \in [Caller -> Call]
      /\ \A p \in Caller : req'[p].step = req[p].step /\ CallOK(p)'
  BY <1>1, <1>2, JustDisturbed
<1>4. /\ live[t][n] - 1 \in Nat /\ live[t][n] \in Nat /\ gone[t][n] \in Nat
      /\ g \in Nat /\ g <= gone[t][n] + 1
  BY <1>1, <1>2 DEF Tables
<1>5. /\ live' = [live EXCEPT ![t][n] = live[t][n] - 1] /\ gone' = [gone EXCEPT ![t][n] = g]
  BY <1>1, <1>2 DEF Tables
<1> HIDE DEF g
<1>6. /\ live' \in Tables /\ live'[t][n] = live[t][n] - 1
      /\ \A u \in Table, m \in Name \cup {Empty} : u # t \/ m # n => live'[u][m] = live[u][m]
  <2>1. n \in Name \cup {Empty} /\ live \in Tables /\ live[t][n] - 1 \in Nat
    BY <1>2, <1>4
  <2>2. live' = [live EXCEPT ![t][n] = live[t][n] - 1]
    BY <1>5
  <2> QED
    BY <2>1, <2>2 DEF Tables
<1>7. /\ gone' \in Tables /\ gone'[t][n] = g
      /\ \A u \in Table, m \in Name \cup {Empty} : u # t \/ m # n => gone'[u][m] = gone[u][m]
  <2>1. n \in Name \cup {Empty} /\ gone \in Tables /\ g \in Nat
    BY <1>2, <1>4
  <2>2. gone' = [gone EXCEPT ![t][n] = g]
    BY <1>5
  <2> QED
    BY <2>1, <2>2 DEF Tables
<1>8. KeysOK'
  <2>1. ASSUME NEW u \in {"product", "barcode", "unit"}, NEW m \in Name
        PROVE  live'[u][m] + gone'[u][m] <= 1
    <3>1. u \in Table /\ live[u][m] \in Nat /\ gone[u][m] \in Nat
          /\ live[u][m] + gone[u][m] <= 1
      BY <1>2 DEF Table, Tables, ImportInv, KeysOK
    <3>2. CASE u = t /\ m = n
      BY <1>4, <1>6, <1>7, <3>1, <3>2
    <3> QED
      BY <1>6, <1>7, <3>1, <3>2
  <2> QED
    BY <2>1 DEF KeysOK
<1> QED
  BY <1>1, <1>2, <1>3, <1>6, <1>7, <1>8, CatalogStep

\* Rows that follow a new name are as many, as complete, and have a key if they had.
LEMMA FollowingIs ==
  ASSUME ImportInv, NEW p \in Caller, NEW t, NEW n \in Name, NEW m \in Name
  PROVE  LET rows == Following(t, n, m, req[p]) IN
         /\ rows \in Seq(Row) /\ Len(rows) = Len(req[p].rows)
         /\ \A i \in 1..Len(req[p].rows) :
               /\ rows[i].ok = req[p].rows[i].ok
               /\ req[p].rows[i].key # Empty => rows[i].key # Empty
<1>1. PICK old : old = req[p].rows
  OBVIOUS
<1>2. old \in Seq(Row)
  BY <1>1, CallTyped DEF Call
<1>3. PICK N \in Nat : N = Len(old) /\ DOMAIN old = 1..N /\ \A i \in 1..N : old[i] \in Row
  BY <1>2
<1>4. CASE req[p].step \notin {"row", "move"}
  BY <1>1, <1>2, <1>4 DEF Following
<1>5. CASE req[p].step \in {"row", "move"}
  <2> DEFINE New(x) == [x EXCEPT
                          !.ref = IF @ = n /\ t = RefTable(job.entity) THEN m ELSE @,
                          !.key = IF @ = n /\ job.entity = "opening_stock" THEN m ELSE @]
             rows == [i \in 1..N |-> New(old[i])]
  <2>1. Following(t, n, m, req[p]) = rows
    BY <1>1, <1>3, <1>5 DEF Following
  <2>2. ASSUME NEW x \in Row
        PROVE  New(x) \in Row /\ New(x).ok = x.ok /\ (x.key # Empty => New(x).key # Empty)
    <3> DEFINE ref == IF x.ref = n /\ t = RefTable(job.entity) THEN m ELSE x.ref
               key == IF x.key = n /\ job.entity = "opening_stock" THEN m ELSE x.key
    <3>1. ref \in Name \cup {Empty} /\ key \in Name \cup {Empty}
          /\ (x.key # Empty => key # Empty)
      BY ImportAssumption DEF Row
    <3>2. New(x) = [x EXCEPT !.ref = ref, !.key = key]
      BY DEF Row
    <3> HIDE DEF ref, key, New
    <3> QED
      BY <3>1, <3>2 DEF Row
  <2> HIDE DEF New
  <2>3. \A i \in 1..N : New(old[i]) \in Row
    BY <1>3, <2>2
  <2>4. rows \in Seq(Row) /\ Len(rows) = N
    BY <2>3
  <2>5. \A i \in 1..N : rows[i].ok = old[i].ok /\ (old[i].key # Empty => rows[i].key # Empty)
    BY <1>3, <2>2
  <2> HIDE DEF rows
  <2> QED
    BY <1>1, <1>3, <2>1, <2>4, <2>5
<1> QED
  BY <1>4, <1>5

\* A name is changed for a free one, and what was looked up goes with it.
LEMMA RenameEntryStep ==
  ASSUME ImportInv, NEW t \in Table, NEW n \in Name, NEW m \in Name, RenameEntry(t, n, m)
  PROVE  ImportInv'
<1>1. /\ Edit(t) /\ n # m /\ live[t][n] > 0 /\ Free(t, m)
      /\ live' = [live EXCEPT ![t][n] = @ - 1, ![t][m] = @ + 1] /\ gone' = gone
      /\ stock' = IF t # "product" THEN stock ELSE [stock EXCEPT ![n] = 0, ![m] = stock[n]]
      /\ req' = [q \in Caller |->
                    [req[q] EXCEPT !.alone = FALSE, !.rows = Following(t, n, m, req[q])]]
  BY DEF RenameEntry
<1>2. /\ edits' \in 0..MaxEdits /\ UNCHANGED <<job, saved, made, crashed>>
      /\ made' \in [1..Total -> Nat] /\ \A i \in 1..Total : made[i] > 0 => made'[i] > 0
      /\ live \in Tables /\ gone \in Tables /\ stock \in [Name -> Nat]
  BY <1>1, EditIs
<1>3. stock' \in [Name -> Nat]
  BY <1>1, <1>2
<1>4. ASSUME NEW p \in Caller
      PROVE  req'[p] \in Call /\ req'[p].step = req[p].step /\ CallOK(p)'
  <2> DEFINE rows == Following(t, n, m, req[p])
  <2>1. /\ rows \in Seq(Row) /\ Len(rows) = Len(req[p].rows)
        /\ \A i \in 1..Len(req[p].rows) :
              /\ rows[i].ok = req[p].rows[i].ok
              /\ req[p].rows[i].key # Empty => rows[i].key # Empty
    BY FollowingIs
  <2>2. req'[p] = [req[p] EXCEPT !.alone = FALSE, !.rows = rows]
    BY <1>1
  <2> HIDE DEF rows
  <2>3. req[p] \in Call
    BY CallTyped
  <2>4. /\ req'[p] \in Call /\ req'[p].rows = rows /\ req'[p].alone = FALSE
        /\ req'[p].step = req[p].step /\ req'[p].mapping = req[p].mapping
        /\ req'[p].accepted = req[p].accepted /\ req'[p].next = req[p].next
        /\ req'[p].done = req[p].done /\ req'[p].bad = req[p].bad
    BY <2>1, <2>2, <2>3 DEF Call
  <2>5. ReadOK(p) => \A i \in 1..Total :
             /\ req'[p].rows[i].ok = req[p].rows[i].ok
             /\ req[p].rows[i].key # Empty => req'[p].rows[i].key # Empty
    BY <2>1, <2>4 DEF ReadOK
  <2> QED
    BY <1>2, <2>1, <2>4, <2>5, OthersDisturbed
<1>5. req' \in [Caller -> Call]
  BY <1>1, <1>4
<1>6. PICK a : a = [live EXCEPT ![t][n] = live[t][n] - 1]
  OBVIOUS
<1>7. /\ a \in Tables /\ a[t][n] = live[t][n] - 1
      /\ \A u \in Table, k \in Name \cup {Empty} : u # t \/ k # n => a[u][k] = live[u][k]
  <2>1. live \in Tables /\ live[t][n] > 0
    BY <1>1, <1>2
  <2>2. live[t][n] - 1 \in Nat /\ n \in Name \cup {Empty}
    BY <2>1 DEF Tables
  <2> QED
    BY <1>6, <2>1, <2>2 DEF Tables
<1>8. /\ live' \in Tables /\ live'[t][m] = a[t][m] + 1
      /\ \A u \in Table, k \in Name \cup {Empty} : u # t \/ k # m => live'[u][k] = a[u][k]
  <2>1. live' = [a EXCEPT ![t][m] = @ + 1]
    BY <1>1, <1>2, <1>6 DEF Tables
  <2>2. m \in Name \cup {Empty} /\ a \in Tables
    BY <1>7
  <2> QED
    BY <2>1, <2>2 DEF Tables
<1>9. n # m /\ Free(t, m) /\ gone' = gone
  BY <1>1
<1>10. KeysOK'
  <2>1. ASSUME NEW u \in {"product", "barcode", "unit"}, NEW k \in Name
        PROVE  live'[u][k] + gone'[u][k] <= 1
    <3>1. u \in Table /\ live[u][k] \in Nat /\ gone[u][k] \in Nat
          /\ live[u][k] + gone[u][k] <= 1
      BY <1>2 DEF Table, Tables, ImportInv, KeysOK
    <3>2. CASE u = t /\ k = m
      <4>1. live'[u][k] = live[u][k] + 1
        BY <1>7, <1>8, <1>9, <3>1, <3>2
      <4>2. live[u][k] + gone[u][k] = 0
        BY <1>9, <3>1, <3>2 DEF Free, Taken
      <4> QED
        BY <1>9, <3>1, <4>1, <4>2
    <3>3. CASE u = t /\ k = n
      <4>1. live'[u][k] = live[u][k] - 1
        BY <1>7, <1>8, <1>9, <3>1, <3>3
      <4> QED
        BY <1>9, <3>1, <4>1
    <3>4. CASE u # t \/ (k # m /\ k # n)
      <4>1. live'[u][k] = live[u][k]
        BY <1>7, <1>8, <3>1, <3>4
      <4> QED
        BY <1>9, <3>1, <4>1
    <3> QED
      BY <3>2, <3>3, <3>4
  <2> QED
    BY <2>1 DEF KeysOK
<1> QED
  BY <1>1, <1>2, <1>3, <1>4, <1>5, <1>8, <1>10, CatalogStep

\* Every step keeps the invariant.
LEMMA StepImportInv == ImportInv /\ [ImportNext]_ivars => ImportInv'
<1> SUFFICES ASSUME ImportInv, [ImportNext]_ivars PROVE ImportInv'
  OBVIOUS
<1>1. ASSUME NEW q \in Caller,
             \/ Create(q) \/ BeginMapping(q) \/ BeginCancel(q)
             \/ BeginValidation(q) \/ BeginConfirm(q) \/ Crash(q)
      PROVE  ImportInv'
  BY <1>1, CreateStep, BeginStep, BeginCancelStep, CrashStep
<1>2. ASSUME NEW q \in Caller, Continue(q)
      PROVE  ImportInv'
  BY <1>2, SaveStep, AnalyzeStep, ParseStep, SetMappingStep, CancelStep, ReadStep, CheckStep,
     StoreValidationStep, SkipStep, CreateRowStep, FindEmptyStep, MoveOpeningStep, FinishStep
     DEF Continue
<1>3. {"unit", "category", "product", "party", "barcode"} \subseteq Table
  BY DEF Table
<1>4. ASSUME NEW n \in Name,
             \/ createUnit(n) \/ createCategory(n) \/ createProduct(n)
             \/ createParty(n) \/ addBarcode(n)
      PROVE  ImportInv'
  BY <1>3, <1>4, CreateEntryStep
     DEF createUnit, createCategory, createProduct, createParty, addBarcode
<1>5. ASSUME NEW n \in Name,
             \/ deleteUnit(n) \/ deleteCategory(n) \/ softDeleteProduct(n)
             \/ softDeleteParty(n) \/ removeBarcode(n)
      PROVE  ImportInv'
  BY <1>3, <1>5, DeleteEntryStep
     DEF deleteUnit, deleteCategory, softDeleteProduct, softDeleteParty, removeBarcode
<1>6. ASSUME NEW n \in Name, NEW m \in Name,
             \/ updateUnit(n, m) \/ updateCategory(n, m)
             \/ updateProduct(n, m) \/ updateParty(n, m)
      PROVE  ImportInv'
  BY <1>3, <1>6, RenameEntryStep DEF updateUnit, updateCategory, updateProduct, updateParty
<1>7. CASE ImportNext
  BY <1>1, <1>2, <1>4, <1>5, <1>6, <1>7 DEF ImportNext
<1>8. CASE UNCHANGED ivars
  <2>1. /\ UNCHANGED <<job, saved, catalog, made, edits, crashed, req>>
    BY <1>8 DEF ivars, catalog
  <2>2. SameFile
    BY <2>1 DEF SameFile
  <2>3. \A q \in Caller : CallOK(q)'
    BY <2>1, <2>2, Undisturbed DEF ImportInv
  <2>4. Total' = Total /\ live' = live /\ gone' = gone /\ stock' = stock
    BY <2>1 DEF Total, catalog
  <2>5. ImportTypeOK'
    BY <2>1, <2>4 DEF ImportInv, ImportTypeOK, Job, AnyFile, Call
  <2>6. JobOK' /\ SavedOK' /\ KeysOK'
    BY <2>1, <2>4 DEF ImportInv, JobOK, SavedOK, KeysOK
  <2>7. ReportOK'
    BY <2>1, <2>4 DEF ImportInv, ReportOK, EveryRowReported, ReportedWereMade,
       UndisturbedImportIsWhole
  <2> QED
    BY <2>3, <2>5, <2>6, <2>7 DEF ImportInv
<1> QED
  BY <1>7, <1>8

\* The invariant of an import, of any file, with any number of requests at once.
LEMMA ImportInvariant == ImportSpec => []ImportInv
<1>1. ImportSpec => ImportInit /\ [][ImportNext]_ivars
  BY DEF ImportSpec
<1> QED
  BY <1>1, InitImportInv, StepImportInv, PTL

\* What the row of the job says is so: every row of a completed import is counted once,
\* nothing is counted as imported that was not created, and the file is in the storage
\* whenever it is needed (confirmImport, runValidation, createJob).
THEOREM JobAlwaysTellsTheTruth == ImportSpec => []JobTellsTheTruth
<1>1. ImportInv => JobTellsTheTruth
  BY DEF ImportInv, ReportOK, SavedOK, JobTellsTheTruth, FileSavedBeforeUse
<1> QED
  BY <1>1, ImportInvariant, PTL

\* A key that the database keeps unique is there once, whoever confirms, creates, deletes
\* and renames at the same time (createRow, the unique indexes of the schema).
THEOREM KeyedRowsStayUnique == ImportSpec => []KeyedRowsOnce
<1>1. ImportInv => KeyedRowsOnce
  BY DEF ImportInv, KeysOK, KeyedRowsOnce, TableOf
<1> QED
  BY <1>1, ImportInvariant, PTL

\* An import that nobody disturbed since it checked its rows creates every row it accepted,
\* except units and opening stock, whose obstacles the check does not look for
\* (validateRows, confirmImport).
THEOREM UndisturbedAlwaysWhole == ImportSpec => []UndisturbedImportIsWhole
<1>1. ImportInv => UndisturbedImportIsWhole
  BY DEF ImportInv, ReportOK
<1> QED
  BY <1>1, ImportInvariant, PTL
=============================================================================
