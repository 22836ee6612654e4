------------------------------ MODULE Reports ------------------------------
(***************************************************************************)
(* The financial reports and what they read: trial balance, general        *)
(* ledger, profit and loss and balance sheet                               *)
(* (accounting/accounting-reports.service.ts), the balances and statements *)
(* of customers and suppliers (accounting/subledger.service.ts) and the    *)
(* bank reconciliation (accounting/bank-reconciliation.service.ts).        *)
(*                                                                         *)
(* The module composes them with Accounting: `journal' holds the opening   *)
(* balance, `other' the entries that sales, payments, purchases and        *)
(* expenses post on the same day and the day before.  A report of one      *)
(* query is an operator of the state.  One of several is a reader that     *)
(* keeps its first result while transactions commit: the isolation level   *)
(* is read committed.                                                      *)
(*                                                                         *)
(* "revenue" holds VAT Payable too (see Journal), so a balance sheet has   *)
(* that liability within its profit.                                       *)
(***************************************************************************)
EXTENDS Accounting, Functions

CONSTANTS
    Party,       \* customers and suppliers
    Branch,
    NoBranch,    \* branchId = null
    Before,      \* the entries of yesterday, oldest first
    Postings,    \* what the other services post today
    Scopes,      \* the sets of branches a reader may see: all, or some
    MaxOther,    \* bound: entries of `other'
    MaxRows,     \* bound: rows of bank_reconciliations
    MaxOpen      \* bound: requests of Accounting open while others work

VARIABLES
    other,       \* journal_entries of every other referenceType
    report,      \* a report between its first query and its second
    reconciled   \* rows of bank_reconciliations

reportVars == <<other, report, reconciled>>

Document == [type : {"Sale", "Purchase", "Expense"}, party : Party,
             branch : Branch, id : Nat]

OtherEntry == EntryOf(Document, {"document", "payment"})

\* Only sales post to the receivables and only purchases to the payables.
KeepsControl(e) ==
    /\ e.ref.type # "Sale" => e.lines["ar"] = 0
    /\ e.ref.type # "Purchase" => e.lines["ap"] = 0

ASSUME ReportsAssumption ==
    /\ Postings \subseteq [ref : Document, kind : {"document", "payment"}, lines : Lines]
    /\ \A p \in Postings : KeepsControl(p)
    /\ Before \in Seq(OtherEntry)
    /\ \A i \in 1..Len(Before) : Balanced(Before[i].lines) /\ KeepsControl(Before[i])
    /\ IsFiniteSet(Party)
    /\ NoBranch \notin Branch
    /\ Scopes \subseteq SUBSET Branch
    /\ {MaxOther, MaxRows, MaxOpen} \subseteq Nat

Yesterday == Today - 1

NoReport == [op |-> "none", scope |-> {}, from |-> Today, to |-> Today, of |-> "cash",
             docs |-> {}, first |-> 0, moved |-> FALSE]

Reader == [op : {"none", "sheet", "ledger", "statement", "reconcile"},
           scope : SUBSET Branch, from : Int, to : Int, of : Account \cup Party,
           docs : SUBSET Document, first : Int, moved : BOOLEAN]

Reconciliation == [to : Int, book : Int]

-----------------------------------------------------------------------------
(***************************************************************************)
(* The shared query layer.  A key names a row of journal_entries.          *)
(***************************************************************************)
OpeningKeys == {"opening"} \X (1..Len(journal))

Keys == OpeningKeys \cup ({"other"} \X (1..Len(other)))

EntryAt(k) == IF k[1] = "opening" THEN journal[k[2]] ELSE other[k[2]]

DayOf(k) == IF k[1] = "other" /\ k[2] <= Len(Before) THEN Yesterday ELSE Today

BranchOf(k) == IF k[1] = "opening" THEN NoBranch ELSE other[k[2]].ref.branch

\* Posted, of a branch the reader may see or of none, dated in the range.
\* A scope that holds every branch stands for allBranches.
Visible(scope, from, to) ==
    {k \in Keys : /\ EntryAt(k).status = "posted"
                  /\ from <= DayOf(k) /\ DayOf(k) <= to
                  /\ BranchOf(k) \in scope \cup {NoBranch}}

\* Debit minus credit of an account, and of several.
BalanceOf(a, ks) == SumFunctionOnSet([k \in Keys |-> EntryAt(k).lines[a]], ks)

TotalOf(as, ks) == SumFunctionOnSet([a \in Account |-> BalanceOf(a, ks)], as)

SheetAccounts == {"cash", "ar", "inventory", "vat", "ap", "equity"}

ProfitAccounts == {"revenue", "cogs", "adjustment", "expense"}

\* getTrialBalance: the net balance in the row of an account.
TrialRow(a, scope, from, to) == BalanceOf(a, Visible(scope, from, to))

\* getProfitAndLoss: revenue less expenses.
NetProfit(scope, from, to) == -TotalOf(ProfitAccounts, Visible(scope, from, to))

\* The account of a party, and the type of the documents that move it.
ControlOf(type) == IF type = "Sale" THEN "ar" ELSE "ap"

\* Faulty variant: reversed entries are read as well.
DocumentKeysAny(type, scope) ==
    {k \in Keys : /\ k[1] = "other" /\ EntryAt(k).ref.type = type
                  /\ EntryAt(k).ref.branch \in scope}

DocumentKeys(type, scope) ==
    {k \in Visible(scope, Yesterday, Today) : k[1] = "other" /\ EntryAt(k).ref.type = type}

\* listCustomerBalances and listSupplierBalances.
PartyBalance(type, p, scope) ==
    BalanceOf(ControlOf(type),
              {k \in DocumentKeys(type, scope) : EntryAt(k).ref.party = p})

\* getCustomerStatement and getSupplierStatement, of the documents found before.
StatementBalance(type, docs, scope) ==
    BalanceOf(ControlOf(type), {k \in DocumentKeys(type, scope) : EntryAt(k).ref \in docs})

\* The documents of a party: each has an entry from the moment it exists.
DocumentsOf(p) == {e.ref : e \in {other[i] : i \in {j \in 1..Len(other) : other[j].ref.party = p}}}

-----------------------------------------------------------------------------
ReportsInit ==
    /\ Init
    /\ other = Before
    /\ report = NoReport
    /\ reconciled = {}

\* A reader that is under way learns that a transaction committed.
Noticed ==
    report' = IF report.op = "none" THEN report
              ELSE [report EXCEPT !.moved = @ \/ <<journal', other'>> # <<journal, other>>]

\* Bound: either Accounting is explored on its own, or few of its requests are
\* open while entries are posted and reports are read.
Alone == other = Before /\ report = NoReport /\ reconciled = {}

Calm == Cardinality({t \in Tx : tx[t].op # "none"}) <= MaxOpen

\* A step of the opening balance or of a period.
OfAccounting ==
    /\ Next
    /\ Alone \/ Calm'
    /\ UNCHANGED <<other, reconciled>>
    /\ Noticed

Write(entries) ==
    /\ ~TodayLocked /\ Calm
    /\ Len(entries) <= MaxOther
    /\ other' = entries
    /\ UNCHANGED <<vars, reconciled>>
    /\ Noticed

\* A sale, a receipt of goods, an expense or a payment posts its entry.
PostOther ==
    \E p \in Postings :
        /\ Postable(p.lines)
        /\ p.kind = "document" => \A i \in 1..Len(other) : other[i].ref # p.ref
        /\ p.kind = "payment" => \E i \in 1..Len(other) : other[i].ref = p.ref
        /\ Write(PostEntry(other, p.ref, p.kind, p.lines))

\* A sale or an expense is cancelled, once: a posted entry of it is reversed.
ReverseOther ==
    \E i \in 1..Len(other) :
        /\ other[i].status = "posted"
        /\ other[i].ref.type \in {"Sale", "Expense"}
        /\ \A j \in 1..Len(other) : other[j].ref = other[i].ref => other[j].reverses = 0
        /\ Write(ReverseEntry(other, i))

-----------------------------------------------------------------------------
Begin(r) ==
    /\ report.op = "none" /\ Calm
    /\ report' = r
    /\ UNCHANGED <<vars, other, reconciled>>

End(op) ==
    /\ report.op = op
    /\ report' = NoReport
    /\ UNCHANGED <<vars, other>>

\* getBalanceSheet reads its accounts; getProfitAndLoss is a second query.
ReadSheet ==
    \E scope \in Scopes, to \in {Yesterday, Today} :
        Begin([NoReport EXCEPT !.op = "sheet", !.scope = scope, !.from = Yesterday, !.to = to,
                   !.first = TotalOf(SheetAccounts, Visible(scope, Yesterday, to))])

ReadSheetProfit == End("sheet") /\ UNCHANGED reconciled

\* Faulty variant: the opening balance holds the first day of the range too.
ReadLedgerOpeningTwice ==
    \E scope \in Scopes, a \in {"ar"} :
        Begin([NoReport EXCEPT !.op = "ledger", !.scope = scope, !.of = a,
                   !.first = BalanceOf(a, Visible(scope, Yesterday, Today))])

\* getGeneralLedger from today on: the opening balance, then the lines.
ReadLedgerOpening ==
    \E scope \in Scopes, a \in {"ar"} :
        Begin([NoReport EXCEPT !.op = "ledger", !.scope = scope, !.of = a,
                   !.first = BalanceOf(a, Visible(scope, Yesterday, Yesterday))])

ReadLedgerLines == End("ledger") /\ UNCHANGED reconciled

\* A statement reads the documents of the party, then their lines.
ReadDocuments ==
    \E scope \in Scopes, p \in Party :
        Begin([NoReport EXCEPT !.op = "statement", !.scope = scope, !.of = p,
                   !.docs = DocumentsOf(p)])

ReadStatementLines == End("statement") /\ UNCHANGED reconciled

\* BankReconciliationService.create: the book balance of the whole company at
\* the end of a day, then the row that keeps it.
ReadBook ==
    \E to \in {Yesterday, Today} :
        Begin([NoReport EXCEPT !.op = "reconcile", !.to = to,
                   !.first = BalanceOf("cash", Visible(Branch, Yesterday, to))])

WriteReconciliation ==
    /\ End("reconcile")
    /\ Cardinality(reconciled) < MaxRows
    /\ reconciled' = reconciled \cup {[to |-> report.to, book |-> report.first]}

ReportsNext ==
    \/ OfAccounting
    \/ PostOther \/ ReverseOther
    \/ ReadSheet \/ ReadSheetProfit
    \/ ReadLedgerOpening \/ ReadLedgerLines
    \/ ReadDocuments \/ ReadStatementLines
    \/ ReadBook \/ WriteReconciliation

ReportsSpec == ReportsInit /\ [][ReportsNext]_<<vars, reportVars>>

-----------------------------------------------------------------------------
ReportsTypeOK ==
    /\ TypeOK
    /\ other \in Seq(OtherEntry)
    /\ report \in Reader
    /\ reconciled \subseteq Reconciliation

\* A balance sheet balances, for every scope and day, when nothing was posted
\* between its two queries: the unclosed profit is what the accounts lack.
SheetBalances ==
    (report.op = "sheet" /\ ~report.moved) =>
        report.first = NetProfit(report.scope, report.from, report.to)

\* The ledger of an account closes with the balance of the account, if it was
\* not cut at MAX_LEDGER_LINES: nothing is counted twice or left out between
\* the opening balance and the lines.
LedgerCloses ==
    (report.op = "ledger" /\ ~report.moved) =>
        report.first + BalanceOf(report.of, Visible(report.scope, Today, Today))
            = TrialRow(report.of, report.scope, Yesterday, Today)

\* What the customers owe is the receivables account less its opening balance,
\* whatever was paid, returned or cancelled; and so for the suppliers.
SubledgersTieOut ==
    \A type \in {"Sale", "Purchase"}, scope \in Scopes :
        SumFunction([p \in Party |-> PartyBalance(type, p, scope)])
            = TrialRow(ControlOf(type), scope, Yesterday, Today)
              - BalanceOf(ControlOf(type), Visible(scope, Today, Today) \cap OpeningKeys)

\* A statement ends with the balance the list shows for the party, unless the
\* books moved while it was read.
StatementAgrees ==
    (report.op = "statement" /\ ~report.moved) =>
        \A type \in {"Sale", "Purchase"} :
            StatementBalance(type, report.docs, report.scope)
                = PartyBalance(type, report.of, report.scope)

\* The reconciliation of a day that is over stays true whatever is done today,
\* as long as no entry of that day is reversed.
ReconciliationHolds ==
    (\A i \in 1..Len(Before) : other[i].status = "posted") =>
        \A r \in reconciled :
            r.to = Yesterday =>
                r.book = BalanceOf("cash", Visible(Branch, Yesterday, Yesterday))

\* Reports read at the same time, and the books they were read from, agree.
ReportsAgree == SheetBalances /\ LedgerCloses /\ StatementAgrees /\ ReconciliationHolds

-----------------------------------------------------------------------------
\* The reports show the ledger: an entry and its reversal cancel out, the mark
\* on the original being "purely ... an informational pointer"
\* (journal.service.ts, reverseJournalEntry).
ReportsShowLedger ==
    \A a \in Account :
        BalanceOf(a, Visible(Branch, Yesterday, Today)) = BalanceOf(a, Keys)

\* What was posted on a day that is over does not change (docs/ACCOUNTING.md,
\* "Fiscal Periods": there is no backdating, a correction is a new entry).
PastIsFixed ==
    [][\A a \in Account :
          BalanceOf(a, Visible(Branch, Yesterday, Yesterday))'
              = BalanceOf(a, Visible(Branch, Yesterday, Yesterday))]_<<vars, reportVars>>

\* The balance sheet is always balanced when it is shown (docs/ACCOUNTING.md,
\* "Balance Sheet").
SheetAlwaysBalances ==
    report.op = "sheet" => report.first = NetProfit(report.scope, report.from, report.to)
=============================================================================
