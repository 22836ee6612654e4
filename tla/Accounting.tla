---------------------------- MODULE Accounting ----------------------------
(***************************************************************************)
(* The accounting operations a user calls directly: the opening balance    *)
(* (accounting/opening-balance.service.ts) and the fiscal periods          *)
(* (accounting/fiscal-periods.service.ts), as concurrent requests.         *)
(*                                                                         *)
(* None of them locks a row before it decides: each read is a step of its  *)
(* own, and so is the write that ends the transaction.  The write is one   *)
(* step because nothing is read after its first lock, except by the unique *)
(* index on the active opening balance.                                    *)
(*                                                                         *)
(* One company, and the requests of one day: entries are dated when they   *)
(* are posted, so only the periods that hold Today can lock the journal.   *)
(***************************************************************************)
EXTENDS Journal, FiniteSets

CONSTANTS
    Tx,            \* requests that can be open at the same time
    OpeningLines,  \* lines a client sends, balanced or not
    Span,          \* periods a client asks for: [from, to] days
    Today,
    MaxEntries,    \* bound: entries of the journal
    MaxPeriods     \* bound: rows of fiscal_periods

ASSUME AccountingAssumption ==
    /\ OpeningLines \subseteq Lines
    /\ Span \subseteq [from : Int, to : Int]
    /\ Today \in Int
    /\ MaxEntries \in Nat
    /\ MaxPeriods \in Nat

VARIABLES
    journal,   \* journal_entries with referenceType = OpeningBalance
    periods,   \* rows of fiscal_periods, in the order of creation
    tx         \* the request each transaction is running, and how far it is

vars == <<journal, periods, tx>>

-----------------------------------------------------------------------------
OpeningEntry == EntryOf({"company"}, {"opening"})

Period == [from : Int, to : Int, closed : BOOLEAN]

\* at: what the request does next.  entry: what findActive returned.
\* period: the row the request names.
NoRequest == [op |-> "none", at |-> "end", lines |-> LinesOf(<<>>),
              span |-> [from |-> 0, to |-> 0], entry |-> 0, period |-> 0]

Request == [op : {"none", "open", "reverse", "create", "close", "reopen"},
            at : {"find", "period", "original", "write", "end"},
            lines : Lines, span : [from : Int, to : Int],
            entry : Nat, period : Nat]

Running(t, op, at) == tx[t].op = op /\ tx[t].at = at

\* Faulty variant: reversing entries count as active.
ActiveEntriesAny == {i \in 1..Len(journal) : journal[i].status = "posted"}

\* Posted and not itself a reversal: findActive, and the partial unique index.
ActiveEntries ==
    {i \in 1..Len(journal) : journal[i].status = "posted" /\ journal[i].reverses = 0}

TodayLocked ==
    \E p \in 1..Len(periods) :
        periods[p].closed /\ periods[p].from <= Today /\ Today <= periods[p].to

Overlaps(s, p) == p.from <= s.to /\ s.from <= p.to

Init ==
    /\ journal = <<>>
    /\ periods = <<>>
    /\ tx = [t \in Tx |-> NoRequest]

-----------------------------------------------------------------------------
Start(t, r) ==
    /\ tx[t].op = "none"
    /\ tx' = [tx EXCEPT ![t] = r]
    /\ UNCHANGED <<journal, periods>>

\* A request arrives.  For an entry that posts nothing yet is read; close and
\* reopen read their row in the first step.
StartOpening(t) ==
    \E l \in OpeningLines :
        Start(t, [NoRequest EXCEPT !.op = "open", !.at = "find", !.lines = l])

StartReversal(t) == Start(t, [NoRequest EXCEPT !.op = "reverse", !.at = "find"])

StartPeriod(t) ==
    \E s \in Span :
        /\ s.from <= s.to
        /\ Start(t, [NoRequest EXCEPT !.op = "create", !.at = "find", !.span = s])

StartClose(t) ==
    \E p \in 1..Len(periods) :
        /\ ~periods[p].closed
        /\ Start(t, [NoRequest EXCEPT !.op = "close", !.at = "write", !.period = p])

StartReopen(t) ==
    \E p \in 1..Len(periods) :
        /\ periods[p].closed
        /\ Start(t, [NoRequest EXCEPT !.op = "reopen", !.at = "write", !.period = p])

-----------------------------------------------------------------------------
Goto(t, at) == tx' = [tx EXCEPT ![t].at = at] /\ UNCHANGED <<journal, periods>>

Finish(t) == tx' = [tx EXCEPT ![t] = NoRequest]

\* OpeningBalanceService.create refuses when findActive finds an entry.
FindNoActive(t) ==
    /\ Running(t, "open", "find")
    /\ ActiveEntries = {}
    /\ Goto(t, "period")

\* OpeningBalanceService.reverse goes on with the entry findActive returns.
FindActive(t) ==
    /\ Running(t, "reverse", "find")
    /\ \E i \in ActiveEntries :
          tx' = [tx EXCEPT ![t].at = "period", ![t].entry = i]
    /\ UNCHANGED <<journal, periods>>

\* assertTodayNotLocked, the first step of postJournalEntry and of
\* reverseJournalEntry.
CheckPeriod(t) ==
    /\ tx[t].at = "period"
    /\ ~TodayLocked
    /\ Goto(t, IF tx[t].op = "open" THEN "write" ELSE "original")

\* reverseJournalEntry reads the entry once more and refuses a reversed one.
CheckOriginal(t) ==
    /\ Running(t, "reverse", "original")
    /\ journal[tx[t].entry].status = "posted"
    /\ Goto(t, "write")

\* FiscalPeriodsService.create looks for a period that overlaps the new one.
FindNoOverlap(t) ==
    /\ Running(t, "create", "find")
    /\ \A p \in 1..Len(periods) : ~Overlaps(tx[t].span, periods[p])
    /\ Goto(t, "write")

-----------------------------------------------------------------------------
\* Faulty variant: without the partial unique index.
WriteOpeningNoIndex(t) ==
    /\ Running(t, "open", "write")
    /\ Len(journal) < MaxEntries
    /\ Postable(tx[t].lines)
    /\ journal' = PostEntry(journal, "company", "opening", tx[t].lines)
    /\ Finish(t)
    /\ UNCHANGED periods

\* The unique index refuses a second active entry (P2002, answered with 409).
WriteOpening(t) ==
    /\ Running(t, "open", "write")
    /\ Len(journal) < MaxEntries
    /\ Postable(tx[t].lines)
    /\ ActiveEntries = {}
    /\ journal' = PostEntry(journal, "company", "opening", tx[t].lines)
    /\ Finish(t)
    /\ UNCHANGED periods

\* The update that marks the original names it by id only: it waits for a
\* concurrent reversal of the same entry, and then marks it again.
WriteReversal(t) ==
    /\ Running(t, "reverse", "write")
    /\ Len(journal) < MaxEntries
    /\ journal' = ReverseEntry(journal, tx[t].entry)
    /\ Finish(t)
    /\ UNCHANGED periods

WritePeriod(t) ==
    /\ Running(t, "create", "write")
    /\ Len(periods) < MaxPeriods
    /\ periods' = Append(periods, [from |-> tx[t].span.from, to |-> tx[t].span.to,
                                   closed |-> FALSE])
    /\ Finish(t)
    /\ UNCHANGED journal

WriteClose(t) ==
    /\ Running(t, "close", "write")
    /\ periods' = [periods EXCEPT ![tx[t].period].closed = TRUE]
    /\ Finish(t)
    /\ UNCHANGED journal

WriteReopen(t) ==
    /\ Running(t, "reopen", "write")
    /\ periods' = [periods EXCEPT ![tx[t].period].closed = FALSE]
    /\ Finish(t)
    /\ UNCHANGED journal

\* A check failed, a constraint refused the row, or the connection was lost:
\* the transaction rolls back, at whatever step it is.
Abort(t) ==
    /\ tx[t].op # "none"
    /\ Finish(t)
    /\ UNCHANGED <<journal, periods>>

Next ==
    \E t \in Tx :
        \/ StartOpening(t) \/ StartReversal(t)
        \/ StartPeriod(t) \/ StartClose(t) \/ StartReopen(t)
        \/ FindNoActive(t) \/ FindActive(t) \/ CheckPeriod(t) \/ CheckOriginal(t)
        \/ FindNoOverlap(t)
        \/ WriteOpening(t) \/ WriteReversal(t)
        \/ WritePeriod(t) \/ WriteClose(t) \/ WriteReopen(t)
        \/ Abort(t)

Spec == Init /\ [][Next]_vars

-----------------------------------------------------------------------------
TypeOK ==
    /\ journal \in Seq(OpeningEntry)
    /\ periods \in Seq(Period)
    /\ tx \in [Tx -> Request]

\* There is never more than one opening balance in effect, not even when two
\* are recorded, or one is recorded and one reversed, at the same time.
OneActiveOpening == \A i, j \in ActiveEntries : i = j

\* Whatever lines clients send, every entry of the journal balances, the
\* reversing ones included.
EntriesBalance == \A i \in 1..Len(journal) : Balanced(journal[i].lines)

\* What is reversed is an opening balance, never a reversal: findActive leaves
\* the reversing entries out.
OnlyOriginalsReversed == OriginalsReversed(journal)

\* What is posted stands: every entry balances, and no reversal is undone.
EntriesStand == EntriesBalance /\ OnlyOriginalsReversed

\* Entries are only appended and marked.
HistoryKept == [][Continues(journal, journal')]_vars

-----------------------------------------------------------------------------
\* An entry that was reversed is not reversed again (docs/JOURNAL_ENTRIES.md,
\* "Reversal Mechanism": 409 if it is already reversed).
ReversedOnce == UndoneOnce(journal)

\* No new entry is posted while today falls in a closed period
\* (docs/SECURITY.md, "period lock"; docs/ACCOUNTING.md, "Fiscal Periods").
NoEntryWhenLocked == [][Len(journal') > Len(journal) => ~TodayLocked]_vars

\* Two periods never overlap (docs/ACCOUNTING.md, "Fiscal Periods": 409 for a
\* period that overlaps one that exists).
PeriodsDisjoint ==
    \A p, q \in 1..Len(periods) : p # q => ~Overlaps(periods[p], periods[q])
=============================================================================
