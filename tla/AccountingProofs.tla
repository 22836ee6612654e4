-------------------------- MODULE AccountingProofs --------------------------
(***************************************************************************)
(* Theorems about Accounting and the reports drawn from it, for any number *)
(* of concurrent requests, any lines clients send and any periods, with or *)
(* without the bounds.                                                     *)
(*                                                                         *)
(* The properties of the journal follow from one invariant (AccInv): a     *)
(* reversal that is under way names an entry that is an original.  Whether *)
(* that entry is still posted is not part of it, and is not kept: that is  *)
(* why an entry can be reversed twice and yet the properties below hold.   *)
(***************************************************************************)
EXTENDS Reports, JournalProofs, TLAPS

\* A reversal past findActive names an original, a change of a period a row.
Good(r) ==
    /\ r.op = "open" => r.lines \in OpeningLines
    /\ (r.op = "reverse" /\ r.at # "find") =>
          r.entry \in 1..Len(journal) /\ journal[r.entry].reverses = 0
    /\ r.op \in {"close", "reopen"} => r.period \in 1..Len(periods)

RequestsOK == \A t \in Tx : Good(tx[t])

\* The inductive invariant.
AccInv ==
    /\ TypeOK
    /\ RequestsOK
    /\ OneActiveOpening
    /\ EntriesBalance
    /\ OnlyOriginalsReversed

\* It holds of an empty journal.
LEMMA InitAcc == Init => AccInv
<1> SUFFICES ASSUME Init PROVE AccInv
  OBVIOUS
<1>1. LinesOf(<<>>) \in Lines
  BY LinesOfType
<1>2. NoRequest \in Request
  BY <1>1 DEF NoRequest, Request
<1>3. TypeOK
  BY <1>2 DEF Init, TypeOK
<1>4. RequestsOK
  BY DEF Init, RequestsOK, NoRequest, Good
<1> QED
  BY <1>3, <1>4
     DEF Init, AccInv, OneActiveOpening, ActiveEntries, EntriesBalance,
         OnlyOriginalsReversed, OriginalsReversed

\* The request of a transaction that runs none.
LEMMA NoRequestType == NoRequest \in Request /\ NoRequest.op = "none" /\ Good(NoRequest)
<1>1. LinesOf(<<>>) \in Lines
  BY LinesOfType
<1> QED
  BY <1>1 DEF NoRequest, Request, Good

\* A step that only starts or advances a request.
LEMMA AdvanceAcc ==
  ASSUME AccInv, NEW t \in Tx, NEW r \in Request, Good(r),
         tx' = [tx EXCEPT ![t] = r], journal' = journal, periods' = periods
  PROVE  AccInv'
<1>1. TypeOK'
  BY DEF AccInv, TypeOK
<1>2. RequestsOK'
  <2>1. \A q : Good(q)' <=> Good(q)
    BY DEF Good
  <2> QED
    BY <2>1 DEF AccInv, TypeOK, RequestsOK
<1> QED
  BY <1>1, <1>2
     DEF AccInv, OneActiveOpening, ActiveEntries, EntriesBalance,
         OnlyOriginalsReversed, OriginalsReversed

\* A step that writes a period and ends its request.
LEMMA PeriodAcc ==
  ASSUME AccInv, NEW t \in Tx, tx' = [tx EXCEPT ![t] = NoRequest], journal' = journal,
         periods' \in Seq(Period), Len(periods') >= Len(periods)
  PROVE  AccInv'
<1>1. TypeOK'
  BY NoRequestType DEF AccInv, TypeOK
<1>2. RequestsOK'
  <2>1. \A q : Good(q) => Good(q)'
    <3>1. 1..Len(periods) \subseteq 1..Len(periods')
      BY DEF AccInv, TypeOK
    <3> QED
      BY <3>1 DEF Good
  <2> QED
    BY <2>1, NoRequestType DEF AccInv, TypeOK, RequestsOK
<1> QED
  BY <1>1, <1>2
     DEF AccInv, OneActiveOpening, ActiveEntries, EntriesBalance,
         OnlyOriginalsReversed, OriginalsReversed

\* postJournalEntry keeps it: the entry balances, and the index lets it in only
\* when no other is active.
LEMMA OpeningAcc ==
  ASSUME AccInv, NEW t \in Tx, WriteOpening(t)
  PROVE  AccInv' /\ Continues(journal, journal')
<1> DEFINE l == tx[t].lines
           n == Len(journal) + 1
<1>1. l \in Lines /\ Balanced(l)
  BY AccountingAssumption
     DEF AccInv, TypeOK, RequestsOK, Good, Request, WriteOpening, Running, Postable
<1>2. /\ journal' = Append(journal, Entry("company", "opening", l))
      /\ journal' \in Seq(OpeningEntry)
  BY <1>1, PostEntryType DEF AccInv, TypeOK, OpeningEntry, WriteOpening, PostEntry
<1>3. /\ Len(journal') = n /\ Len(journal) \in Nat
      /\ \A i \in 1..Len(journal) : journal'[i] = journal[i]
      /\ journal'[n].lines = l /\ journal'[n].reverses = 0
      /\ journal'[n].status = "posted"
  BY <1>2 DEF AccInv, TypeOK, Entry
<1>4. TypeOK'
  BY <1>2, NoRequestType DEF AccInv, TypeOK, WriteOpening, Finish
<1>5. RequestsOK'
  <2>1. \A r : Good(r) => Good(r)'
    BY <1>3 DEF Good, WriteOpening
  <2> QED
    BY <2>1, NoRequestType DEF AccInv, TypeOK, RequestsOK, WriteOpening, Finish
<1>6. OneActiveOpening'
  <2>1. ActiveEntries' \subseteq {n}
    BY <1>3 DEF ActiveEntries, WriteOpening
  <2> QED
    BY <2>1 DEF OneActiveOpening
<1>7. EntriesBalance'
  BY <1>1, <1>3 DEF AccInv, EntriesBalance
<1>8. OnlyOriginalsReversed'
  BY <1>3 DEF AccInv, OnlyOriginalsReversed, OriginalsReversed
<1>9. Continues(journal, journal')
  BY <1>3 DEF Continues
<1> QED
  BY <1>4, <1>5, <1>6, <1>7, <1>8, <1>9 DEF AccInv

\* reverseJournalEntry keeps it, also for an entry that is reversed already:
\* the reversing entry is not active, and marking makes no entry active.
LEMMA ReversalAcc ==
  ASSUME AccInv, NEW t \in Tx, WriteReversal(t)
  PROVE  AccInv' /\ Continues(journal, journal')
<1>1. PICK i \in 1..Len(journal) :
        /\ journal[i].reverses = 0
        /\ journal' = ReverseEntry(journal, i)
  BY DEF AccInv, RequestsOK, Good, WriteReversal, Running
<1>2. journal \in Seq(OpeningEntry) /\ journal' \in Seq(OpeningEntry)
  BY <1>1, ReverseEntryType DEF AccInv, TypeOK, OpeningEntry
<1>3. /\ Len(journal') = Len(journal) + 1 /\ Len(journal) \in Nat
      /\ \A k \in 1..Len(journal) :
            /\ journal'[k].lines = journal[k].lines
            /\ journal'[k].reverses = journal[k].reverses
            /\ journal'[k].status = IF k = i THEN "reversed" ELSE journal[k].status
      /\ journal'[Len(journal) + 1].lines = SwapLines(journal[i].lines)
      /\ journal'[Len(journal) + 1].reverses = i
  BY <1>1, <1>2, ReverseEntryEffect DEF OpeningEntry
<1>4. 1..Len(journal') = 1..Len(journal) \cup {Len(journal) + 1}
  BY <1>3
<1>5. journal[i].lines \in Lines /\ i # 0
  <2>1. journal[i] \in OpeningEntry
    BY <1>2
  <2> QED
    BY <2>1 DEF OpeningEntry, EntryOf
<1>6. TypeOK'
  BY <1>2, NoRequestType DEF AccInv, TypeOK, WriteReversal, Finish
<1>7. RequestsOK'
  <2>1. \A r : Good(r) => Good(r)'
    BY <1>3, <1>4 DEF Good, WriteReversal
  <2> QED
    BY <2>1, NoRequestType DEF AccInv, TypeOK, RequestsOK, WriteReversal, Finish
<1>8. OneActiveOpening'
  <2>1. ActiveEntries' \subseteq ActiveEntries
    BY <1>3, <1>4, <1>5 DEF ActiveEntries
  <2> QED
    BY <2>1 DEF AccInv, OneActiveOpening
<1>9. EntriesBalance'
  BY <1>3, <1>4, <1>5, SwapLinesBalanced DEF AccInv, EntriesBalance
<1>10. OnlyOriginalsReversed'
  <2>1. Len(journal) + 1 \notin 1..Len(journal) /\ journal'[Len(journal) + 1].status = "posted"
    BY <1>1, <1>2, <1>3, ReverseEntryEffect DEF OpeningEntry
  <2> QED
    BY <1>1, <1>3, <1>4, <2>1 DEF AccInv, OnlyOriginalsReversed, OriginalsReversed
<1>11. Continues(journal, journal')
  BY <1>1, <1>2, ReverseEntryContinues DEF OpeningEntry
<1> QED
  BY <1>6, <1>7, <1>8, <1>9, <1>10, <1>11 DEF AccInv

\* Every step keeps the invariant, and only appends to the journal or marks.
LEMMA StepAcc == AccInv /\ [Next]_vars => AccInv' /\ [Continues(journal, journal')]_vars
<1> SUFFICES ASSUME AccInv, [Next]_vars
             PROVE  AccInv' /\ [Continues(journal, journal')]_vars
  OBVIOUS
<1>1. journal' = journal => Continues(journal, journal')
  BY DEF Continues, AccInv, TypeOK
<1>3. periods \in Seq(Period) /\ tx \in [Tx -> Request]
  BY DEF AccInv, TypeOK
<1>4. CASE UNCHANGED vars
  BY <1>4 DEF AccInv, vars, TypeOK, RequestsOK, Good, OneActiveOpening, ActiveEntries,
              EntriesBalance, OnlyOriginalsReversed, OriginalsReversed
<1>5. ASSUME NEW t \in Tx,
             \/ StartOpening(t) \/ StartReversal(t) \/ StartPeriod(t)
             \/ StartClose(t) \/ StartReopen(t)
      PROVE  AccInv'
  <2>1. PICK r \in Request : Good(r) /\ Start(t, r)
    <3>1. CASE StartOpening(t)
      BY <3>1, NoRequestType, AccountingAssumption DEF StartOpening, Request, Good
    <3>2. CASE StartReversal(t)
      BY <3>2, NoRequestType DEF StartReversal, Request, Good
    <3>3. CASE StartPeriod(t)
      BY <3>3, NoRequestType, AccountingAssumption DEF StartPeriod, Request, Good
    <3>4. CASE StartClose(t)
      <4>1. PICK p \in 1..Len(periods) :
              Start(t, [NoRequest EXCEPT !.op = "close", !.at = "write", !.period = p])
        BY <3>4 DEF StartClose
      <4>2. p \in Nat
        BY <1>3
      <4> QED
        BY <4>1, <4>2, NoRequestType DEF Request, Good
    <3>5. CASE StartReopen(t)
      <4>1. PICK p \in 1..Len(periods) :
              Start(t, [NoRequest EXCEPT !.op = "reopen", !.at = "write", !.period = p])
        BY <3>5 DEF StartReopen
      <4>2. p \in Nat
        BY <1>3
      <4> QED
        BY <4>1, <4>2, NoRequestType DEF Request, Good
    <3> QED
      BY <1>5, <3>1, <3>2, <3>3, <3>4, <3>5
  <2> QED
    BY <2>1, AdvanceAcc DEF Start
<1>6. ASSUME NEW t \in Tx,
             FindNoActive(t) \/ CheckPeriod(t) \/ CheckOriginal(t) \/ FindNoOverlap(t)
      PROVE  AccInv'
  <2>1. PICK at \in {"period", "original", "write"} :
          /\ tx' = [tx EXCEPT ![t].at = at]
          /\ UNCHANGED <<journal, periods>>
          /\ tx[t].op = "reverse" => tx[t].at # "find"
    BY <1>6 DEF FindNoActive, CheckPeriod, CheckOriginal, FindNoOverlap, Goto, Running
  <2> DEFINE r == [tx[t] EXCEPT !.at = at]
  <2>2. tx[t] \in Request /\ Good(tx[t])
    BY <1>3 DEF AccInv, RequestsOK
  <2>3. r \in Request /\ Good(r)
    BY <2>1, <2>2 DEF Request, Good
  <2>4. tx' = [tx EXCEPT ![t] = r]
    BY <1>3, <2>1
  <2> HIDE DEF r
  <2> QED
    BY <2>1, <2>3, <2>4, AdvanceAcc
<1>7. ASSUME NEW t \in Tx, FindActive(t) PROVE AccInv'
  <2>1. PICK i \in ActiveEntries :
          tx' = [tx EXCEPT ![t].at = "period", ![t].entry = i]
    BY <1>7 DEF FindActive
  <2> DEFINE r == [tx[t] EXCEPT !.at = "period", !.entry = i]
  <2>2. i \in Nat /\ i \in 1..Len(journal) /\ journal[i].reverses = 0
    BY DEF ActiveEntries
  <2>3. tx[t] \in Request /\ tx[t].op = "reverse"
    BY <1>3, <1>7 DEF FindActive, Running
  <2>4. r \in Request /\ Good(r)
    BY <2>2, <2>3 DEF Request, Good
  <2>5. tx' = [tx EXCEPT ![t] = r] /\ UNCHANGED <<journal, periods>>
    BY <1>3, <1>7, <2>1 DEF FindActive
  <2> HIDE DEF r
  <2> QED
    BY <2>4, <2>5, AdvanceAcc
<1>8. ASSUME NEW t \in Tx, WritePeriod(t) \/ WriteClose(t) \/ WriteReopen(t) \/ Abort(t)
      PROVE  AccInv'
  <2>1. journal' = journal /\ tx' = [tx EXCEPT ![t] = NoRequest]
    BY <1>8 DEF WritePeriod, WriteClose, WriteReopen, Abort, Finish
  <2>2. periods' \in Seq(Period) /\ Len(periods') >= Len(periods)
    <3>1. CASE WritePeriod(t)
      <4> DEFINE p == [from |-> tx[t].span.from, to |-> tx[t].span.to, closed |-> FALSE]
      <4>1. tx[t] \in Request
        BY <1>3
      <4>2. p \in Period
        BY <4>1 DEF Request, Period
      <4>3. periods' = Append(periods, p)
        BY <3>1 DEF WritePeriod
      <4> HIDE DEF p
      <4> QED
        BY <1>3, <4>2, <4>3
    <3>2. CASE WriteClose(t) \/ WriteReopen(t)
      <4>1. tx[t].period \in 1..Len(periods)
        BY <3>2 DEF WriteClose, WriteReopen, Running, AccInv, RequestsOK, Good
      <4>2. \A c \in BOOLEAN : [periods[tx[t].period] EXCEPT !.closed = c] \in Period
        <5>1. periods[tx[t].period] \in Period
          BY <1>3, <4>1
        <5> QED
          BY <5>1 DEF Period
      <4>3. PICK c \in BOOLEAN : periods' = [periods EXCEPT ![tx[t].period].closed = c]
        BY <3>2 DEF WriteClose, WriteReopen
      <4> QED
        BY <1>3, <4>1, <4>2, <4>3
    <3>3. CASE Abort(t)
      BY <1>3, <3>3 DEF Abort
    <3> QED
      BY <1>8, <3>1, <3>2, <3>3
  <2> QED
    BY <2>1, <2>2, PeriodAcc
<1>9. CASE \E t \in Tx : WriteOpening(t) \/ WriteReversal(t)
  BY <1>9, OpeningAcc, ReversalAcc
<1> QED
  BY <1>1, <1>4, <1>5, <1>6, <1>7, <1>8, <1>9
     DEF Next, StartOpening, StartReversal, StartPeriod, StartClose, StartReopen, Start,
         FindNoActive, FindActive, CheckPeriod, CheckOriginal, FindNoOverlap, Goto,
         WritePeriod, WriteClose, WriteReopen, Abort, vars

\* The invariant holds in every state.
LEMMA AccInvariance == Spec => []AccInv
  BY InitAcc, StepAcc, PTL DEF Spec

\* Every variable keeps its type.
THEOREM AccTypeCorrect == Spec => []TypeOK
<1>1. AccInv => TypeOK
  BY DEF AccInv
<1> QED
  BY <1>1, AccInvariance, PTL

\* Never two opening balances in effect, for any number of concurrent requests
\* that record or reverse one: the partial unique index is enough.
THEOREM OpeningIsUnique == Spec => []OneActiveOpening
<1>1. AccInv => OneActiveOpening
  BY DEF AccInv
<1> QED
  BY <1>1, AccInvariance, PTL

\* Every entry balances, whatever lines clients send.
THEOREM JournalBalances == Spec => []EntriesBalance
<1>1. AccInv => EntriesBalance
  BY DEF AccInv
<1> QED
  BY <1>1, AccInvariance, PTL

\* No reversing entry is ever reversed: findActive leaves them out.
THEOREM ReversalsStand == Spec => []OnlyOriginalsReversed
<1>1. AccInv => OnlyOriginalsReversed
  BY DEF AccInv
<1> QED
  BY <1>1, AccInvariance, PTL

\* What is posted stands: it balances and no reversal is undone.
THEOREM PostedStands == Spec => []EntriesStand
  BY JournalBalances, ReversalsStand, PTL DEF EntriesStand

\* Entries are only appended and marked.
THEOREM OpeningsOnlyGrow == Spec => HistoryKept
  BY AccInvariance, StepAcc, PTL DEF Spec, HistoryKept

-----------------------------------------------------------------------------
(***************************************************************************)
(* Reports.  First what the reports of one state have in common, whatever  *)
(* the state: then that a reader keeps it until the books move.            *)
(***************************************************************************)

\* Entries of the other services balance and keep off each other's control
\* accounts, and those of yesterday are still there.
OtherOK ==
    /\ other \in Seq(OtherEntry)
    /\ \A i \in 1..Len(other) : Balanced(other[i].lines) /\ KeepsControl(other[i])
    /\ Len(other) >= Len(Before)

\* The books of a state that reports can be read from.
BooksOK == TypeOK /\ EntriesBalance /\ OtherOK

\* Every key names an entry.
LEMMA KeyFacts ==
  ASSUME BooksOK
  PROVE  /\ IsFiniteSet(Keys)
         /\ \A k \in Keys : EntryAt(k).lines \in Lines /\ Balanced(EntryAt(k).lines)
         /\ \A k \in Keys : k[1] = "other" => /\ EntryAt(k) \in OtherEntry
                                              /\ EntryAt(k).ref \in Document
                                              /\ KeepsControl(EntryAt(k))
                                              /\ BranchOf(k) = EntryAt(k).ref.branch
         /\ \A k \in Keys : k[1] = "other" \/ (k[1] = "opening" /\ k \in OpeningKeys)
<1>1. /\ journal \in Seq(OpeningEntry) /\ other \in Seq(OtherEntry)
      /\ Len(journal) \in Nat /\ Len(other) \in Nat
  BY DEF BooksOK, TypeOK, OtherOK
<1>2. IsFiniteSet(Keys)
  <2>1. IsFiniteSet({"opening"}) /\ IsFiniteSet({"other"})
    BY FS_Singleton
  <2>2. IsFiniteSet(1..Len(journal)) /\ IsFiniteSet(1..Len(other))
    BY <1>1, FS_Interval
  <2>3. IsFiniteSet(OpeningKeys) /\ IsFiniteSet({"other"} \X (1..Len(other)))
    BY <2>1, <2>2, FS_Product DEF OpeningKeys
  <2> QED
    BY <2>3, FS_Union DEF Keys
<1>3. ASSUME NEW k \in OpeningKeys
      PROVE  k[1] = "opening" /\ EntryAt(k).lines \in Lines /\ Balanced(EntryAt(k).lines)
  <2>1. k[1] = "opening" /\ k[2] \in 1..Len(journal)
    BY DEF OpeningKeys
  <2>2. journal[k[2]] \in OpeningEntry /\ Balanced(journal[k[2]].lines)
    BY <1>1, <2>1 DEF BooksOK, EntriesBalance
  <2> QED
    BY <2>1, <2>2 DEF EntryAt, OpeningEntry, EntryOf
<1>4. ASSUME NEW k \in {"other"} \X (1..Len(other))
      PROVE  /\ k[1] = "other" /\ EntryAt(k).lines \in Lines /\ Balanced(EntryAt(k).lines)
             /\ EntryAt(k) \in OtherEntry /\ EntryAt(k).ref \in Document
             /\ KeepsControl(EntryAt(k)) /\ BranchOf(k) = EntryAt(k).ref.branch
  <2>1. k[1] = "other" /\ k[2] \in 1..Len(other)
    OBVIOUS
  <2>2. other[k[2]] \in OtherEntry /\ Balanced(other[k[2]].lines) /\ KeepsControl(other[k[2]])
    BY <1>1, <2>1 DEF BooksOK, OtherOK
  <2>3. EntryAt(k) = other[k[2]] /\ BranchOf(k) = other[k[2]].ref.branch
    BY <2>1 DEF EntryAt, BranchOf
  <2> QED
    BY <2>1, <2>2, <2>3 DEF OtherEntry, EntryOf
<1> QED
  BY <1>2, <1>3, <1>4 DEF Keys

\* A report reads entries.
LEMMA VisibleKeys == \A s, f, t : Visible(s, f, t) \subseteq Keys
  BY DEF Visible

\* What an account moves by over some entries: a number, nothing where no entry
\* moves it, and the sum of its parts.
LEMMA BalanceFacts ==
  ASSUME BooksOK, NEW a \in Account
  PROVE  /\ \A ks \in SUBSET Keys : IsFiniteSet(ks) /\ BalanceOf(a, ks) \in Int
         /\ \A ks \in SUBSET Keys :
               (\A k \in ks : EntryAt(k).lines[a] = 0) => BalanceOf(a, ks) = 0
         /\ \A ks, ls \in SUBSET Keys :
               ks \cap ls = {} => BalanceOf(a, ks \cup ls) = BalanceOf(a, ks) + BalanceOf(a, ls)
         /\ \A ks \in SUBSET Keys, k \in Keys :
               k \notin ks => BalanceOf(a, ks \cup {k}) = EntryAt(k).lines[a] + BalanceOf(a, ks)
<1> DEFINE w == [k \in Keys |-> EntryAt(k).lines[a]]
<1>1. \A k \in Keys : w[k] = EntryAt(k).lines[a] /\ w[k] \in Int
  BY KeyFacts DEF Lines
<1>2. \A ks : BalanceOf(a, ks) = SumFunctionOnSet(w, ks)
  BY DEF BalanceOf
<1> HIDE DEF w
<1>3. \A ks \in SUBSET Keys : IsFiniteSet(ks) /\ (\A k \in ks : w[k] \in Int)
  BY <1>1, KeyFacts, FS_Subset
<1>4. \A ks \in SUBSET Keys : SumFunctionOnSet(w, ks) \in Int
  BY <1>3, SumInt
<1>5. \A ks \in SUBSET Keys :
        (\A k \in ks : EntryAt(k).lines[a] = 0) => SumFunctionOnSet(w, ks) = 0
  BY <1>1, <1>3, SumZero
<1>6. \A ks, ls \in SUBSET Keys : ks \cap ls = {} =>
        SumFunctionOnSet(w, ks \cup ls) = SumFunctionOnSet(w, ks) + SumFunctionOnSet(w, ls)
  BY <1>3, SumJoin
<1>7. \A ks \in SUBSET Keys, k \in Keys : k \notin ks =>
        SumFunctionOnSet(w, ks \cup {k}) = w[k] + SumFunctionOnSet(w, ks)
  BY <1>1, <1>3, SumAdd
<1> QED
  BY <1>1, <1>2, <1>3, <1>4, <1>5, <1>6, <1>7

\* The sum over the accounts of a balance sheet, and over those of the profit.
LEMMA AccountsAddUp ==
  ASSUME NEW f, \A a \in Account : f[a] \in Int
  PROVE  /\ SumFunctionOnSet(f, SheetAccounts)
               = f["cash"] + f["ar"] + f["inventory"] + f["vat"] + f["ap"] + f["equity"]
         /\ SumFunctionOnSet(f, ProfitAccounts)
               = f["revenue"] + f["cogs"] + f["adjustment"] + f["expense"]
<1> DEFINE Sum(S) == SumFunctionOnSet(f, S)
<1>1. ASSUME NEW S \in SUBSET Account, NEW x \in Account, IsFiniteSet(S), x \notin S
      PROVE  IsFiniteSet(S \cup {x}) /\ Sum(S \cup {x}) = f[x] + Sum(S)
  <2>1. (\A y \in S : f[y] \in Int) /\ f[x] \in Int
    OBVIOUS
  <2> QED
    BY <1>1, <2>1, SumAdd, FS_AddElement
<1>2. IsFiniteSet({}) /\ Sum({}) = 0
  BY FS_EmptySet, SumStep
<1> HIDE DEF Sum
<1>3. \A a \in Account : f[a] \in Int
  OBVIOUS
<1>4. Sum(SheetAccounts)
        = f["cash"] + f["ar"] + f["inventory"] + f["vat"] + f["ap"] + f["equity"]
  <2>1. IsFiniteSet({"cash"}) /\ Sum({"cash"}) = f["cash"]
    <3>1. IsFiniteSet({} \cup {"cash"}) /\ Sum({} \cup {"cash"}) = f["cash"] + Sum({})
      BY <1>1, <1>2 DEF Account
    <3>2. {} \cup {"cash"} = {"cash"} /\ f["cash"] \in Int
      BY <1>3 DEF Account
    <3> QED
      BY <1>2, <3>1, <3>2
  <2>2. IsFiniteSet({"cash", "ar"}) /\ Sum({"cash", "ar"}) = f["ar"] + f["cash"]
    <3>1. {"cash"} \cup {"ar"} = {"cash", "ar"}
      OBVIOUS
    <3> QED
      BY <1>1, <2>1, <3>1 DEF Account
  <2>3. /\ IsFiniteSet({"cash", "ar", "inventory"})
        /\ Sum({"cash", "ar", "inventory"}) = f["inventory"] + (f["ar"] + f["cash"])
    <3>1. {"cash", "ar"} \cup {"inventory"} = {"cash", "ar", "inventory"}
      OBVIOUS
    <3> QED
      BY <1>1, <2>2, <3>1 DEF Account
  <2>4. /\ IsFiniteSet({"cash", "ar", "inventory", "vat"})
        /\ Sum({"cash", "ar", "inventory", "vat"})
             = f["vat"] + (f["inventory"] + (f["ar"] + f["cash"]))
    <3>1. {"cash", "ar", "inventory"} \cup {"vat"} = {"cash", "ar", "inventory", "vat"}
      OBVIOUS
    <3> QED
      BY <1>1, <2>3, <3>1 DEF Account
  <2>5. /\ IsFiniteSet({"cash", "ar", "inventory", "vat", "ap"})
        /\ Sum({"cash", "ar", "inventory", "vat", "ap"})
             = f["ap"] + (f["vat"] + (f["inventory"] + (f["ar"] + f["cash"])))
    <3>1. {"cash", "ar", "inventory", "vat"} \cup {"ap"} = {"cash", "ar", "inventory", "vat", "ap"}
      OBVIOUS
    <3> QED
      BY <1>1, <2>4, <3>1 DEF Account
  <2>6. Sum(SheetAccounts)
          = f["equity"] + (f["ap"] + (f["vat"] + (f["inventory"] + (f["ar"] + f["cash"]))))
    <3>1. {"cash", "ar", "inventory", "vat", "ap"} \cup {"equity"} = SheetAccounts
      BY DEF SheetAccounts
    <3> QED
      BY <1>1, <2>5, <3>1 DEF Account
  <2> QED
    BY <1>3, <2>6 DEF Account
<1>5. Sum(ProfitAccounts) = f["revenue"] + f["cogs"] + f["adjustment"] + f["expense"]
  <2>1. IsFiniteSet({"revenue"}) /\ Sum({"revenue"}) = f["revenue"]
    <3>1. IsFiniteSet({} \cup {"revenue"}) /\ Sum({} \cup {"revenue"}) = f["revenue"] + Sum({})
      BY <1>1, <1>2 DEF Account
    <3>2. {} \cup {"revenue"} = {"revenue"} /\ f["revenue"] \in Int
      BY <1>3 DEF Account
    <3> QED
      BY <1>2, <3>1, <3>2
  <2>2. IsFiniteSet({"revenue", "cogs"}) /\ Sum({"revenue", "cogs"}) = f["cogs"] + f["revenue"]
    <3>1. {"revenue"} \cup {"cogs"} = {"revenue", "cogs"}
      OBVIOUS
    <3> QED
      BY <1>1, <2>1, <3>1 DEF Account
  <2>3. /\ IsFiniteSet({"revenue", "cogs", "adjustment"})
        /\ Sum({"revenue", "cogs", "adjustment"}) = f["adjustment"] + (f["cogs"] + f["revenue"])
    <3>1. {"revenue", "cogs"} \cup {"adjustment"} = {"revenue", "cogs", "adjustment"}
      OBVIOUS
    <3> QED
      BY <1>1, <2>2, <3>1 DEF Account
  <2>4. Sum(ProfitAccounts) = f["expense"] + (f["adjustment"] + (f["cogs"] + f["revenue"]))
    <3>1. {"revenue", "cogs", "adjustment"} \cup {"expense"} = ProfitAccounts
      BY DEF ProfitAccounts
    <3> QED
      BY <1>1, <2>3, <3>1 DEF Account
  <2> QED
    BY <1>3, <2>4 DEF Account
<1> QED
  BY <1>4, <1>5 DEF Sum

\* The entries a report sees balance together, so what the accounts of a balance
\* sheet add up to is the profit.
LEMMA SheetBooks ==
  ASSUME BooksOK, NEW ks \in SUBSET Keys
  PROVE  /\ TotalOf(SheetAccounts, ks) \in Int
         /\ TotalOf(SheetAccounts, ks) = -TotalOf(ProfitAccounts, ks)
<1> DEFINE B(a, s) == BalanceOf(a, s)
           Net(s) == B("cash", s) + B("ar", s) + B("ap", s) + B("revenue", s) + B("cogs", s)
                     + B("inventory", s) + B("adjustment", s) + B("expense", s)
                     + B("equity", s) + B("vat", s)
           Wrong == {s \in SUBSET ks : Net(s) # 0}
<1>1. \A a \in Account, s \in SUBSET Keys : B(a, s) \in Int
  BY BalanceFacts
<1>2. \A a \in Account : B(a, {}) = 0
  <2>1. {} \in SUBSET Keys
    OBVIOUS
  <2> QED
    BY <2>1, BalanceFacts
<1>3. \A a \in Account, s \in SUBSET Keys, k \in Keys :
        k \notin s => B(a, s \cup {k}) = EntryAt(k).lines[a] + B(a, s)
  BY BalanceFacts
<1> HIDE DEF B
<1>4. Wrong = {}
  <2> SUFFICES ASSUME Wrong # {} PROVE FALSE
    OBVIOUS
  <2>1. PICK s \in Wrong : \A y \in Wrong : y \subseteq s => y = s
    <3>1. Wrong \subseteq SUBSET ks
      OBVIOUS
    <3>2. IsFiniteSet(ks)
      BY KeyFacts, FS_Subset
    <3> HIDE DEF Wrong
    <3> QED
      BY <3>1, <3>2, LeastSet
  <2>2. CASE s = {}
    BY <1>2, <2>1, <2>2 DEF Account
  <2>3. CASE s # {}
    <3>1. PICK k \in s : TRUE
      BY <2>3
    <3> DEFINE r == s \ {k}
               l == EntryAt(k).lines
    <3>2. r \in SUBSET Keys /\ k \in Keys /\ k \notin r /\ s = r \cup {k} /\ r \notin Wrong
          /\ r \in SUBSET ks
      BY <2>1
    <3>3. l \in Lines /\ Balanced(l)
      BY <3>2, KeyFacts
    <3> HIDE DEF r, l
    <3>4. Net(r) = 0
      BY <3>2
    <3>5. \A a \in Account : B(a, s) = l[a] + B(a, r) /\ B(a, r) \in Int /\ l[a] \in Int
      <4>1. \A a \in Account : B(a, r \cup {k}) = l[a] + B(a, r)
        BY <1>3, <3>2 DEF l
      <4>2. \A a \in Account : B(a, r) \in Int
        BY <1>1, <3>2
      <4>3. \A a \in Account : l[a] \in Int
        BY <3>3 DEF Lines
      <4> QED
        BY <3>2, <4>1, <4>2, <4>3
    <3>6. Net(s) = NetOf(l) + Net(r)
      BY <3>5 DEF NetOf, Account
    <3> QED
      BY <2>1, <3>3, <3>4, <3>6 DEF Balanced
  <2> QED
    BY <2>2, <2>3
<1>5. Net(ks) = 0
  BY <1>4
<1> DEFINE f == [a \in Account |-> BalanceOf(a, ks)]
<1>6. \A a \in Account : f[a] = B(a, ks) /\ f[a] \in Int
  BY <1>1 DEF B
<1>7. \A as : TotalOf(as, ks) = SumFunctionOnSet(f, as)
  BY DEF TotalOf
<1> HIDE DEF f
<1>8. /\ TotalOf(SheetAccounts, ks)
           = f["cash"] + f["ar"] + f["inventory"] + f["vat"] + f["ap"] + f["equity"]
      /\ TotalOf(ProfitAccounts, ks)
           = f["revenue"] + f["cogs"] + f["adjustment"] + f["expense"]
  BY <1>6, <1>7, AccountsAddUp
<1> HIDE DEF Wrong
<1>9. /\ f["cash"] = B("cash", ks) /\ f["ar"] = B("ar", ks) /\ f["ap"] = B("ap", ks)
      /\ f["revenue"] = B("revenue", ks) /\ f["cogs"] = B("cogs", ks)
      /\ f["inventory"] = B("inventory", ks) /\ f["adjustment"] = B("adjustment", ks)
      /\ f["expense"] = B("expense", ks) /\ f["equity"] = B("equity", ks)
      /\ f["vat"] = B("vat", ks)
  BY <1>6 DEF Account
<1>10. /\ f["cash"] \in Int /\ f["ar"] \in Int /\ f["ap"] \in Int /\ f["revenue"] \in Int
       /\ f["cogs"] \in Int /\ f["inventory"] \in Int /\ f["adjustment"] \in Int
       /\ f["expense"] \in Int /\ f["equity"] \in Int /\ f["vat"] \in Int
  BY <1>6 DEF Account
<1> QED
  BY <1>5, <1>8, <1>9, <1>10

\* Two days are seen together as one after the other.
LEMMA TwoDays ==
  ASSUME BooksOK, NEW s
  PROVE  /\ Visible(s, Yesterday, Today)
              = Visible(s, Yesterday, Yesterday) \cup Visible(s, Today, Today)
         /\ Visible(s, Yesterday, Yesterday) \cap Visible(s, Today, Today) = {}
<1>1. \A k : DayOf(k) \in {Yesterday, Today}
  BY DEF DayOf
<1>2. Yesterday = Today - 1 /\ Today \in Int
  BY AccountingAssumption DEF Yesterday
<1>3. \A d \in {Yesterday, Today} :
        /\ Yesterday <= d /\ d <= Today
        /\ (Yesterday <= d /\ d <= Yesterday) <=> d = Yesterday
        /\ (Today <= d /\ d <= Today) <=> d = Today
  BY <1>2
<1>4. Yesterday # Today
  BY <1>2
<1> HIDE DEF Yesterday
<1> QED
  BY <1>1, <1>3, <1>4 DEF Visible

\* The ledger of a range is what was there before, then its lines.
LEMMA LedgerBooks ==
  ASSUME BooksOK, NEW s, NEW a \in Account
  PROVE  BalanceOf(a, Visible(s, Yesterday, Yesterday)) + BalanceOf(a, Visible(s, Today, Today))
           = TrialRow(a, s, Yesterday, Today)
<1>1. /\ Visible(s, Yesterday, Yesterday) \in SUBSET Keys
      /\ Visible(s, Today, Today) \in SUBSET Keys
  BY VisibleKeys
<1>2. BalanceOf(a, Visible(s, Yesterday, Yesterday) \cup Visible(s, Today, Today))
        = BalanceOf(a, Visible(s, Yesterday, Yesterday)) + BalanceOf(a, Visible(s, Today, Today))
  BY <1>1, TwoDays, BalanceFacts
<1> QED
  BY <1>2, TwoDays DEF TrialRow

\* The lines of the documents of a party are the lines of its documents.
LEMMA StatementBooks ==
  ASSUME BooksOK, NEW s, NEW p, NEW type
  PROVE  StatementBalance(type, DocumentsOf(p), s) = PartyBalance(type, p, s)
<1>1. ASSUME NEW k \in DocumentKeys(type, s)
      PROVE  EntryAt(k).ref \in DocumentsOf(p) <=> EntryAt(k).ref.party = p
  <2>1. k \in {"other"} \X (1..Len(other)) /\ EntryAt(k) = other[k[2]]
    BY DEF DocumentKeys, Visible, Keys, OpeningKeys, EntryAt
  <2>2. k[2] \in 1..Len(other)
    BY <2>1
  <2> QED
    BY <2>1, <2>2 DEF DocumentsOf
<1>2. {k \in DocumentKeys(type, s) : EntryAt(k).ref \in DocumentsOf(p)}
        = {k \in DocumentKeys(type, s) : EntryAt(k).ref.party = p}
  BY <1>1
<1> QED
  BY <1>2 DEF StatementBalance, PartyBalance

\* The parties' balances add up to the control account less the opening balance:
\* every other entry that moves it is of a document of its type.
LEMMA TieOutBooks ==
  ASSUME BooksOK, NEW s, NEW type \in {"Sale", "Purchase"}
  PROVE  SumFunction([p \in Party |-> PartyBalance(type, p, s)])
           = TrialRow(ControlOf(type), s, Yesterday, Today)
             - BalanceOf(ControlOf(type), Visible(s, Today, Today) \cap OpeningKeys)
<1> DEFINE a == ControlOf(type)
           V == Visible(s, Yesterday, Today)
           D == DocumentKeys(type, s)
           O == Visible(s, Today, Today) \cap OpeningKeys
           R == V \ (D \cup O)
<1>1. a \in Account
  BY DEF ControlOf, Account
<1>2. V \in SUBSET Keys /\ D \in SUBSET Keys /\ O \in SUBSET Keys /\ R \in SUBSET Keys
  BY VisibleKeys DEF DocumentKeys
<1>3. D \cap O = {} /\ V = (D \cup O) \cup R /\ (D \cup O) \cap R = {}
  <2>1. D \subseteq V /\ O \subseteq V
    BY TwoDays DEF DocumentKeys
  <2>2. \A k \in D : k[1] = "other"
    BY DEF DocumentKeys
  <2>3. \A k \in O : k[1] = "opening"
    BY DEF OpeningKeys
  <2> HIDE DEF V, D, O
  <2> QED
    BY <2>1, <2>2, <2>3
<1>4. \A k \in R : EntryAt(k).lines[a] = 0
  <2> SUFFICES ASSUME NEW k \in R PROVE EntryAt(k).lines[a] = 0
    OBVIOUS
  <2>1. k \in Keys /\ k \in V /\ k \notin D /\ k \notin O
    BY <1>2
  <2>2. CASE k[1] = "other"
    <3>1. EntryAt(k).ref.type # type /\ KeepsControl(EntryAt(k))
      BY <2>1, <2>2, KeyFacts DEF DocumentKeys
    <3> QED
      BY <3>1 DEF KeepsControl, ControlOf
  <2>3. CASE k[1] # "other"
    <3>1. k \in OpeningKeys /\ DayOf(k) = Today
      BY <2>1, <2>3, KeyFacts DEF DayOf
    <3>2. Today <= Today
      BY AccountingAssumption
    <3>3. k \in Visible(s, Today, Today)
      BY <2>1, <3>1, <3>2 DEF Visible
    <3> QED
      BY <2>1, <3>1, <3>3
  <2> QED
    BY <2>2, <2>3
<1>5. SumFunction([p \in Party |-> PartyBalance(type, p, s)]) = BalanceOf(a, D)
  <2> DEFINE w == [k \in Keys |-> EntryAt(k).lines[a]]
             f == [k \in Keys |-> EntryAt(k).ref.party]
             v == [p \in Party |-> PartyBalance(type, p, s)]
             part == [p \in Party |-> {k \in D : f[k] = p}]
  <2>1. IsFiniteSet(D) /\ IsFiniteSet(Party)
    BY <1>2, KeyFacts, FS_Subset, ReportsAssumption
  <2>2. \A k \in D : w[k] \in Int
    BY <1>1, <1>2, KeyFacts DEF Lines
  <2>3. \A k \in D : f[k] = EntryAt(k).ref.party /\ f[k] \in Party
    <3>1. \A k \in D : k \in Keys /\ k[1] = "other"
      BY <1>2 DEF DocumentKeys
    <3>2. \A k \in D : EntryAt(k).ref \in Document
      BY <3>1, KeyFacts
    <3> QED
      BY <3>1, <3>2 DEF Document
  <2>4. ASSUME NEW p \in Party
        PROVE  /\ v[p] = SumFunctionOnSet(w, part[p])
               /\ part[p] \subseteq D /\ \A k \in D : k \in part[p] <=> f[k] = p
    <3>1. {k \in D : EntryAt(k).ref.party = p} = {k \in D : f[k] = p}
      BY <2>3
    <3>2. v[p] = BalanceOf(a, {k \in D : EntryAt(k).ref.party = p})
      BY DEF PartyBalance
    <3> QED
      BY <3>1, <3>2 DEF BalanceOf
  <2>5. BalanceOf(a, D) = SumFunctionOnSet(w, D)
    BY DEF BalanceOf
  <2>6. SumFunction(v) = SumFunctionOnSet(v, Party)
    BY DEF SumFunction
  <2> HIDE DEF w, f, v, part, D
  <2>7. SumFunctionOnSet(v, Party) = SumFunctionOnSet(w, D)
    BY <2>1, <2>2, <2>3, <2>4, SumFibres
  <2> QED
    BY <2>5, <2>6, <2>7 DEF v
<1> HIDE DEF V, D, O, R, a
<1>6. BalanceOf(a, D \cup O) = BalanceOf(a, D) + BalanceOf(a, O)
  BY <1>1, <1>2, <1>3, BalanceFacts
<1>7. BalanceOf(a, (D \cup O) \cup R) = BalanceOf(a, D \cup O) + BalanceOf(a, R)
  <2>1. D \cup O \in SUBSET Keys
    BY <1>2
  <2> QED
    BY <1>1, <1>2, <1>3, <2>1, BalanceFacts
<1>8. BalanceOf(a, R) = 0
  BY <1>1, <1>2, <1>4, BalanceFacts
<1>9. BalanceOf(a, D) \in Int /\ BalanceOf(a, O) \in Int
  BY <1>1, <1>2, BalanceFacts
<1>10. BalanceOf(a, V) = BalanceOf(a, D) + BalanceOf(a, O)
  BY <1>3, <1>6, <1>7, <1>8, <1>9
<1> QED
  BY <1>5, <1>9, <1>10 DEF a, V, O, TrialRow

-----------------------------------------------------------------------------
(***************************************************************************)
(* Readers.  What a reader holds was true of the books when it was read,   *)
(* and stays true until a transaction commits; the book balance of a day   *)
(* that is over stays true until an entry of that day is reversed.         *)
(***************************************************************************)
SheetHeld ==
    \A s, f, t :
        (/\ report.op = "sheet" /\ ~report.moved
         /\ report.scope = s /\ report.from = f /\ report.to = t) =>
            report.first = NetProfit(s, f, t)

LinesOfToday(s, a) == BalanceOf(a, Visible(s, Today, Today))

LedgerHeld ==
    \A s, a :
        (/\ report.op = "ledger" /\ ~report.moved
         /\ report.scope = s /\ report.of = a) =>
            report.first + LinesOfToday(s, a) = TrialRow(a, s, Yesterday, Today)

StatementHeld ==
    \A s, p, d :
        (/\ report.op = "statement" /\ ~report.moved
         /\ report.scope = s /\ report.of = p /\ report.docs = d) =>
            \A type \in {"Sale", "Purchase"} :
                StatementBalance(type, d, s) = PartyBalance(type, p, s)

YesterdayStands == \A i \in 1..Len(Before) : other[i].status = "posted"

Book == BalanceOf("cash", Visible(Branch, Yesterday, Yesterday))

BookHeld ==
    YesterdayStands =>
        /\ \A r \in reconciled : r.to = Yesterday => r.book = Book
        /\ (report.op = "reconcile" /\ report.to = Yesterday) => report.first = Book

\* The inductive invariant of the readers.
RepInv ==
    /\ AccInv
    /\ OtherOK
    /\ report \in Reader /\ reconciled \subseteq Reconciliation
    /\ SheetHeld /\ LedgerHeld /\ StatementHeld /\ BookHeld

\* Books that do not move show the same reports.
LEMMA BooksStay ==
  ASSUME journal' = journal, other' = other
  PROVE  /\ \A s, f, t : NetProfit(s, f, t)' = NetProfit(s, f, t)
         /\ \A s, a : LinesOfToday(s, a)' = LinesOfToday(s, a)
         /\ \A a, s, f, t : TrialRow(a, s, f, t)' = TrialRow(a, s, f, t)
         /\ \A type, d, s : StatementBalance(type, d, s)' = StatementBalance(type, d, s)
         /\ \A type, p, s : PartyBalance(type, p, s)' = PartyBalance(type, p, s)
         /\ (YesterdayStands' <=> YesterdayStands) /\ Book' = Book
<1>1. Keys' = Keys
  BY DEF Keys, OpeningKeys
<1>2. /\ \A k : EntryAt(k)' = EntryAt(k)
      /\ \A k : DayOf(k)' = DayOf(k)
      /\ \A k : BranchOf(k)' = BranchOf(k)
  BY DEF EntryAt, DayOf, BranchOf
<1>3. \A s, f, t : Visible(s, f, t)' = Visible(s, f, t)
  BY <1>1, <1>2 DEF Visible
<1>4. \A a, ks : BalanceOf(a, ks)' = BalanceOf(a, ks)
  BY <1>1, <1>2 DEF BalanceOf
<1>5. \A as, ks : TotalOf(as, ks)' = TotalOf(as, ks)
  BY <1>4 DEF TotalOf
<1>6. \A type, s : DocumentKeys(type, s)' = DocumentKeys(type, s)
  BY <1>2, <1>3 DEF DocumentKeys
<1>7. /\ \A s, f, t : NetProfit(s, f, t)' = NetProfit(s, f, t)
      /\ \A s, a : LinesOfToday(s, a)' = LinesOfToday(s, a)
      /\ \A a, s, f, t : TrialRow(a, s, f, t)' = TrialRow(a, s, f, t)
      /\ Book' = Book
  BY <1>3, <1>4, <1>5 DEF NetProfit, LinesOfToday, TrialRow, Book
<1>8. ASSUME NEW type, NEW s
      PROVE  /\ \A d : StatementBalance(type, d, s)' = StatementBalance(type, d, s)
             /\ \A p : PartyBalance(type, p, s)' = PartyBalance(type, p, s)
  <2>1. \A d : {k \in DocumentKeys(type, s) : EntryAt(k).ref \in d}'
                 = {k \in DocumentKeys(type, s) : EntryAt(k).ref \in d}
    BY <1>2, <1>6
  <2>2. \A p : {k \in DocumentKeys(type, s) : EntryAt(k).ref.party = p}'
                 = {k \in DocumentKeys(type, s) : EntryAt(k).ref.party = p}
    BY <1>2, <1>6
  <2> QED
    BY <1>4, <2>1, <2>2 DEF StatementBalance, PartyBalance
<1> QED
  BY <1>7, <1>8 DEF YesterdayStands

\* A reader that is under way notices that the books moved, or they did not.
LEMMA NoticedFacts ==
  ASSUME report \in Reader, Noticed
  PROVE  /\ report' \in Reader /\ report'.op = report.op /\ report'.to = report.to
         /\ report'.first = report.first
         /\ \/ report'.op = "none" \/ report'.moved
            \/ report' = report /\ journal' = journal /\ other' = other
<1>1. CASE report.op = "none"
  BY <1>1 DEF Noticed
<1>2. CASE report.op # "none"
  <2>1. report' = [report EXCEPT !.moved = @ \/ <<journal', other'>> # <<journal, other>>]
    BY <1>2 DEF Noticed
  <2>2. CASE report.moved \/ <<journal', other'>> # <<journal, other>>
    <3>1. report' = [report EXCEPT !.moved = TRUE]
      BY <2>1, <2>2 DEF Reader
    <3> QED
      BY <3>1 DEF Reader
  <2>3. CASE ~ (report.moved \/ <<journal', other'>> # <<journal, other>>)
    <3>1. report' = [report EXCEPT !.moved = FALSE] /\ report.moved = FALSE
      BY <2>1, <2>3 DEF Reader
    <3>2. report' = report
      BY <3>1 DEF Reader
    <3> QED
      BY <2>3, <3>2
  <2> QED
    BY <2>2, <2>3
<1> QED
  BY <1>1, <1>2

\* Another service posts or reverses: its entries stay in order, and of those
\* that are there nothing changes but posted into reversed.
LEMMA OtherStep ==
  ASSUME OtherOK, PostOther \/ ReverseOther
  PROVE  OtherOK' /\ Continues(other, other')
<1>1. other \in Seq(OtherEntry) /\ Len(other) \in Nat /\ Len(Before) \in Nat
  BY ReportsAssumption DEF OtherOK
<1>2. CASE PostOther
  <2>1. PICK p \in Postings :
          Postable(p.lines) /\ other' = PostEntry(other, p.ref, p.kind, p.lines)
    BY <1>2 DEF PostOther, Write
  <2>2. /\ p.ref \in Document /\ p.kind \in {"document", "payment"} /\ p.lines \in Lines
        /\ Balanced(p.lines) /\ KeepsControl(p)
    BY <2>1, ReportsAssumption DEF Postable
  <2>3. other' \in Seq(OtherEntry)
    BY <1>1, <2>1, <2>2, PostEntryType DEF OtherEntry
  <2> DEFINE n == Len(other) + 1
  <2>4. /\ Len(other') = n /\ \A i \in 1..Len(other) : other'[i] = other[i]
        /\ other'[n].lines = p.lines /\ other'[n].ref = p.ref
    BY <1>1, <2>1 DEF PostEntry, Entry
  <2>5. KeepsControl(other'[n]) /\ Balanced(other'[n].lines)
    BY <2>2, <2>4 DEF KeepsControl
  <2>6. \A i \in 1..Len(other') : i = n \/ i \in 1..Len(other)
    BY <1>1, <2>4
  <2>7. \A i \in 1..Len(other') : Balanced(other'[i].lines) /\ KeepsControl(other'[i])
    BY <2>4, <2>5, <2>6 DEF OtherOK
  <2> QED
    BY <1>1, <2>3, <2>4, <2>7 DEF OtherOK, Continues
<1>3. CASE ReverseOther
  <2>1. PICK i \in 1..Len(other) : other' = ReverseEntry(other, i)
    BY <1>3 DEF ReverseOther, Write
  <2>2. other' \in Seq(OtherEntry) /\ Continues(other, other')
    BY <1>1, <2>1, ReverseEntryType, ReverseEntryContinues DEF OtherEntry
  <2> DEFINE n == Len(other) + 1
  <2>3. \A k \in 1..Len(other) : other[k] \in OtherEntry
    BY <1>1
  <2>4. /\ Len(other') = n
        /\ \A k \in 1..Len(other) : other'[k].lines = other[k].lines /\ other'[k].ref = other[k].ref
        /\ other'[n].lines = SwapLines(other[i].lines) /\ other'[n].ref = other[i].ref
    BY <1>1, <2>1, <2>3 DEF ReverseEntry, Reversal, OtherEntry, EntryOf
  <2>5. other[i].lines \in Lines /\ Balanced(other[i].lines) /\ KeepsControl(other[i])
    BY <2>3 DEF OtherOK, OtherEntry, EntryOf
  <2>6. KeepsControl(other'[n]) /\ Balanced(other'[n].lines)
    <3>1. Balanced(SwapLines(other[i].lines))
      BY <2>5, SwapLinesBalanced
    <3>2. \A a \in {"ar", "ap"} : other[i].lines[a] = 0 => SwapLines(other[i].lines)[a] = 0
      BY DEF SwapLines, Account
    <3> QED
      BY <2>4, <2>5, <3>1, <3>2 DEF KeepsControl
  <2>7. \A k \in 1..Len(other') : k = n \/ k \in 1..Len(other)
    BY <1>1, <2>4
  <2>8. \A k \in 1..Len(other') : Balanced(other'[k].lines) /\ KeepsControl(other'[k])
    <3>1. \A k \in 1..Len(other) : Balanced(other'[k].lines) /\ KeepsControl(other'[k])
      BY <2>4 DEF OtherOK, KeepsControl
    <3> QED
      BY <2>6, <2>7, <3>1
  <2> QED
    BY <1>1, <2>2, <2>4, <2>8 DEF OtherOK
<1> QED
  BY <1>2, <1>3

\* The entries of yesterday, while none of them is reversed.
LEMMA YesterdayKeys ==
  ASSUME OtherOK, YesterdayStands
  PROVE  Visible(Branch, Yesterday, Yesterday) = {"other"} \X (1..Len(Before))
<1>1. /\ Len(other) \in Nat /\ Len(Before) \in Nat /\ Len(Before) <= Len(other)
      /\ \A i \in 1..Len(other) : other[i] \in OtherEntry
  BY ReportsAssumption DEF OtherOK
<1>2. Yesterday <= Yesterday /\ Yesterday # Today /\ ~ (Today <= Yesterday)
  BY AccountingAssumption DEF Yesterday
<1> HIDE DEF Yesterday
<1>3. \A k \in OpeningKeys : k \notin Visible(Branch, Yesterday, Yesterday)
  BY <1>2 DEF OpeningKeys, Visible, DayOf
<1>4. ASSUME NEW i \in 1..Len(other)
      PROVE  <<"other", i>> \in Visible(Branch, Yesterday, Yesterday) <=> i \in 1..Len(Before)
  <2>1. other[i].ref.branch \in Branch
    BY <1>1 DEF OtherEntry, EntryOf, Document
  <2>2. /\ <<"other", i>> \in Keys /\ EntryAt(<<"other", i>>) = other[i]
        /\ BranchOf(<<"other", i>>) = other[i].ref.branch
        /\ DayOf(<<"other", i>>) = IF i <= Len(Before) THEN Yesterday ELSE Today
    BY DEF Keys, EntryAt, BranchOf, DayOf
  <2> QED
    BY <1>1, <1>2, <2>1, <2>2 DEF Visible, YesterdayStands
<1>5. \A k \in Visible(Branch, Yesterday, Yesterday) : k \in {"other"} \X (1..Len(other))
  BY <1>3 DEF Visible, Keys
<1> QED
  BY <1>1, <1>4, <1>5

\* The same one step later.
LEMMA YesterdayKeysNext ==
  ASSUME OtherOK', YesterdayStands'
  PROVE  Visible(Branch, Yesterday, Yesterday)' = {"other"} \X (1..Len(Before))
<1>1. /\ Len(other') \in Nat /\ Len(Before) \in Nat /\ Len(Before) <= Len(other')
      /\ \A i \in 1..Len(other') : other'[i] \in OtherEntry
  BY ReportsAssumption DEF OtherOK
<1>2. Yesterday <= Yesterday /\ Yesterday # Today /\ ~ (Today <= Yesterday)
  BY AccountingAssumption DEF Yesterday
<1> HIDE DEF Yesterday
<1>3. \A k \in OpeningKeys' : k \notin Visible(Branch, Yesterday, Yesterday)'
  BY <1>2 DEF OpeningKeys, Visible, DayOf
<1>4. ASSUME NEW i \in 1..Len(other')
      PROVE  <<"other", i>> \in Visible(Branch, Yesterday, Yesterday)' <=> i \in 1..Len(Before)
  <2>1. other'[i].ref.branch \in Branch
    BY <1>1 DEF OtherEntry, EntryOf, Document
  <2>2. /\ <<"other", i>> \in Keys' /\ EntryAt(<<"other", i>>)' = other'[i]
        /\ BranchOf(<<"other", i>>)' = other'[i].ref.branch
        /\ DayOf(<<"other", i>>)' = IF i <= Len(Before) THEN Yesterday ELSE Today
    BY DEF Keys, EntryAt, BranchOf, DayOf
  <2> QED
    BY <1>1, <1>2, <2>1, <2>2 DEF Visible, YesterdayStands
<1>5. \A k \in Visible(Branch, Yesterday, Yesterday)' : k \in {"other"} \X (1..Len(other'))
  BY <1>3 DEF Visible, Keys
<1> QED
  BY <1>1, <1>4, <1>5

\* While no entry of yesterday is reversed, the book balance of yesterday stays.
LEMMA BookStays ==
  ASSUME BooksOK, OtherOK', Continues(other, other'), YesterdayStands'
  PROVE  YesterdayStands /\ Book' = Book
<1>1. /\ Len(other) \in Nat /\ Len(Before) \in Nat /\ Len(Before) <= Len(other)
      /\ Len(other) <= Len(other')
  BY ReportsAssumption DEF BooksOK, OtherOK, Continues
<1>2. \A i \in 1..Len(Before) : other[i].status = "posted" /\ other'[i] = other[i]
  <2> SUFFICES ASSUME NEW i \in 1..Len(Before)
               PROVE  other[i].status = "posted" /\ other'[i] = other[i]
    OBVIOUS
  <2>1. i \in 1..Len(other) /\ other[i] \in OtherEntry
    BY <1>1 DEF BooksOK, OtherOK
  <2>2. other'[i].status = "posted"
    BY DEF YesterdayStands
  <2>3. other'[i] = other[i] \/ other'[i] = [other[i] EXCEPT !.status = "reversed"]
    BY <2>1 DEF Continues
  <2>4. [other[i] EXCEPT !.status = "reversed"].status = "reversed"
    BY <2>1 DEF OtherEntry, EntryOf
  <2> QED
    BY <2>2, <2>3, <2>4
<1>3. YesterdayStands
  BY <1>2 DEF YesterdayStands
<1> DEFINE F == {"other"} \X (1..Len(Before))
<1>4. PICK w : w = [k \in Keys |-> EntryAt(k).lines["cash"]]
  OBVIOUS
<1>5. PICK v : v = [k \in Keys |-> EntryAt(k).lines["cash"]]'
  OBVIOUS
<1>6. Book = SumFunctionOnSet(w, F)
  BY <1>3, <1>4, YesterdayKeys DEF Book, BalanceOf, BooksOK
<1>7. Book' = SumFunctionOnSet(v, F)
  BY <1>5, YesterdayKeysNext DEF Book, BalanceOf
<1>8. \A k \in F : w[k] = v[k]
  <2> SUFFICES ASSUME NEW k \in F PROVE w[k] = v[k]
    OBVIOUS
  <2>1. /\ k \in {"other"} \X (1..Len(other)) /\ k \in {"other"} \X (1..Len(other'))
        /\ k[1] = "other" /\ k[2] \in 1..Len(Before)
    BY <1>1 DEF OtherOK
  <2>2. k \in Keys /\ k \in Keys'
    BY <2>1 DEF Keys
  <2>3. EntryAt(k) = other[k[2]] /\ EntryAt(k)' = other'[k[2]]
    BY <2>1 DEF EntryAt
  <2> QED
    BY <1>2, <1>4, <1>5, <2>1, <2>2, <2>3
<1>9. IsFiniteSet(F)
  <2>1. IsFiniteSet({"other"})
    BY FS_Singleton
  <2>2. IsFiniteSet(1..Len(Before))
    BY <1>1, FS_Interval
  <2> QED
    BY <2>1, <2>2, FS_Product
<1> HIDE DEF F
<1>10. SumFunctionOnSet(w, F) = SumFunctionOnSet(v, F)
  BY <1>8, <1>9, SumSame
<1> QED
  BY <1>3, <1>6, <1>7, <1>10

\* It holds before anything is posted today.
LEMMA InitRep == ReportsInit => RepInv
<1> SUFFICES ASSUME ReportsInit PROVE RepInv
  OBVIOUS
<1>1. AccInv
  BY InitAcc DEF ReportsInit
<1>2. OtherOK
  BY ReportsAssumption DEF ReportsInit, OtherOK
<1>3. report \in Reader /\ report.op = "none" /\ reconciled = {}
  BY AccountingAssumption DEF ReportsInit, NoReport, Reader, Account
<1> QED
  BY <1>1, <1>2, <1>3 DEF RepInv, SheetHeld, LedgerHeld, StatementHeld, BookHeld

\* The books of the invariant can be read.
LEMMA RepBooks == RepInv => BooksOK
  BY DEF RepInv, AccInv, BooksOK

\* The books move, or do not, under a reader that notices.
LEMMA MoveRep ==
  ASSUME RepInv, AccInv', OtherOK', Continues(other, other'), Noticed, reconciled' = reconciled
  PROVE  RepInv'
<1>1. report \in Reader /\ BooksOK
  BY RepBooks DEF RepInv
<1>2. /\ report' \in Reader /\ report'.op = report.op /\ report'.to = report.to
      /\ report'.first = report.first
      /\ \/ report'.op = "none" \/ report'.moved
         \/ report' = report /\ journal' = journal /\ other' = other
  BY <1>1, NoticedFacts
<1>3. BookHeld'
  BY <1>1, <1>2, BookStays DEF RepInv, BookHeld
<1>4. SheetHeld' /\ LedgerHeld' /\ StatementHeld'
  <2>1. CASE report'.op = "none" \/ report'.moved
    BY <2>1 DEF SheetHeld, LedgerHeld, StatementHeld
  <2>2. CASE report' = report /\ journal' = journal /\ other' = other
    <3>1. SheetHeld'
      BY <2>2, BooksStay DEF RepInv, SheetHeld
    <3>2. LedgerHeld'
      BY <2>2, BooksStay DEF RepInv, LedgerHeld
    <3>3. StatementHeld'
      BY <2>2, BooksStay DEF RepInv, StatementHeld
    <3> QED
      BY <3>1, <3>2, <3>3
  <2> QED
    BY <1>2, <2>1, <2>2
<1> QED
  BY <1>2, <1>3, <1>4 DEF RepInv

\* Steps that leave the books alone keep what is said of them.
LEMMA StillBooks ==
  ASSUME RepInv, UNCHANGED <<vars, other>>
  PROVE  AccInv' /\ OtherOK'
<1>1. AccInv'
  BY StepAcc DEF RepInv
<1> QED
  BY <1>1 DEF RepInv, OtherOK

\* A reader begins with what its first query returns.
LEMMA BeginRep ==
  ASSUME RepInv, NEW r \in Reader, Begin(r),
         r.op = "sheet" => r.first = NetProfit(r.scope, r.from, r.to),
         r.op = "ledger" =>
            r.first + LinesOfToday(r.scope, r.of) = TrialRow(r.of, r.scope, Yesterday, Today),
         r.op = "statement" =>
            \A type \in {"Sale", "Purchase"} :
                StatementBalance(type, r.docs, r.scope) = PartyBalance(type, r.of, r.scope),
         (r.op = "reconcile" /\ r.to = Yesterday) => r.first = Book
  PROVE  RepInv'
<1>1. report' = r /\ reconciled' = reconciled /\ UNCHANGED <<vars, other>>
  BY DEF Begin
<1>2. journal' = journal /\ other' = other
  BY <1>1 DEF vars
<1>3. AccInv' /\ OtherOK'
  BY <1>1, StillBooks
<1>4. SheetHeld'
  BY <1>1, <1>2, BooksStay DEF SheetHeld
<1>5. LedgerHeld'
  BY <1>1, <1>2, BooksStay DEF LedgerHeld
<1>6. StatementHeld'
  BY <1>1, <1>2, BooksStay DEF StatementHeld
<1>7. BookHeld'
  BY <1>1, <1>2, BooksStay DEF RepInv, BookHeld
<1> QED
  BY <1>1, <1>3, <1>4, <1>5, <1>6, <1>7 DEF RepInv

\* A reader ends; a reconciliation leaves a row with what it read.
LEMMA EndRep ==
  ASSUME RepInv, NEW op \in {"sheet", "ledger", "statement", "reconcile"}, End(op),
         \/ reconciled' = reconciled
         \/ /\ op = "reconcile"
            /\ reconciled' = reconciled \cup {[to |-> report.to, book |-> report.first]}
  PROVE  RepInv'
<1>1. report' = NoReport /\ report.op = op /\ UNCHANGED <<vars, other>> /\ report \in Reader
  BY DEF End, RepInv
<1>2. journal' = journal /\ other' = other
  BY <1>1 DEF vars
<1>3. AccInv' /\ OtherOK'
  BY <1>1, StillBooks
<1>4. report' \in Reader /\ report'.op = "none"
  BY <1>1, AccountingAssumption DEF NoReport, Reader, Account
<1>5. SheetHeld' /\ LedgerHeld' /\ StatementHeld'
  BY <1>4 DEF SheetHeld, LedgerHeld, StatementHeld
<1>6. BookHeld'
  BY <1>1, <1>2, <1>4, BooksStay DEF RepInv, BookHeld
<1>7. reconciled' \subseteq Reconciliation
  <2>1. [to |-> report.to, book |-> report.first] \in Reconciliation
    BY <1>1 DEF Reader, Reconciliation
  <2> QED
    BY <2>1 DEF RepInv
<1> QED
  BY <1>3, <1>4, <1>5, <1>6, <1>7 DEF RepInv

\* Every step keeps the invariant of the readers.
LEMMA StepRep == RepInv /\ [ReportsNext]_<<vars, reportVars>> => RepInv'
<1> SUFFICES ASSUME RepInv, [ReportsNext]_<<vars, reportVars>> PROVE RepInv'
  OBVIOUS
<1>1. BooksOK /\ other \in Seq(OtherEntry) /\ Yesterday \in Int /\ Today \in Int
  BY RepBooks, AccountingAssumption DEF RepInv, OtherOK, Yesterday
<1>2. Continues(other, other)
  BY <1>1 DEF Continues
<1>3. CASE OfAccounting
  <2>1. AccInv'
    BY <1>3, StepAcc DEF OfAccounting, RepInv
  <2>2. OtherOK' /\ Continues(other, other') /\ reconciled' = reconciled /\ Noticed
    BY <1>2, <1>3 DEF OfAccounting, RepInv, OtherOK
  <2> QED
    BY <2>1, <2>2, MoveRep
<1>4. CASE PostOther \/ ReverseOther
  <2>1. OtherOK' /\ Continues(other, other')
    BY <1>4, OtherStep DEF RepInv
  <2>2. UNCHANGED vars /\ reconciled' = reconciled /\ Noticed
    BY <1>4 DEF PostOther, ReverseOther, Write
  <2>3. AccInv'
    BY <2>2, StepAcc DEF RepInv
  <2> QED
    BY <2>1, <2>2, <2>3, MoveRep
<1>5. CASE ReadSheet
  <2>1. PICK s \in Scopes, to \in {Yesterday, Today} :
          Begin([NoReport EXCEPT !.op = "sheet", !.scope = s, !.from = Yesterday, !.to = to,
                     !.first = TotalOf(SheetAccounts, Visible(s, Yesterday, to))])
    BY <1>5 DEF ReadSheet
  <2>2. PICK b : b = TotalOf(SheetAccounts, Visible(s, Yesterday, to))
    OBVIOUS
  <2>3. b \in Int /\ b = NetProfit(s, Yesterday, to)
    <3>1. Visible(s, Yesterday, to) \in SUBSET Keys
      BY VisibleKeys
    <3> QED
      BY <1>1, <2>2, <3>1, SheetBooks DEF NetProfit
  <2> DEFINE r == [NoReport EXCEPT !.op = "sheet", !.scope = s, !.from = Yesterday, !.to = to,
                       !.first = b]
  <2>4. r \in Reader /\ r.op = "sheet" /\ r.scope = s /\ r.from = Yesterday /\ r.to = to
        /\ r.first = b
    BY <1>1, <2>3, ReportsAssumption DEF NoReport, Reader, Account
  <2>5. Begin(r)
    BY <2>1, <2>2
  <2> HIDE DEF r
  <2> QED
    BY <2>3, <2>4, <2>5, BeginRep
<1>6. CASE ReadLedgerOpening
  <2>1. PICK s \in Scopes, a \in {"ar"} :
          Begin([NoReport EXCEPT !.op = "ledger", !.scope = s, !.of = a,
                     !.first = BalanceOf(a, Visible(s, Yesterday, Yesterday))])
    BY <1>6 DEF ReadLedgerOpening
  <2>2. PICK b : b = BalanceOf(a, Visible(s, Yesterday, Yesterday))
    OBVIOUS
  <2>3. b \in Int /\ b + LinesOfToday(s, a) = TrialRow(a, s, Yesterday, Today)
    <3>1. Visible(s, Yesterday, Yesterday) \in SUBSET Keys /\ a \in Account
      BY VisibleKeys DEF Account
    <3> QED
      BY <1>1, <2>2, <3>1, BalanceFacts, LedgerBooks DEF LinesOfToday
  <2> DEFINE r == [NoReport EXCEPT !.op = "ledger", !.scope = s, !.of = a, !.first = b]
  <2>4. r \in Reader /\ r.op = "ledger" /\ r.scope = s /\ r.of = a /\ r.first = b
    BY <1>1, <2>3, ReportsAssumption DEF NoReport, Reader, Account
  <2>5. Begin(r)
    BY <2>1, <2>2
  <2> HIDE DEF r
  <2> QED
    BY <2>3, <2>4, <2>5, BeginRep
<1>7. CASE ReadDocuments
  <2>1. PICK s \in Scopes, p \in Party :
          Begin([NoReport EXCEPT !.op = "statement", !.scope = s, !.of = p,
                     !.docs = DocumentsOf(p)])
    BY <1>7 DEF ReadDocuments
  <2>2. PICK d : d = DocumentsOf(p)
    OBVIOUS
  <2>3. d \in SUBSET Document
    <3>1. \A i \in 1..Len(other) : other[i].ref \in Document
      <4>1. \A i \in 1..Len(other) : other[i] \in OtherEntry
        BY <1>1
      <4> QED
        BY <4>1 DEF OtherEntry, EntryOf
    <3> QED
      BY <2>2, <3>1 DEF DocumentsOf
  <2>4. \A type \in {"Sale", "Purchase"} : StatementBalance(type, d, s) = PartyBalance(type, p, s)
    BY <1>1, <2>2, StatementBooks
  <2> DEFINE r == [NoReport EXCEPT !.op = "statement", !.scope = s, !.of = p, !.docs = d]
  <2>5. r \in Reader /\ r.op = "statement" /\ r.scope = s /\ r.of = p /\ r.docs = d
    <3>1. NoReport \in Reader
      BY <1>1 DEF NoReport, Reader, Account
    <3>2. s \in SUBSET Branch /\ p \in Account \cup Party
      BY ReportsAssumption
    <3> QED
      BY <2>3, <3>1, <3>2 DEF Reader
  <2>6. Begin(r)
    BY <2>1, <2>2
  <2> HIDE DEF r
  <2> QED
    BY <2>4, <2>5, <2>6, BeginRep
<1>8. CASE ReadBook
  <2>1. PICK to \in {Yesterday, Today} :
          Begin([NoReport EXCEPT !.op = "reconcile", !.to = to,
                     !.first = BalanceOf("cash", Visible(Branch, Yesterday, to))])
    BY <1>8 DEF ReadBook
  <2>2. PICK b : b = BalanceOf("cash", Visible(Branch, Yesterday, to))
    OBVIOUS
  <2>3. b \in Int /\ (to = Yesterday => b = Book)
    <3>1. Visible(Branch, Yesterday, to) \in SUBSET Keys /\ "cash" \in Account
      BY VisibleKeys DEF Account
    <3> QED
      BY <1>1, <2>2, <3>1, BalanceFacts DEF Book
  <2> DEFINE r == [NoReport EXCEPT !.op = "reconcile", !.to = to, !.first = b]
  <2>4. r \in Reader /\ r.op = "reconcile" /\ r.to = to /\ r.first = b
    BY <1>1, <2>3, ReportsAssumption DEF NoReport, Reader, Account
  <2>5. Begin(r)
    BY <2>1, <2>2
  <2> HIDE DEF r
  <2> QED
    BY <2>3, <2>4, <2>5, BeginRep
<1>9. CASE ReadSheetProfit \/ ReadLedgerLines \/ ReadStatementLines \/ WriteReconciliation
  <2>1. PICK op \in {"sheet", "ledger", "statement", "reconcile"} :
          /\ End(op)
          /\ \/ reconciled' = reconciled
             \/ /\ op = "reconcile"
                /\ reconciled' = reconciled \cup {[to |-> report.to, book |-> report.first]}
    BY <1>9 DEF ReadSheetProfit, ReadLedgerLines, ReadStatementLines, WriteReconciliation
  <2> QED
    BY <2>1, EndRep
<1>10. CASE UNCHANGED <<vars, reportVars>>
  <2>1. UNCHANGED <<vars, other>> /\ report' = report /\ reconciled' = reconciled
        /\ journal' = journal /\ other' = other
    BY <1>10 DEF reportVars, vars
  <2>2. AccInv' /\ OtherOK'
    BY <2>1, StillBooks
  <2>3. SheetHeld'
    BY <2>1, BooksStay DEF RepInv, SheetHeld
  <2>4. LedgerHeld'
    BY <2>1, BooksStay DEF RepInv, LedgerHeld
  <2>5. StatementHeld'
    BY <2>1, BooksStay DEF RepInv, StatementHeld
  <2>6. BookHeld'
    BY <2>1, BooksStay DEF RepInv, BookHeld
  <2> QED
    BY <2>1, <2>2, <2>3, <2>4, <2>5, <2>6 DEF RepInv
<1> QED
  BY <1>3, <1>4, <1>5, <1>6, <1>7, <1>8, <1>9, <1>10 DEF ReportsNext

LEMMA RepInvariance == ReportsSpec => []RepInv
  BY InitRep, StepRep, PTL DEF ReportsSpec

\* Every variable keeps its type, those of the readers and of the entries of
\* other services included.
THEOREM ReportsTypeCorrect == ReportsSpec => []ReportsTypeOK
<1>1. RepInv => ReportsTypeOK
  BY DEF RepInv, AccInv, OtherOK, ReportsTypeOK
<1> QED
  BY <1>1, RepInvariance, PTL

\* What customers owe, party by party, is the receivables account less its opening
\* balance, and so for suppliers and payables, in every scope and at any moment.
THEOREM SubledgersAlwaysTieOut == ReportsSpec => []SubledgersTieOut
<1>1. RepInv => SubledgersTieOut
  BY RepBooks, TieOutBooks DEF SubledgersTieOut
<1> QED
  BY <1>1, RepInvariance, PTL

\* Two queries of one report, two reports, and a report and the row made from it
\* agree unless the books moved in between.
THEOREM ReportsAlwaysAgree == ReportsSpec => []ReportsAgree
<1>1. RepInv => SheetBalances
  BY DEF RepInv, SheetHeld, SheetBalances
<1>2. RepInv => LedgerCloses
  BY DEF RepInv, LedgerHeld, LinesOfToday, LedgerCloses
<1>3. RepInv => StatementAgrees
  BY DEF RepInv, StatementHeld, StatementAgrees
<1>4. RepInv => ReconciliationHolds
  BY DEF RepInv, BookHeld, YesterdayStands, Book, ReconciliationHolds
<1>5. RepInv => ReportsAgree
  BY <1>1, <1>2, <1>3, <1>4 DEF ReportsAgree
<1> QED
  BY <1>5, RepInvariance, PTL

\* Composed with the other services and the readers, the journal of the opening
\* balance stands as it does alone.
THEOREM StandsAmongReports == ReportsSpec => [](OneActiveOpening /\ EntriesStand)
<1>1. RepInv => OneActiveOpening /\ EntriesStand
  BY DEF RepInv, AccInv, EntriesStand
<1> QED
  BY <1>1, RepInvariance, PTL
=============================================================================
