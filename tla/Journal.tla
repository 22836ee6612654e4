------------------------------ MODULE Journal ------------------------------
(***************************************************************************)
(* The double-entry journal that every commercial operation writes to      *)
(* (accounting/journal.service.ts).  The module has no variables: it       *)
(* defines what an entry is and what the two writers of the service,       *)
(* postJournalEntry and reverseJournalEntry, append.  The modules of the   *)
(* operations extend it and keep the journal in a variable of their own.   *)
(*                                                                         *)
(* Amounts are integers (the smallest money unit).  A line's account is    *)
(* the only thing a report tells apart, so the lines of an entry are a     *)
(* function from accounts to the net debit (debit minus credit).  Cash and *)
(* Bank are one account, "cash": a payment method picks between them and   *)
(* nothing else depends on it.  "vat" is VAT Receivable.  "revenue" is     *)
(* Sales Revenue, VAT Payable and Sales Returns together: every entry      *)
(* moves them in the same direction by one amount.                         *)
(***************************************************************************)
EXTENDS Integers, Sequences

Account == {"cash", "ar", "ap", "revenue", "cogs", "inventory",
            "adjustment", "expense", "equity", "vat"}

Lines == [Account -> Int]

\* The lines an operation writes, from a record that names the accounts it
\* touches: every other account has no line.
LinesOf(r) == [a \in Account |-> IF a \in DOMAIN r THEN r[a] ELSE 0]

AddLines(l, m) == [a \in Account |-> l[a] + m[a]]

\* Debit and credit exchanged on every line.
SwapLines(l) == [a \in Account |-> -l[a]]

\* Debits minus credits over the whole entry.
NetOf(l) == l["cash"] + l["ar"] + l["ap"] + l["revenue"] + l["cogs"]
            + l["inventory"] + l["adjustment"] + l["expense"] + l["equity"]
            + l["vat"]

Balanced(l) == NetOf(l) = 0

\* Total debit of an entry is zero exactly when no account moves.
NonZero(l) == \E a \in Account : l[a] # 0

(***************************************************************************)
(* A journal is a sequence of entries, in the order they were created.     *)
(* `reverses' is reversalOfEntryId: the index of the entry reversed, 0 for *)
(* an entry that reverses nothing.                                         *)
(***************************************************************************)
EntryOf(Ref, Kind) ==
    [ref : Ref, kind : Kind \cup {"reversal"}, status : {"posted", "reversed"},
     reverses : Nat, lines : Lines]

\* Faulty variant: entries wait for an approval nobody gives.
EntryDraft(ref, kind, l) ==
    [ref |-> ref, kind |-> kind, status |-> "draft", reverses |-> 0, lines |-> l]

Entry(ref, kind, l) ==
    [ref |-> ref, kind |-> kind, status |-> "posted", reverses |-> 0, lines |-> l]

Reversal(e, i) ==
    [ref |-> e.ref, kind |-> "reversal", status |-> "posted", reverses |-> i,
     lines |-> SwapLines(e.lines)]

\* postJournalEntry refuses an unbalanced or an empty entry.
Postable(l) == Balanced(l) /\ NonZero(l)

PostEntry(j, ref, kind, l) == Append(j, Entry(ref, kind, l))

\* Faulty variant: the original is not marked.
ReverseEntryUnmarked(j, i) == Append(j, Reversal(j[i], i))

\* reverseJournalEntry: the original is only marked, the reversing entry is
\* a new one with the lines swapped.
ReverseEntry(j, i) ==
    Append([j EXCEPT ![i].status = "reversed"], Reversal(j[i], i))

\* The entries a `findFirst' with status = posted may return for a reference.
PostedEntries(j, ref) ==
    {i \in 1..Len(j) : j[i].ref = ref /\ j[i].status = "posted"}

ReversalsOf(j, i) == {k \in 1..Len(j) : j[k].reverses = i}

-----------------------------------------------------------------------------
(***************************************************************************)
(* What the service promises of a journal, whoever writes to it.           *)
(***************************************************************************)

\* An entry is marked reversed exactly when one other, later entry reverses
\* it, and that entry carries its lines swapped: its effect is undone once.
UndoneOnce(j) ==
    \A i \in 1..Len(j) :
        /\ j[i].status = "reversed" <=> ReversalsOf(j, i) # {}
        /\ \A k, m \in ReversalsOf(j, i) : k = m
        /\ \A k \in ReversalsOf(j, i) : k > i /\ j[k].lines = SwapLines(j[i].lines)

\* Only an entry that reverses nothing is ever reversed: reversing entries
\* stay posted for good.
OriginalsReversed(j) ==
    \A i \in 1..Len(j) : j[i].status = "reversed" => j[i].reverses = 0

\* Journal jj continues j: entries are only appended, and of an entry that is
\* there nothing changes but posted into reversed.
Continues(j, jj) ==
    /\ Len(jj) >= Len(j)
    /\ \A i \in 1..Len(j) :
          \/ jj[i] = j[i]
          \/ /\ j[i].status = "posted"
             /\ jj[i] = [j[i] EXCEPT !.status = "reversed"]
=============================================================================
