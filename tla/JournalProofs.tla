--------------------------- MODULE JournalProofs ---------------------------
(***************************************************************************)
(* Lemmas about the operators of Journal, for every set of references and  *)
(* kinds of entries, and about the sums over finite sets that stock,       *)
(* balances and reports are: what one more element or one changed element  *)
(* does to a sum.  A sum is a recursive function over the subsets of a     *)
(* set, so these rest on induction over finite sets, in the form that a    *)
(* set of finite sets has a least member (LeastSet).                       *)
(***************************************************************************)
EXTENDS Journal, Functions, FiniteSetTheorems, TLAPS

\* Naming some accounts and an integer for each gives a line on every account.
LEMMA LinesOfType ==
  ASSUME NEW r, \A a \in DOMAIN r : r[a] \in Int
  PROVE  LinesOf(r) \in Lines
  BY DEF LinesOf, Lines

\* Adding two entries adds them account by account.
LEMMA AddLinesType ==
  ASSUME NEW l \in Lines, NEW m \in Lines
  PROVE  /\ AddLines(l, m) \in Lines
         /\ \A a \in Account : AddLines(l, m)[a] = l[a] + m[a]
  BY DEF AddLines, Lines

\* The lines of a reversing entry are lines.
LEMMA SwapLinesType ==
  ASSUME NEW l \in Lines
  PROVE  SwapLines(l) \in Lines
  BY DEF SwapLines, Lines

\* A reversing entry balances whenever the entry it reverses does.
LEMMA SwapLinesBalanced ==
  ASSUME NEW l \in Lines, Balanced(l)
  PROVE  Balanced(SwapLines(l))
  BY DEF SwapLines, Lines, Balanced, NetOf, Account

\* Posting an entry keeps a journal a journal.
LEMMA PostEntryType ==
  ASSUME NEW Ref, NEW Kind, NEW j \in Seq(EntryOf(Ref, Kind)),
         NEW ref \in Ref, NEW kind \in Kind, NEW l \in Lines
  PROVE  PostEntry(j, ref, kind, l) \in Seq(EntryOf(Ref, Kind))
<1>1. Entry(ref, kind, l) \in EntryOf(Ref, Kind)
  BY DEF Entry, EntryOf
<1> QED
  BY <1>1 DEF PostEntry

\* Reversing an entry keeps a journal a journal.
LEMMA ReverseEntryType ==
  ASSUME NEW Ref, NEW Kind, NEW j \in Seq(EntryOf(Ref, Kind)), NEW i \in 1..Len(j)
  PROVE  ReverseEntry(j, i) \in Seq(EntryOf(Ref, Kind))
<1>1. j[i] \in EntryOf(Ref, Kind)
  OBVIOUS
<1>2. SwapLines(j[i].lines) \in Lines
  BY <1>1, SwapLinesType DEF EntryOf
<1>3. Reversal(j[i], i) \in EntryOf(Ref, Kind)
  BY <1>1, <1>2 DEF Reversal, EntryOf
<1>4. [j[i] EXCEPT !.status = "reversed"] \in EntryOf(Ref, Kind)
  BY <1>1 DEF EntryOf
<1>5. [j EXCEPT ![i].status = "reversed"] \in Seq(EntryOf(Ref, Kind))
  BY <1>4
<1> QED
  BY <1>3, <1>5 DEF ReverseEntry

\* What a reversal does to each entry: the lines and the pointers stay, one
\* status changes, and the new entry has the lines swapped.
LEMMA ReverseEntryEffect ==
  ASSUME NEW Ref, NEW Kind, NEW j \in Seq(EntryOf(Ref, Kind)), NEW i \in 1..Len(j)
  PROVE  LET jj == ReverseEntry(j, i)
             n  == Len(j) + 1
         IN  /\ Len(jj) = n
             /\ \A k \in 1..Len(j) :
                   /\ jj[k].lines = j[k].lines
                   /\ jj[k].reverses = j[k].reverses
                   /\ jj[k].status = IF k = i THEN "reversed" ELSE j[k].status
             /\ jj[n].lines = SwapLines(j[i].lines)
             /\ jj[n].reverses = i
             /\ jj[n].status = "posted"
<1> DEFINE jj == ReverseEntry(j, i)
           n  == Len(j) + 1
<1>1. \A k \in 1..Len(j) : j[k] \in EntryOf(Ref, Kind)
  OBVIOUS
<1>2. /\ Len(jj) = n
      /\ \A k \in 1..Len(j) : k # i => jj[k] = j[k]
      /\ jj[i] = [j[i] EXCEPT !.status = "reversed"]
      /\ jj[n] = Reversal(j[i], i)
  BY DEF ReverseEntry
<1> HIDE DEF jj
<1>3. \A k \in 1..Len(j) : /\ jj[k].lines = j[k].lines
                           /\ jj[k].reverses = j[k].reverses
                           /\ jj[k].status = IF k = i THEN "reversed" ELSE j[k].status
  BY <1>1, <1>2 DEF EntryOf
<1> QED
  BY <1>2, <1>3 DEF jj, Reversal

\* No entry of a journal changes but posted into reversed when one is reversed,
\* also when it was reversed before.
LEMMA ReverseEntryContinues ==
  ASSUME NEW Ref, NEW Kind, NEW j \in Seq(EntryOf(Ref, Kind)), NEW i \in 1..Len(j)
  PROVE  Continues(j, ReverseEntry(j, i))
<1> DEFINE jj == ReverseEntry(j, i)
<1>1. j[i] \in EntryOf(Ref, Kind)
  OBVIOUS
<1>2. /\ Len(jj) >= Len(j)
      /\ \A k \in 1..Len(j) : k # i => jj[k] = j[k]
      /\ jj[i] = [j[i] EXCEPT !.status = "reversed"]
  BY DEF ReverseEntry
<1>3. j[i].status = "posted" \/ jj[i] = j[i]
  BY <1>1, <1>2 DEF EntryOf
<1> HIDE DEF jj
<1> QED
  BY <1>2, <1>3 DEF Continues, jj

-----------------------------------------------------------------------------
(***************************************************************************)
(* UndoneOnce is not inductive: an entry could be appended that is already *)
(* the reversal of one yet to come.  That entries only point backwards     *)
(* rules it out.                                                           *)
(***************************************************************************)
PointsBack(j) == \A k \in 1..Len(j) : j[k].reverses < k

\* An empty journal is sound.
LEMMA EmptyJournalSound == UndoneOnce(<<>>) /\ PointsBack(<<>>)
  BY DEF UndoneOnce, PointsBack

\* Posting an entry keeps both.
LEMMA PostEntrySound ==
  ASSUME NEW Ref, NEW Kind, NEW j \in Seq(EntryOf(Ref, Kind)),
         NEW ref \in Ref, NEW kind \in Kind, NEW l \in Lines,
         UndoneOnce(j), PointsBack(j)
  PROVE  /\ UndoneOnce(PostEntry(j, ref, kind, l))
         /\ PointsBack(PostEntry(j, ref, kind, l))
         /\ Continues(j, PostEntry(j, ref, kind, l))
<1> DEFINE jj == PostEntry(j, ref, kind, l)
           n  == Len(j) + 1
<1>1. /\ Len(jj) = n /\ n \in Nat \ {0}
      /\ \A k \in 1..Len(j) : jj[k] = j[k]
      /\ jj[n].reverses = 0 /\ jj[n].status = "posted"
  BY DEF PostEntry, Entry
<1>2. PointsBack(jj)
  BY <1>1 DEF PointsBack
<1>3. \A i \in 1..Len(j) : ReversalsOf(jj, i) = ReversalsOf(j, i)
  BY <1>1 DEF ReversalsOf
<1>4. ReversalsOf(jj, n) = {}
  BY <1>1, <1>2 DEF ReversalsOf, PointsBack
<1> HIDE DEF jj
<1>5. UndoneOnce(jj)
  <2> SUFFICES ASSUME NEW i \in 1..Len(jj)
               PROVE  /\ jj[i].status = "reversed" <=> ReversalsOf(jj, i) # {}
                      /\ \A k, m \in ReversalsOf(jj, i) : k = m
                      /\ \A k \in ReversalsOf(jj, i) :
                            k > i /\ jj[k].lines = SwapLines(jj[i].lines)
    BY DEF UndoneOnce
  <2>1. CASE i = n
    BY <1>1, <1>4, <2>1
  <2>2. CASE i # n
    <3>1. i \in 1..Len(j) /\ ReversalsOf(j, i) \subseteq 1..Len(j)
      BY <1>1, <2>2 DEF ReversalsOf
    <3> QED
      BY <1>1, <1>3, <3>1 DEF UndoneOnce
  <2> QED
    BY <2>1, <2>2
<1>6. Continues(j, jj)
  BY <1>1 DEF Continues
<1> QED
  BY <1>2, <1>5, <1>6 DEF jj

\* Reversing an entry that is still posted keeps both.
LEMMA ReverseEntrySound ==
  ASSUME NEW Ref, NEW Kind, NEW j \in Seq(EntryOf(Ref, Kind)),
         NEW i \in 1..Len(j), j[i].status = "posted",
         UndoneOnce(j), PointsBack(j)
  PROVE  /\ UndoneOnce(ReverseEntry(j, i))
         /\ PointsBack(ReverseEntry(j, i))
         /\ Continues(j, ReverseEntry(j, i))
<1> DEFINE jj == ReverseEntry(j, i)
           n  == Len(j) + 1
<1>1. \A k \in 1..Len(j) : j[k] \in EntryOf(Ref, Kind)
  OBVIOUS
<1>2. /\ Len(jj) = n /\ n \in Nat \ {0}
      /\ \A k \in 1..Len(j) : k # i => jj[k] = j[k]
      /\ jj[i] = [j[i] EXCEPT !.status = "reversed"]
      /\ jj[n] = Reversal(j[i], i)
  BY DEF ReverseEntry
<1>3. /\ jj[i].status = "reversed" /\ jj[i].lines = j[i].lines
      /\ jj[i].reverses = j[i].reverses
      /\ jj[n].status = "posted" /\ jj[n].reverses = i
      /\ jj[n].lines = SwapLines(j[i].lines)
  BY <1>1, <1>2 DEF Reversal, EntryOf
<1> HIDE DEF jj
<1>4. \A k \in 1..Len(j) : jj[k].lines = j[k].lines /\ jj[k].reverses = j[k].reverses
  BY <1>2, <1>3
<1>5. i < n /\ 1..Len(jj) = 1..Len(j) \cup {n} /\ n \notin 1..Len(j)
  BY <1>2
<1>6. PointsBack(jj)
  <2>1. \A k \in 1..Len(j) : jj[k].reverses < k
    BY <1>4 DEF PointsBack
  <2> QED
    BY <1>3, <1>5, <2>1 DEF PointsBack
<1>7. ReversalsOf(j, i) = {}
  BY DEF UndoneOnce
<1>8. \A k \in 1..Len(j) : k # i => ReversalsOf(jj, k) = ReversalsOf(j, k)
  BY <1>3, <1>4, <1>5 DEF ReversalsOf
<1>9. ReversalsOf(jj, i) = {n}
  BY <1>3, <1>4, <1>5, <1>7 DEF ReversalsOf
<1>10. ReversalsOf(jj, n) = {}
  <2>1. \A k \in 1..Len(jj) : jj[k].reverses # n
    BY <1>2, <1>5, <1>6 DEF PointsBack
  <2> QED
    BY <2>1 DEF ReversalsOf
<1>11. UndoneOnce(jj)
  <2> SUFFICES ASSUME NEW e \in 1..Len(jj)
               PROVE  /\ jj[e].status = "reversed" <=> ReversalsOf(jj, e) # {}
                      /\ \A k, m \in ReversalsOf(jj, e) : k = m
                      /\ \A k \in ReversalsOf(jj, e) :
                            k > e /\ jj[k].lines = SwapLines(jj[e].lines)
    BY DEF UndoneOnce
  <2>1. CASE e = n
    BY <1>3, <1>10, <2>1
  <2>2. CASE e = i
    BY <1>3, <1>5, <1>9, <2>2
  <2>3. CASE e # n /\ e # i
    <3>1. e \in 1..Len(j) /\ ReversalsOf(j, e) \subseteq 1..Len(j)
      BY <1>5, <2>3 DEF ReversalsOf
    <3> QED
      BY <1>2, <1>4, <1>8, <2>3, <3>1 DEF UndoneOnce
  <2> QED
    BY <2>1, <2>2, <2>3
<1>12. Continues(j, jj)
  BY <1>2 DEF Continues
<1> QED
  BY <1>6, <1>11, <1>12 DEF jj

-----------------------------------------------------------------------------
\* The entries of a kind posted for a document s.
PostedAs(j, s, kind) == {i \in 1..Len(j) : j[i].ref = s /\ j[i].kind = kind}

\* Entries can be counted.
LEMMA Countable ==
  ASSUME NEW E, NEW j \in Seq(E), NEW s, NEW kind
  PROVE  IsFiniteSet(PostedAs(j, s, kind)) /\ Cardinality(PostedAs(j, s, kind)) \in Nat
<1>1. IsFiniteSet(1..Len(j)) /\ PostedAs(j, s, kind) \subseteq 1..Len(j)
  BY FS_Interval DEF PostedAs
<1>2. IsFiniteSet(PostedAs(j, s, kind))
  BY <1>1, FS_Subset
<1> QED
  BY <1>2, FS_CardinalityType

\* Posting adds the new number to the entries of its kind and document, and to no
\* others.
LEMMA PostAdds ==
  ASSUME NEW E, NEW j \in Seq(E), NEW s, NEW kind, NEW l
  PROVE  LET jj == PostEntry(j, s, kind, l) IN
         /\ PostedAs(jj, s, kind) = PostedAs(j, s, kind) \cup {Len(j) + 1}
         /\ Cardinality(PostedAs(jj, s, kind)) = Cardinality(PostedAs(j, s, kind)) + 1
         /\ \A d, other : d # s \/ other # kind =>
               PostedAs(jj, d, other) = PostedAs(j, d, other)
<1> DEFINE jj == PostEntry(j, s, kind, l)
           n  == Len(j) + 1
<1>1. /\ Len(jj) = n /\ n \in Nat /\ \A i \in 1..Len(j) : jj[i] = j[i]
      /\ jj[n].ref = s /\ jj[n].kind = kind
  BY DEF PostEntry, Entry
<1> HIDE DEF jj
<1>2. PostedAs(jj, s, kind) = PostedAs(j, s, kind) \cup {n}
  BY <1>1 DEF PostedAs
<1>3. \A d, other : d # s \/ other # kind => PostedAs(jj, d, other) = PostedAs(j, d, other)
  BY <1>1 DEF PostedAs
<1>4. n \notin PostedAs(j, s, kind)
  BY DEF PostedAs
<1>5. Cardinality(PostedAs(jj, s, kind)) = Cardinality(PostedAs(j, s, kind)) + 1
  BY <1>2, <1>4, Countable, FS_AddElement
<1> QED
  BY <1>2, <1>3, <1>5 DEF jj

\* A reversal is of none of the kinds that are posted.
LEMMA ReverseAddsNone ==
  ASSUME NEW Ref, NEW Kind, NEW j \in Seq(EntryOf(Ref, Kind)), NEW i \in 1..Len(j),
         NEW s, NEW kind, kind # "reversal"
  PROVE  PostedAs(ReverseEntry(j, i), s, kind) = PostedAs(j, s, kind)
<1> DEFINE jj == ReverseEntry(j, i)
           n  == Len(j) + 1
<1>1. \A k \in 1..Len(j) : j[k] \in EntryOf(Ref, Kind)
  OBVIOUS
<1>2. /\ Len(jj) = n /\ n \in Nat
      /\ \A k \in 1..Len(j) : jj[k].ref = j[k].ref /\ jj[k].kind = j[k].kind
      /\ jj[n].kind = "reversal"
  BY <1>1 DEF ReverseEntry, Reversal, EntryOf
<1> HIDE DEF jj
<1>3. 1..Len(jj) = 1..Len(j) \cup {n}
  BY <1>2
<1>4. PostedAs(jj, s, kind) = PostedAs(j, s, kind)
  BY <1>2, <1>3 DEF PostedAs
<1> QED
  BY <1>4 DEF jj

-----------------------------------------------------------------------------
\* The element a sum takes next, and what it is to be the sums of w over the
\* subsets of S.
Chosen(s) == CHOOSE x \in s : TRUE

IsSum(w, g, S) ==
    g = [s \in SUBSET S |-> IF s = {} THEN 0 ELSE w[Chosen(s)] + g[s \ {Chosen(s)}]]

\* Among sets of finite sets there is a least one: induction over finite sets.
LEMMA LeastSet ==
  ASSUME NEW S, IsFiniteSet(S), NEW T, T \subseteq SUBSET S, T # {}
  PROVE  \E x \in T : \A y \in T : y \subseteq x => y = x
<1>1. IsWellFoundedOn(StrictSubsetOrdering(S), SUBSET S)
  BY FS_StrictSubsetOrderingWellFounded, FS_FiniteSubsetsOfFinite
<1>2. PICK x \in T : \A y \in T : ~ (<<y, x>> \in StrictSubsetOrdering(S))
  BY <1>1, WFMin
<1> QED
  BY <1>2 DEF StrictSubsetOrdering

\* An element that is chosen is one of the set.
LEMMA ChosenIn == ASSUME NEW S, S # {} PROVE Chosen(S) \in S
  BY DEF Chosen

\* There is one sum of a set, whatever larger set it is a part of.
LEMMA SumUnique ==
  ASSUME NEW w, NEW S, NEW U, IsFiniteSet(S), NEW g, NEW h, IsSum(w, g, S), IsSum(w, h, U),
         NEW T, T \subseteq S, T \subseteq U
  PROVE  g[T] = h[T]
<1> DEFINE Wrong == {s \in SUBSET S : s \subseteq U /\ g[s] # h[s]}
<1> SUFFICES ASSUME Wrong # {} PROVE FALSE
  OBVIOUS
<1>1. PICK s \in Wrong : \A y \in Wrong : y \subseteq s => y = s
  <2>1. Wrong \subseteq SUBSET S
    OBVIOUS
  <2> HIDE DEF Wrong
  <2> QED
    BY <2>1, LeastSet
<1>2. s # {}
  BY DEF IsSum
<1>3. Chosen(s) \in s
  BY <1>2, ChosenIn
<1>4. g[s \ {Chosen(s)}] = h[s \ {Chosen(s)}]
  BY <1>1, <1>3
<1>5. g[s] = w[Chosen(s)] + g[s \ {Chosen(s)}] /\ h[s] = w[Chosen(s)] + h[s \ {Chosen(s)}]
  BY <1>2 DEF IsSum
<1> QED
  BY <1>4, <1>5

\* There is a sum of every finite set.
LEMMA SumExists ==
  ASSUME NEW w, NEW S, IsFiniteSet(S)
  PROVE  \E g : IsSum(w, g, S)
<1> DEFINE Wrong == {s \in SUBSET S : ~ \E g : IsSum(w, g, s)}
<1> SUFFICES ASSUME Wrong # {} PROVE FALSE
  OBVIOUS
<1>1. PICK T \in Wrong : \A y \in Wrong : y \subseteq T => y = T
  <2>1. Wrong \subseteq SUBSET S
    OBVIOUS
  <2> HIDE DEF Wrong
  <2> QED
    BY <2>1, LeastSet
<1> DEFINE Of(s) == CHOOSE g : IsSum(w, g, s)
           G == [s \in SUBSET T |->
                   IF s = {} THEN 0 ELSE w[Chosen(s)] + Of(s \ {Chosen(s)})[s \ {Chosen(s)}]]
<1>2. ASSUME NEW s \in SUBSET T, s # T PROVE IsSum(w, Of(s), s)
  <2>1. \E g : IsSum(w, g, s)
    BY <1>1, <1>2
  <2> QED
    BY <2>1
<1>3. ASSUME NEW s \in SUBSET T, s # T PROVE G[s] = Of(s)[s]
  <2>1. IsSum(w, Of(s), s) /\ IsFiniteSet(s)
    BY <1>2, <1>3, FS_Subset
  <2> HIDE DEF Of
  <2>2. CASE s = {}
    BY <2>1, <2>2 DEF IsSum
  <2>3. CASE s # {}
    <3> DEFINE r == s \ {Chosen(s)}
    <3>1. Chosen(s) \in s
      BY <2>3, ChosenIn
    <3>2. r \in SUBSET T /\ r # T /\ r \subseteq s
      BY <1>3, <3>1
    <3>3. IsSum(w, Of(r), r)
      BY <1>2, <3>2
    <3> HIDE DEF r
    <3>4. Of(s)[r] = Of(r)[r]
      BY <2>1, <3>2, <3>3, SumUnique
    <3>5. Of(s)[s] = w[Chosen(s)] + Of(s)[r]
      BY <2>1, <2>3 DEF IsSum, r
    <3>6. G[s] = w[Chosen(s)] + Of(r)[r]
      BY <2>3 DEF r
    <3> QED
      BY <3>4, <3>5, <3>6
  <2> QED
    BY <2>2, <2>3
<1>4. ASSUME NEW s \in SUBSET T
      PROVE  G[s] = IF s = {} THEN 0 ELSE w[Chosen(s)] + G[s \ {Chosen(s)}]
  <2> HIDE DEF Of
  <2>1. CASE s = {}
    BY <2>1
  <2>2. CASE s # {}
    <3>1. Chosen(s) \in s
      BY <2>2, ChosenIn
    <3>2. s \ {Chosen(s)} \in SUBSET T /\ s \ {Chosen(s)} # T
      BY <3>1
    <3>3. G[s \ {Chosen(s)}] = Of(s \ {Chosen(s)})[s \ {Chosen(s)}]
      BY <1>3, <3>2
    <3>4. G[s] = w[Chosen(s)] + Of(s \ {Chosen(s)})[s \ {Chosen(s)}]
      BY <2>2
    <3> QED
      BY <2>2, <3>3, <3>4
  <2> QED
    BY <2>1, <2>2
<1>5. IsSum(w, G, T)
  <2> DEFINE H == [s \in SUBSET T |->
                     IF s = {} THEN 0 ELSE w[Chosen(s)] + G[s \ {Chosen(s)}]]
  <2>1. \A s \in SUBSET T : G[s] = H[s]
    BY <1>4
  <2>2. DOMAIN G = SUBSET T /\ DOMAIN H = SUBSET T
    OBVIOUS
  <2>3. G = [s \in SUBSET T |-> G[s]] /\ H = [s \in SUBSET T |-> H[s]]
    OBVIOUS
  <2>4. G = H
    BY <2>1, <2>3
  <2> QED
    BY <2>4 DEF IsSum
<1> QED
  BY <1>1, <1>5

\* A sum over a set is one element and the sum over the others.
LEMMA SumStep ==
  ASSUME NEW w, NEW S, IsFiniteSet(S)
  PROVE  /\ SumFunctionOnSet(w, {}) = 0
         /\ S # {} => SumFunctionOnSet(w, S) =
                         w[Chosen(S)] + SumFunctionOnSet(w, S \ {Chosen(S)})
<1> DEFINE Of(s) == CHOOSE g : IsSum(w, g, s)
<1>1. \A s : SumFunctionOnSet(w, s) = Of(s)[s]
  BY Zenon DEF SumFunctionOnSet, FoldFunctionOnSet, MapThenFoldSet, IsSum, Chosen
<1>2. \A s : IsFiniteSet(s) => IsSum(w, Of(s), s)
  BY SumExists
<1> HIDE DEF Of
<1>3. SumFunctionOnSet(w, {}) = 0
  BY <1>1, <1>2, FS_EmptySet DEF IsSum
<1>4. ASSUME S # {}
      PROVE  SumFunctionOnSet(w, S) = w[Chosen(S)] + SumFunctionOnSet(w, S \ {Chosen(S)})
  <2> DEFINE r == S \ {Chosen(S)}
  <2>1. IsFiniteSet(r) /\ r \subseteq S
    BY FS_Subset
  <2>2. IsSum(w, Of(S), S) /\ IsSum(w, Of(r), r)
    BY <1>2, <2>1
  <2>3. Of(S)[S] = w[Chosen(S)] + Of(S)[r]
    BY <1>4, <2>2 DEF IsSum
  <2> HIDE DEF r
  <2>4. Of(S)[r] = Of(r)[r]
    BY <2>1, <2>2, SumUnique
  <2>5. SumFunctionOnSet(w, S) = w[Chosen(S)] + SumFunctionOnSet(w, r)
    BY <1>1, <2>3, <2>4
  <2> QED
    BY <2>5 DEF r
<1> QED
  BY <1>3, <1>4

\* Numbers add up to a number.
LEMMA SumInt ==
  ASSUME NEW w, NEW S, IsFiniteSet(S), \A x \in S : w[x] \in Int
  PROVE  SumFunctionOnSet(w, S) \in Int
<1> DEFINE Wrong == {s \in SUBSET S : SumFunctionOnSet(w, s) \notin Int}
<1> SUFFICES ASSUME Wrong # {} PROVE FALSE
  OBVIOUS
<1>1. PICK s \in Wrong : \A y \in Wrong : y \subseteq s => y = s
  <2>1. Wrong \subseteq SUBSET S
    OBVIOUS
  <2> HIDE DEF Wrong
  <2> QED
    BY <2>1, LeastSet
<1>2. IsFiniteSet(s) /\ SumFunctionOnSet(w, {}) = 0
  BY FS_Subset, SumStep
<1>3. s # {}
  BY <1>2
<1>4. Chosen(s) \in s
  BY <1>3, ChosenIn
<1>5. SumFunctionOnSet(w, s \ {Chosen(s)}) \in Int
  BY <1>1, <1>4
<1>6. SumFunctionOnSet(w, s) = w[Chosen(s)] + SumFunctionOnSet(w, s \ {Chosen(s)})
  BY <1>2, <1>3, SumStep
<1> QED
  BY <1>4, <1>5, <1>6

\* The order in which a set is summed does not matter.
LEMMA SumRemove ==
  ASSUME NEW w, NEW S, IsFiniteSet(S), \A x \in S : w[x] \in Int, NEW x \in S
  PROVE  SumFunctionOnSet(w, S) = w[x] + SumFunctionOnSet(w, S \ {x})
<1> DEFINE Sum(s) == SumFunctionOnSet(w, s)
           Wrong == {s \in SUBSET S : \E y \in s : Sum(s) # w[y] + Sum(s \ {y})}
<1> HIDE DEF Sum
<1> SUFFICES Wrong = {}
  BY DEF Sum
<1> SUFFICES ASSUME Wrong # {} PROVE FALSE
  OBVIOUS
<1>1. PICK s \in Wrong : \A y \in Wrong : y \subseteq s => y = s
  <2>1. Wrong \subseteq SUBSET S
    OBVIOUS
  <2> HIDE DEF Wrong
  <2> QED
    BY <2>1, LeastSet
<1>2. PICK y \in s : Sum(s) # w[y] + Sum(s \ {y})
  OBVIOUS
<1>3. \A r \in SUBSET S : IsFiniteSet(r) /\ Sum(r) \in Int
  BY FS_Subset, SumInt DEF Sum
<1>4. Sum(s) = w[Chosen(s)] + Sum(s \ {Chosen(s)}) /\ Chosen(s) \in s
  BY <1>2, <1>3, SumStep, ChosenIn DEF Sum
<1>5. Chosen(s) # y
  BY <1>2, <1>4
<1>6. PICK c \in s : c = Chosen(s)
  BY <1>4
<1>7. Sum(s \ {c}) = w[y] + Sum(s \ {c, y})
  <2>1. s \ {c} \notin Wrong /\ y \in s \ {c} /\ (s \ {c}) \ {y} = s \ {c, y}
    BY <1>1, <1>5, <1>6
  <2> QED
    BY <2>1
<1>8. Sum(s \ {y}) = w[c] + Sum(s \ {c, y})
  <2>1. s \ {y} \notin Wrong /\ c \in s \ {y} /\ (s \ {y}) \ {c} = s \ {c, y}
    BY <1>1, <1>5, <1>6
  <2> QED
    BY <2>1
<1>9. /\ w[y] \in Int /\ w[c] \in Int /\ Sum(s \ {c, y}) \in Int
  BY <1>3
<1> QED
  BY <1>2, <1>4, <1>6, <1>7, <1>8, <1>9

\* One more is added.
LEMMA SumAdd ==
  ASSUME NEW w, NEW S, IsFiniteSet(S), \A x \in S : w[x] \in Int, NEW x, w[x] \in Int, x \notin S
  PROVE  SumFunctionOnSet(w, S \cup {x}) = w[x] + SumFunctionOnSet(w, S)
<1>1. IsFiniteSet(S \cup {x}) /\ (S \cup {x}) \ {x} = S
  BY FS_AddElement
<1> QED
  BY <1>1, SumRemove

\* What is not in the set does not matter.
LEMMA SumSame ==
  ASSUME NEW w, NEW v, NEW S, IsFiniteSet(S), \A x \in S : w[x] = v[x]
  PROVE  SumFunctionOnSet(w, S) = SumFunctionOnSet(v, S)
<1> DEFINE Wrong == {s \in SUBSET S : SumFunctionOnSet(w, s) # SumFunctionOnSet(v, s)}
<1> SUFFICES ASSUME Wrong # {} PROVE FALSE
  OBVIOUS
<1>1. PICK s \in Wrong : \A y \in Wrong : y \subseteq s => y = s
  <2>1. Wrong \subseteq SUBSET S
    OBVIOUS
  <2> HIDE DEF Wrong
  <2> QED
    BY <2>1, LeastSet
<1>2. IsFiniteSet(s)
  BY FS_Subset
<1>3. s # {}
  BY <1>2, SumStep
<1>4. Chosen(s) \in s
  BY <1>3, ChosenIn
<1>5. SumFunctionOnSet(w, s \ {Chosen(s)}) = SumFunctionOnSet(v, s \ {Chosen(s)})
  BY <1>1, <1>4
<1>6. /\ SumFunctionOnSet(w, s) = w[Chosen(s)] + SumFunctionOnSet(w, s \ {Chosen(s)})
      /\ SumFunctionOnSet(v, s) = v[Chosen(s)] + SumFunctionOnSet(v, s \ {Chosen(s)})
  BY <1>2, <1>3, SumStep
<1> QED
  BY <1>4, <1>5, <1>6

\* One element changes.
LEMMA SumChange ==
  ASSUME NEW w, NEW v, NEW S, IsFiniteSet(S),
         \A x \in S : w[x] \in Int /\ v[x] \in Int, NEW y \in S,
         \A x \in S : x # y => w[x] = v[x]
  PROVE  SumFunctionOnSet(v, S) = SumFunctionOnSet(w, S) + (v[y] - w[y])
<1>1. SumFunctionOnSet(v, S) = v[y] + SumFunctionOnSet(v, S \ {y})
  BY SumRemove
<1>2. SumFunctionOnSet(w, S) = w[y] + SumFunctionOnSet(w, S \ {y})
  BY SumRemove
<1>3. IsFiniteSet(S \ {y})
  BY FS_RemoveElement
<1>4. SumFunctionOnSet(w, S \ {y}) = SumFunctionOnSet(v, S \ {y})
  BY <1>3, SumSame
<1>5. SumFunctionOnSet(w, S \ {y}) \in Int
  BY <1>3, SumInt
<1> QED
  BY <1>1, <1>2, <1>4, <1>5

\* Nothing adds up to nothing.
LEMMA SumZero ==
  ASSUME NEW w, NEW S, IsFiniteSet(S), \A x \in S : w[x] = 0
  PROVE  SumFunctionOnSet(w, S) = 0
<1> DEFINE Wrong == {s \in SUBSET S : SumFunctionOnSet(w, s) # 0}
<1> SUFFICES ASSUME Wrong # {} PROVE FALSE
  OBVIOUS
<1>1. PICK s \in Wrong : \A y \in Wrong : y \subseteq s => y = s
  <2>1. Wrong \subseteq SUBSET S
    OBVIOUS
  <2> HIDE DEF Wrong
  <2> QED
    BY <2>1, LeastSet
<1>2. IsFiniteSet(s)
  BY FS_Subset
<1>3. s # {}
  BY <1>2, SumStep
<1>4. Chosen(s) \in s
  BY <1>3, ChosenIn
<1>5. SumFunctionOnSet(w, s \ {Chosen(s)}) = 0
  BY <1>1, <1>4
<1>6. SumFunctionOnSet(w, s) = w[Chosen(s)] + SumFunctionOnSet(w, s \ {Chosen(s)})
  BY <1>2, <1>3, SumStep
<1> QED
  BY <1>4, <1>5, <1>6

\* The same for a function over the whole of its domain: it adds up to a number,
\* nothing where it has no element, and alike where it is alike.
LEMMA SumOfFunction ==
  ASSUME NEW w, IsFiniteSet(DOMAIN w), \A x \in DOMAIN w : w[x] \in Int
  PROVE  /\ SumFunction(w) \in Int
         /\ DOMAIN w = {} => SumFunction(w) = 0
         /\ \A v : DOMAIN v = DOMAIN w /\ (\A x \in DOMAIN w : v[x] = w[x]) =>
               SumFunction(v) = SumFunction(w)
<1>1. SumFunctionOnSet(w, DOMAIN w) \in Int
  BY SumInt
<1>2. SumFunctionOnSet(w, {}) = 0
  BY SumStep
<1>3. ASSUME NEW v, DOMAIN v = DOMAIN w, \A x \in DOMAIN w : v[x] = w[x]
      PROVE  SumFunctionOnSet(v, DOMAIN v) = SumFunctionOnSet(w, DOMAIN w)
  <2>1. \A x \in DOMAIN w : w[x] = v[x]
    BY <1>3
  <2>2. SumFunctionOnSet(w, DOMAIN w) = SumFunctionOnSet(v, DOMAIN w)
    BY <2>1, SumSame
  <2> QED
    BY <1>3, <2>2
<1> QED
  BY <1>1, <1>2, <1>3 DEF SumFunction

\* One more element adds its value.
LEMMA SumGrows ==
  ASSUME NEW w, NEW v, NEW k, IsFiniteSet(DOMAIN w), \A x \in DOMAIN w : w[x] \in Int,
         k \notin DOMAIN w, DOMAIN v = DOMAIN w \cup {k}, v[k] \in Int,
         \A x \in DOMAIN w : v[x] = w[x]
  PROVE  SumFunction(v) = SumFunction(w) + v[k]
<1> DEFINE S == DOMAIN w
<1>1. \A x \in S : v[x] \in Int /\ w[x] = v[x]
  OBVIOUS
<1> HIDE DEF S
<1>2. IsFiniteSet(S) /\ k \notin S
  BY DEF S
<1>3. SumFunctionOnSet(v, S \cup {k}) = v[k] + SumFunctionOnSet(v, S)
  BY <1>1, <1>2, SumAdd
<1>4. SumFunctionOnSet(w, S) = SumFunctionOnSet(v, S)
  BY <1>1, <1>2, SumSame
<1>5. SumFunctionOnSet(v, S) \in Int
  BY <1>1, <1>2, SumInt
<1> QED
  BY <1>3, <1>4, <1>5 DEF S, SumFunction

\* What one element changes by, the sum changes by.
LEMMA SumMoves ==
  ASSUME NEW S, IsFiniteSet(S), NEW w \in [S -> Int], NEW k \in S, NEW d \in Int
  PROVE  SumFunction([w EXCEPT ![k] = @ + d]) = SumFunction(w) + d
         /\ SumFunction(w) \in Int
<1> DEFINE v == [w EXCEPT ![k] = @ + d]
<1>1. /\ DOMAIN v = S /\ DOMAIN w = S /\ v[k] = w[k] + d
      /\ \A x \in S : w[x] \in Int /\ v[x] \in Int
      /\ \A x \in S : x # k => w[x] = v[x]
  OBVIOUS
<1> HIDE DEF v
<1>2. SumFunctionOnSet(v, S) = SumFunctionOnSet(w, S) + (v[k] - w[k])
  BY <1>1, SumChange
<1>3. SumFunctionOnSet(w, S) \in Int
  BY <1>1, SumInt
<1> QED
  BY <1>1, <1>2, <1>3 DEF SumFunction, v

\* Two disjoint sets add up to the sum of both.
LEMMA SumJoin ==
  ASSUME NEW w, NEW S, IsFiniteSet(S), \A x \in S : w[x] \in Int,
         NEW T, IsFiniteSet(T), \A x \in T : w[x] \in Int, S \cap T = {}
  PROVE  SumFunctionOnSet(w, S \cup T) = SumFunctionOnSet(w, S) + SumFunctionOnSet(w, T)
<1> DEFINE Sum(s) == SumFunctionOnSet(w, s)
           Wrong == {t \in SUBSET T : Sum(S \cup t) # Sum(S) + Sum(t)}
<1> HIDE DEF Sum
<1> SUFFICES Wrong = {}
  BY DEF Sum
<1> SUFFICES ASSUME Wrong # {} PROVE FALSE
  OBVIOUS
<1>1. PICK t \in Wrong : \A y \in Wrong : y \subseteq t => y = t
  <2>1. Wrong \subseteq SUBSET T
    OBVIOUS
  <2> HIDE DEF Wrong
  <2> QED
    BY <2>1, LeastSet
<1>2. Sum({}) = 0 /\ Sum(S) \in Int
  BY FS_EmptySet, SumStep, SumInt DEF Sum
<1>3. CASE t = {}
  BY <1>1, <1>2, <1>3
<1>4. CASE t # {}
  <2>1. PICK c \in t : TRUE
    BY <1>4
  <2> DEFINE r == t \ {c}
  <2>2. r \notin Wrong /\ r \in SUBSET T /\ c \notin r /\ t = r \cup {c} /\ c \in T
    BY <1>1, <2>1
  <2> HIDE DEF r, Wrong
  <2>3. Sum(S \cup r) = Sum(S) + Sum(r)
    BY <2>2 DEF Wrong
  <2>4. IsFiniteSet(r) /\ IsFiniteSet(S \cup r)
    BY <2>2, FS_Subset, FS_Union
  <2>5. c \notin S \cup r /\ w[c] \in Int /\ (\A x \in r : w[x] \in Int)
        /\ (\A x \in S \cup r : w[x] \in Int)
    BY <2>2
  <2>6. Sum(r \cup {c}) = w[c] + Sum(r)
    BY <2>4, <2>5, SumAdd DEF Sum
  <2>7. Sum((S \cup r) \cup {c}) = w[c] + Sum(S \cup r)
    BY <2>4, <2>5, SumAdd DEF Sum
  <2>8. (S \cup r) \cup {c} = S \cup t /\ Sum(r) \in Int
    BY <2>2, <2>4, <2>5, SumInt DEF Sum
  <2>9. Sum(t) = w[c] + Sum(r)
    BY <2>2, <2>6
  <2>10. Sum(S \cup t) = w[c] + Sum(S \cup r)
    BY <2>7, <2>8
  <2>11. Sum(S \cup t) = Sum(S) + Sum(t)
    BY <1>2, <2>3, <2>5, <2>8, <2>9, <2>10
  <2> QED
    BY <1>1, <2>11 DEF Wrong
<1> QED
  BY <1>3, <1>4

\* A set that is split by a function adds up part by part.
LEMMA SumFibres ==
  ASSUME NEW w, NEW S, IsFiniteSet(S), \A x \in S : w[x] \in Int,
         NEW P, IsFiniteSet(P), NEW f, \A x \in S : f[x] \in P,
         NEW part, \A p \in P : part[p] \subseteq S,
         \A p \in P, x \in S : x \in part[p] <=> f[x] = p,
         NEW v, \A p \in P : v[p] = SumFunctionOnSet(w, part[p])
  PROVE  SumFunctionOnSet(v, P) = SumFunctionOnSet(w, S)
<1> DEFINE Sum(s) == SumFunctionOnSet(w, s)
           Part(s, p) == {x \in s : f[x] = p}
           V(s) == [p \in P |-> Sum(Part(s, p))]
           Wrong == {s \in SUBSET S : SumFunctionOnSet(V(s), P) # Sum(s)}
<1>1. ASSUME NEW s \in SUBSET S
      PROVE  /\ IsFiniteSet(s) /\ Sum(s) \in Int
             /\ \A p \in P : V(s)[p] = Sum(Part(s, p)) /\ V(s)[p] \in Int
  <2>1. \A r \in SUBSET S : IsFiniteSet(r) /\ (\A x \in r : w[x] \in Int)
    BY FS_Subset
  <2>2. \A r \in SUBSET S : Sum(r) \in Int
    BY <2>1, SumInt
  <2>3. \A p \in P : Part(s, p) \in SUBSET S
    OBVIOUS
  <2> HIDE DEF Part, Sum
  <2> QED
    BY <2>1, <2>2, <2>3
<1>2. Wrong = {}
  <2> SUFFICES ASSUME Wrong # {} PROVE FALSE
    OBVIOUS
  <2>1. PICK s \in Wrong : \A y \in Wrong : y \subseteq s => y = s
    <3>1. Wrong \subseteq SUBSET S
      OBVIOUS
    <3> HIDE DEF Wrong
    <3> QED
      BY <3>1, LeastSet
  <2>2. s \in SUBSET S /\ SumFunctionOnSet(V(s), P) # Sum(s)
    BY <2>1
  <2>3. CASE s = {}
    <3>1. Sum({}) = 0
      BY FS_EmptySet, SumStep
    <3>2. \A p \in P : Part({}, p) = {}
      OBVIOUS
    <3>3. \A p \in P : V(s)[p] = 0
      BY <1>1, <2>3, <3>1, <3>2
    <3> HIDE DEF V
    <3>4. SumFunctionOnSet(V(s), P) = 0
      BY <3>3, SumZero
    <3> QED
      BY <2>2, <2>3, <3>1, <3>4
  <2>4. CASE s # {}
    <3>1. PICK y \in s : TRUE
      BY <2>4
    <3> DEFINE r == s \ {y}
               q == f[y]
    <3>2. r \in SUBSET S /\ y \notin r /\ s = r \cup {y} /\ q \in P /\ w[y] \in Int
          /\ r \notin Wrong
      BY <2>1, <3>1
    <3>3. SumFunctionOnSet(V(r), P) = Sum(r)
      BY <3>2
    <3>4. \A p \in P : p # q => Part(s, p) = Part(r, p)
      BY <3>2
    <3>5. Part(s, q) = Part(r, q) \cup {y} /\ y \notin Part(r, q) /\ Part(r, q) \in SUBSET S
      BY <3>2
    <3> HIDE DEF r, q, Wrong, Part
    <3>6. IsFiniteSet(Part(r, q)) /\ (\A x \in Part(r, q) : w[x] \in Int)
      BY <3>5, FS_Subset
    <3>7. SumFunctionOnSet(w, Part(r, q) \cup {y}) = w[y] + SumFunctionOnSet(w, Part(r, q))
      BY <3>2, <3>5, <3>6, SumAdd
    <3>8. \A p \in P : V(r)[p] \in Int /\ V(s)[p] \in Int
      BY <1>1, <2>2, <3>2
    <3>9. \A p \in P : p # q => V(r)[p] = V(s)[p]
      BY <3>4
    <3>10. V(s)[q] = w[y] + V(r)[q]
      BY <3>2, <3>5, <3>7
    <3> HIDE DEF V
    <3>11. SumFunctionOnSet(V(s), P) = SumFunctionOnSet(V(r), P) + (V(s)[q] - V(r)[q])
      <4>1. PICK new, old : new = V(s) /\ old = V(r)
        OBVIOUS
      <4>2. /\ \A p \in P : old[p] \in Int /\ new[p] \in Int
            /\ \A p \in P : p # q => old[p] = new[p]
        BY <3>8, <3>9, <4>1
      <4>3. SumFunctionOnSet(new, P) = SumFunctionOnSet(old, P) + (new[q] - old[q])
        BY <3>2, <4>2, SumChange
      <4> QED
        BY <4>1, <4>3
    <3>12. SumFunctionOnSet(w, r \cup {y}) = w[y] + SumFunctionOnSet(w, r)
      <4>1. IsFiniteSet(r) /\ (\A x \in r : w[x] \in Int)
        BY <3>2, FS_Subset
      <4> QED
        BY <3>2, <4>1, SumAdd
    <3>13. Sum(r) \in Int /\ V(r)[q] \in Int
      BY <1>1, <3>2, <3>8
    <3> QED
      BY <2>2, <3>2, <3>3, <3>10, <3>11, <3>12, <3>13
  <2> QED
    BY <2>3, <2>4
<1>3. SumFunctionOnSet(V(S), P) = Sum(S)
  BY <1>2
<1>4. \A p \in P : v[p] = V(S)[p]
  <2>1. \A p \in P : part[p] = Part(S, p)
    OBVIOUS
  <2> HIDE DEF Part
  <2> QED
    BY <2>1
<1> HIDE DEF V
<1> QED
  BY <1>3, <1>4, SumSame

\* The sum of sums, element by element.
LEMMA SumPlus ==
  ASSUME NEW u, NEW v, NEW w, NEW S, IsFiniteSet(S),
         \A x \in S : u[x] \in Int /\ v[x] \in Int /\ w[x] = u[x] + v[x]
  PROVE  SumFunctionOnSet(w, S) = SumFunctionOnSet(u, S) + SumFunctionOnSet(v, S)
<1> DEFINE Wrong == {s \in SUBSET S : SumFunctionOnSet(w, s) #
                                         SumFunctionOnSet(u, s) + SumFunctionOnSet(v, s)}
<1> SUFFICES ASSUME Wrong # {} PROVE FALSE
  OBVIOUS
<1>1. PICK s \in Wrong : \A y \in Wrong : y \subseteq s => y = s
  <2>1. Wrong \subseteq SUBSET S
    OBVIOUS
  <2> HIDE DEF Wrong
  <2> QED
    BY <2>1, LeastSet
<1>2. IsFiniteSet(s)
  BY FS_Subset
<1>3. s # {}
  <2>1. SumFunctionOnSet(w, {}) = 0 /\ SumFunctionOnSet(u, {}) = 0 /\ SumFunctionOnSet(v, {}) = 0
    BY FS_EmptySet, SumStep
  <2>2. SumFunctionOnSet(w, s) # SumFunctionOnSet(u, s) + SumFunctionOnSet(v, s)
    OBVIOUS
  <2> HIDE DEF Wrong
  <2>3. s = {} => 0 # 0 + 0
    BY <2>1, <2>2
  <2> QED
    BY <2>3
<1> DEFINE x == Chosen(s)
           r == s \ {x}
<1>4. x \in s /\ r \in SUBSET S /\ r # s
  BY <1>3, ChosenIn
<1>5. IsFiniteSet(r) /\ \A y \in r : u[y] \in Int /\ v[y] \in Int
  BY <1>2, <1>4, FS_Subset
<1>6. SumFunctionOnSet(w, r) = SumFunctionOnSet(u, r) + SumFunctionOnSet(v, r)
  BY <1>1, <1>4
<1>7. /\ SumFunctionOnSet(w, s) = w[x] + SumFunctionOnSet(w, r)
      /\ SumFunctionOnSet(u, s) = u[x] + SumFunctionOnSet(u, r)
      /\ SumFunctionOnSet(v, s) = v[x] + SumFunctionOnSet(v, r)
  BY <1>2, <1>3, SumStep
<1>8. SumFunctionOnSet(u, r) \in Int /\ SumFunctionOnSet(v, r) \in Int
  BY <1>5, SumInt
<1>9. u[x] \in Int /\ v[x] \in Int /\ w[x] = u[x] + v[x]
  BY <1>4
<1>10. SumFunctionOnSet(w, s) # SumFunctionOnSet(u, s) + SumFunctionOnSet(v, s)
  OBVIOUS
<1> HIDE DEF x, r, Wrong
<1> QED
  BY <1>6, <1>7, <1>8, <1>9, <1>10
=============================================================================
