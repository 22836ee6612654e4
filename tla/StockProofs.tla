---------------------------- MODULE StockProofs ----------------------------
(***************************************************************************)
(* Theorems about Stock, for any number of rows, of concurrent requests    *)
(* and of movements in a request: every request takes effect at once, as   *)
(* AtomicStock says, and the inventory account follows the goods.          *)
(*                                                                         *)
(* An open transaction sees the rows as the movements it has made would    *)
(* leave them if they were made now.  That stays true while others commit, *)
(* because it is said of all rows that are as committed where the          *)
(* transaction holds a lock, whatever they are elsewhere (Serial), and     *)
(* nobody else commits a row that is locked (Exclusive).                   *)
(***************************************************************************)
EXTENDS Stock, StockCount, JournalProofs

\* The facts of integer arithmetic the proofs use.
LEMMA MulNat == \A m, n \in Nat : m * n \in Nat
  OBVIOUS

\* A product of integers is one.
LEMMA MulInt == \A m, n \in Int : m * n \in Int
  OBVIOUS

\* Multiplication distributes over sums.
LEMMA MulAdd == \A m, n, p \in Int : (m + n) * p = m * p + n * p
  OBVIOUS

\* Dividing leaves a rest that is smaller than the divisor.
LEMMA DivBound ==
  ASSUME NEW n \in Int, NEW d \in Nat \ {0}
  PROVE  n \div d \in Int /\ d * (n \div d) <= n /\ n < d * (n \div d) + d
  OBVIOUS

\* What is rounded is off by half a digit at most.
LEMMA RoundBound ==
  ASSUME NEW n \in Int, NEW d \in Nat \ {0}
  PROVE  /\ RoundDiv(n, d) \in Int
         /\ n \in Nat => RoundDiv(n, d) \in Nat
         /\ -d <= 2 * (d * RoundDiv(n, d) - n)
         /\ 2 * (d * RoundDiv(n, d) - n) <= d
<1>1. 2 * d \in Nat \ {0} /\ 2 * n + d \in Int /\ (n \in Nat => 2 * n + d \in Nat)
  OBVIOUS
<1> DEFINE q == (2 * n + d) \div (2 * d)
<1>2. q \in Int /\ (2 * d) * q <= 2 * n + d /\ 2 * n + d < (2 * d) * q + 2 * d
  BY <1>1, DivBound
<1>3. n \in Nat => q \in Nat
  BY <1>1
<1> HIDE DEF q
<1>4. (2 * d) * q = 2 * (d * q) /\ d * q \in Int
  BY <1>2
<1>5. -d <= 2 * (d * q - n) /\ 2 * (d * q - n) <= d
  BY <1>2, <1>4
<1> QED
  BY <1>2, <1>3, <1>5 DEF RoundDiv, q

-----------------------------------------------------------------------------
\* A row that is moved as far as there are goods is a row.
LEMMA MovedRow ==
  ASSUME NEW r \in Row, NEW q \in Int, NEW c \in Nat \cup {NoCost}, CanMove(r, q)
  PROVE  Moved(r, q, c) \in Row /\ Moved(r, q, c).qty = r.qty + q
<1>1. r.qty \in Nat /\ r.avg \in Nat /\ r.qty + q \in Nat
  BY DEF Row, CanMove
<1>2. CASE q > 0
  <2>1. EffectiveCost(r, c) \in Nat
    BY <1>1, ValuationAssumption DEF EffectiveCost
  <2>2. Worth(r) \in Nat /\ q * EffectiveCost(r, c) \in Nat
    BY <1>1, <1>2, <2>1, MulNat DEF Worth
  <2>3. Worth(r) + q * EffectiveCost(r, c) \in Nat /\ r.qty + q \in Nat \ {0}
    BY <1>1, <1>2, <2>2
  <2>4. RoundDiv(Worth(r) + q * EffectiveCost(r, c), r.qty + q) \in Nat
    <3> DEFINE n == Worth(r) + q * EffectiveCost(r, c)
               e == r.qty + q
    <3>1. n \in Nat /\ n \in Int /\ e \in Nat \ {0}
      BY <2>3
    <3> HIDE DEF n, e
    <3>2. RoundDiv(n, e) \in Nat
      BY <3>1, RoundBound
    <3> QED
      BY <3>2 DEF n, e
  <2> QED
    BY <1>1, <1>2, <2>4 DEF Moved, Row
<1>3. CASE ~(q > 0)
  BY <1>1, <1>3 DEF Moved, Row
<1> QED
  BY <1>2, <1>3

\* What a row is worth.
LEMMA WorthNat == \A r \in Row : Worth(r) \in Nat
  BY MulNat DEF Worth, Row

\* Goods that leave are worth their number times the average, which stays.
LEMMA IssuedWorth ==
  ASSUME NEW r \in Row, NEW q \in Int, NEW c, q < 0
  PROVE  /\ Moved(r, q, c).avg = r.avg
         /\ q * Moved(r, q, c).avg = Worth(Moved(r, q, c)) - Worth(r)
<1>1. r.qty \in Int /\ r.avg \in Int
  BY DEF Row
<1>2. Moved(r, q, c).avg = r.avg /\ Moved(r, q, c).qty = r.qty + q
  BY DEF Moved
<1>3. (r.qty + q) * r.avg = r.qty * r.avg + q * r.avg
  BY <1>1, MulAdd
<1>4. q * r.avg \in Int /\ r.qty * r.avg \in Int
  BY <1>1, MulInt
<1> QED
  BY <1>2, <1>3, <1>4 DEF Worth

\* What the rows are worth together.
LEMMA WorthIsNumber == \A lv \in [Level -> Row] : TotalWorth(lv) \in Int
<1> SUFFICES ASSUME NEW lv \in [Level -> Row] PROVE TotalWorth(lv) \in Int
  OBVIOUS
<1> DEFINE worth == [l \in Level |-> Worth(lv[l])]
<1>1. DOMAIN worth = Level /\ \A l \in Level : worth[l] \in Int
  BY WorthNat
<1> HIDE DEF worth
<1>2. SumFunction(worth) \in Int
  BY <1>1, LevelsAssumption, SumOfFunction
<1> QED
  BY <1>2 DEF worth, TotalWorth

\* Rounding worth to cents is off by half a cent at most.
LEMMA Round2Bound ==
  ASSUME NEW w \in Int
  PROVE  /\ Round2(w) \in Int
         /\ -Cent <= 2 * (Cent * Round2(w) - w) /\ 2 * (Cent * Round2(w) - w) <= Cent
  BY LevelsAssumption, RoundBound DEF Round2

\* What is posted for one movement is within half a cent of the change in worth.
LEMMA PostedBound ==
  ASSUME NEW r \in Row, NEW s, s.qty \in Int, NEW c, NEW rr \in Row, rr = Moved(r, s.qty, c),
         NEW op \in {"adjust", "issue"}, op = "issue" => s.qty < 0
  PROVE  /\ Posted(op, r, s, rr) \in Int
         /\ WithinRounding(Posted(op, r, s, rr), Worth(rr) - Worth(r), 1)
<1> DEFINE d == Worth(rr) - Worth(r)
<1>1. d \in Int /\ -d \in Int /\ Cent \in Int /\ Cent * 1 = Cent
  BY WorthNat, LevelsAssumption
<1>2. CASE op = "adjust"
  <2>1. Posted(op, r, s, rr) = Round2(d)
    BY <1>2 DEF Posted
  <2> HIDE DEF d
  <2>2. Round2(d) \in Int /\ WithinRounding(Round2(d), d, 1)
    BY <1>1, Round2Bound DEF WithinRounding
  <2> QED
    BY <2>1, <2>2 DEF d
<1>3. CASE op = "issue"
  <2>1. s.qty * rr.avg = d
    BY <1>3, IssuedWorth
  <2>2. Posted(op, r, s, rr) = -Round2(-d)
    BY <1>3, <2>1 DEF Posted
  <2> HIDE DEF d
  <2> DEFINE p == Round2(-d)
  <2>3. p \in Int /\ -Cent <= 2 * (Cent * p - (-d)) /\ 2 * (Cent * p - (-d)) <= Cent
    BY <1>1, Round2Bound
  <2> HIDE DEF p
  <2>4. Cent * (-p) = -(Cent * p) /\ Cent * p \in Int
    BY <1>1, <2>3
  <2>5. -p \in Int /\ WithinRounding(-p, d, 1)
    BY <1>1, <2>3, <2>4 DEF WithinRounding
  <2> QED
    BY <2>2, <2>5 DEF p, d
<1> QED
  BY <1>2, <1>3

\* The roundings of two parts are those of the whole.
LEMMA RoundingAdds ==
  ASSUME NEW c \in Int, NEW w \in Int, NEW n \in Int, WithinRounding(c, w, n),
         NEW cc \in Int, NEW ww \in Int, NEW nn \in Int, WithinRounding(cc, ww, nn)
  PROVE  WithinRounding(c + cc, w + ww, n + nn)
<1>1. Cent \in Int
  BY LevelsAssumption
<1>2. Cent * (c + cc) = Cent * c + Cent * cc /\ Cent * (n + nn) = Cent * n + Cent * nn
  BY <1>1
<1>3. Cent * c \in Int /\ Cent * cc \in Int /\ Cent * n \in Int /\ Cent * nn \in Int
  BY <1>1
<1> DEFINE x == Cent * c
           xx == Cent * cc
           y == Cent * n
           yy == Cent * nn
<1>4. /\ -y <= 2 * (x - w) /\ 2 * (x - w) <= y
      /\ -yy <= 2 * (xx - ww) /\ 2 * (xx - ww) <= yy
  BY DEF WithinRounding
<1> HIDE DEF x, xx, y, yy
<1>5. -(y + yy) <= 2 * ((x + xx) - (w + ww)) /\ 2 * ((x + xx) - (w + ww)) <= y + yy
  BY <1>3, <1>4 DEF x, xx, y, yy
<1> QED
  BY <1>2, <1>5 DEF WithinRounding, x, xx, y, yy

\* One movement more.
LEMMA RoundingStep ==
  ASSUME NEW c \in Int, NEW w \in Int, NEW n \in Int, WithinRounding(c, w, n),
         NEW cc \in Int, NEW ww \in Int, WithinRounding(cc, ww, 1)
  PROVE  WithinRounding(c + cc, w + ww, n + 1)
<1> DEFINE one == 1
<1>1. one \in Int /\ WithinRounding(cc, ww, one) /\ n + one = n + 1
  OBVIOUS
<1> HIDE DEF one
<1>2. WithinRounding(c + cc, w + ww, n + one)
  BY <1>1, RoundingAdds
<1> QED
  BY <1>1, <1>2

\* Nothing is nothing in cents.
LEMMA NoRounding == WithinRounding(0, 0, 0)
  BY LevelsAssumption DEF WithinRounding

\* Moving one row changes the worth of all by the change of the worth of that one.
LEMMA WorthMoves ==
  ASSUME NEW lv \in [Level -> Row], NEW l \in Level, NEW rr \in Row
  PROVE  /\ TotalWorth(lv) \in Int
         /\ TotalWorth([lv EXCEPT ![l] = rr]) = TotalWorth(lv) + (Worth(rr) - Worth(lv[l]))
<1> DEFINE w == [k \in Level |-> Worth(lv[k])]
           d == Worth(rr) - Worth(lv[l])
<1>1. w \in [Level -> Int] /\ d \in Int
  BY WorthNat
<1>2. [k \in Level |-> Worth([lv EXCEPT ![l] = rr][k])] = [w EXCEPT ![l] = @ + d]
  <2>1. Worth(rr) \in Int /\ Worth(lv[l]) \in Int
    BY WorthNat
  <2>2. Worth(rr) = Worth(lv[l]) + d
    BY <2>1
  <2> HIDE DEF d
  <2> QED
    BY <2>2
<1> HIDE DEF w, d
<1>3. SumFunction([w EXCEPT ![l] = @ + d]) = SumFunction(w) + d /\ SumFunction(w) \in Int
  BY <1>1, LevelsAssumption, SumMoves
<1> QED
  BY <1>2, <1>3 DEF TotalWorth, w, d

-----------------------------------------------------------------------------
\* The rows after movement n of request m, if w are those before it.
Stepped(w, m, n) ==
    [w EXCEPT ![m.steps[n].row] = Moved(@, m.steps[n].qty, Atomic!Cost(w, m, n))]

\* f is the course of the first N movements of m, from the rows lv.
IsRun(f, lv, m, N) ==
    f = [n \in 0..N |-> IF n = 0 THEN lv ELSE Stepped(f[n - 1], m, n)]

\* AtomicStock moves a row as Stock does.
LEMMA SameMove == \A r, q, c : Atomic!Moved(r, q, c) = Moved(r, q, c)
  BY DEF Atomic!Moved, Moved, Atomic!RoundDiv, RoundDiv, Atomic!Worth, Worth,
         Atomic!EffectiveCost, EffectiveCost

\* A set of numbers up to N has a least one.
LEMMA LeastNumber ==
  ASSUME NEW N \in Nat, NEW P, P \subseteq 0..N, P # {}
  PROVE  \E k \in P : \A j \in P : k <= j
<1> DEFINE S == 0..N
           T == {0..k : k \in P}
<1>1. IsFiniteSet(S) /\ T \subseteq SUBSET S /\ T # {}
  <2>1. IsFiniteSet(S)
    BY FS_Interval
  <2>2. \A k \in P : 0..k \in SUBSET S /\ 0..k \in T
    OBVIOUS
  <2> QED
    BY <2>1, <2>2
<1>2. PICK x \in T : \A y \in T : y \subseteq x => y = x
  <2> HIDE DEF S, T
  <2> QED
    BY <1>1, LeastSet
<1>3. PICK k \in P : x = 0..k
  OBVIOUS
<1>4. ASSUME NEW j \in P PROVE k <= j
  <2>1. k \in Nat /\ j \in Nat
    OBVIOUS
  <2>2. j < k => 0..j \subseteq 0..k /\ k \notin 0..j /\ k \in 0..k
    BY <2>1
  <2>3. 0..j \in T
    OBVIOUS
  <2>4. j < k => FALSE
    BY <1>2, <1>3, <2>2, <2>3
  <2> QED
    BY <2>1, <2>4
<1> QED
  BY <1>4

\* Every request has a course.
LEMMA RunExists ==
  ASSUME NEW lv, NEW m, NEW N \in Nat
  PROVE  \E f : IsRun(f, lv, m, N)
<1> DEFINE Wrong == {k \in 0..N : ~ \E f : IsRun(f, lv, m, k)}
<1> SUFFICES ASSUME Wrong # {} PROVE FALSE
  OBVIOUS
<1>1. PICK k \in Wrong : \A j \in Wrong : k <= j
  <2>1. Wrong \subseteq 0..N
    OBVIOUS
  <2> HIDE DEF Wrong
  <2> QED
    BY <2>1, LeastNumber
<1>2. k \in 0..N /\ ~ \E f : IsRun(f, lv, m, k)
  OBVIOUS
<1>3. CASE k = 0
  <2>1. IsRun([n \in 0..0 |-> lv], lv, m, 0)
    BY DEF IsRun
  <2> QED
    BY <1>2, <1>3, <2>1
<1>4. CASE k # 0
  <2>1. k - 1 \in 0..N /\ ~(k <= k - 1)
    BY <1>2, <1>4
  <2>2. PICK f : IsRun(f, lv, m, k - 1)
    BY <1>1, <2>1
  <2> DEFINE g == [n \in 0..k |-> IF n = k THEN Stepped(f[k - 1], m, k) ELSE f[n]]
  <2>3. ASSUME NEW n \in 0..k
        PROVE  g[n] = IF n = 0 THEN lv ELSE Stepped(g[n - 1], m, n)
    <3>1. CASE n = k
      BY <1>2, <1>4, <3>1
    <3>2. CASE n # k /\ n = 0
      BY <1>4, <2>2, <3>2 DEF IsRun
    <3>3. CASE n # k /\ n # 0
      <4>1. n \in 0..(k - 1) /\ n - 1 \in 0..k /\ n - 1 # k
        BY <3>3
      <4>2. g[n] = f[n] /\ g[n - 1] = f[n - 1]
        BY <3>3, <4>1
      <4>3. f[n] = Stepped(f[n - 1], m, n)
        BY <2>2, <3>3, <4>1 DEF IsRun
      <4> QED
        BY <3>3, <4>2, <4>3
    <3> QED
      BY <3>1, <3>2, <3>3
  <2>4. g = [n \in 0..k |-> g[n]]
    OBVIOUS
  <2>5. IsRun(g, lv, m, k)
    <3> HIDE DEF g
    <3> QED
      BY <2>3, <2>4 DEF IsRun
  <2> QED
    BY <1>2, <2>5
<1> QED
  BY <1>3, <1>4

\* What a course is, movement after movement.
LEMMA RunIs ==
  ASSUME NEW lv, NEW m, Len(m.steps) \in Nat
  PROVE  /\ Atomic!Run(lv, m)[0] = lv
         /\ \A n \in 1..Len(m.steps) :
               Atomic!Run(lv, m)[n] = Stepped(Atomic!Run(lv, m)[n - 1], m, n)
<1> DEFINE f == Atomic!Run(lv, m)
           N == Len(m.steps)
<1>1. f = CHOOSE g : IsRun(g, lv, m, N)
  BY SameMove, Zenon DEF Atomic!Run, IsRun, Stepped
<1>2. IsRun(f, lv, m, N)
  BY <1>1, RunExists
<1> HIDE DEF f, N
<1>3. N \in Nat
  BY DEF N
<1>4. f[0] = lv /\ \A n \in 1..N : f[n] = Stepped(f[n - 1], m, n)
  BY <1>2, <1>3 DEF IsRun
<1> QED
  BY <1>4 DEF f, N

-----------------------------------------------------------------------------
\* The request transaction t runs, as clients send it.
Of(t) == [op |-> tx[t].op, steps |-> tx[t].steps]

\* The rows lv, and in place of some of them those t has updated.
SeenFrom(t, lv) == [l \in Level |-> IF Holds(t, l) THEN work[t][l] ELSE lv[l]]

\* The rows lv are as committed where t holds a lock.
Agrees(t, lv) == \A l \in Level : Holds(t, l) => lv[l] = level[l]

\* A row is locked by one transaction at most.
Exclusive == \A t, u \in Tx, l \in Level : t # u /\ Holds(t, l) => ~Holds(u, l)

\* A transaction without a request holds no lock.  One with a request runs what a
\* client sent, and passes on in a transfer the average of the row the goods left.
RequestOK(t) ==
    /\ ~Open(t) => work[t] = Untouched
    /\ Open(t) => Of(t) \in Moves /\ tx[t].done <= Len(tx[t].steps)
    /\ tx[t].op = "transfer" /\ tx[t].done = 1 =>
          LET l == tx[t].steps[1].row IN Holds(t, l) /\ tx[t].cost = work[t][l].avg

\* What t has done so far it would have done at once on any rows that agree with
\* the committed ones where it holds a lock.
Serial(t) ==
    Open(t) => \A lv \in [Level -> Row] : Agrees(t, lv) =>
        /\ Atomic!Run(lv, Of(t))[tx[t].done] = SeenFrom(t, lv)
        /\ \A n \in 1..tx[t].done : Atomic!Fitting(lv, Of(t), n)
        /\ tx[t].op \in {"adjust", "issue"} =>
              WithinRounding(tx[t].delta, TotalWorth(SeenFrom(t, lv)) - TotalWorth(lv),
                             tx[t].done)

\* The inductive invariant.
StockInv == TypeOK /\ Exclusive /\ \A t \in Tx : RequestOK(t) /\ Serial(t)

-----------------------------------------------------------------------------
\* Stock starts in the invariant.
LEMMA InitStockInv == Init => StockInv
  BY ValuationAssumption
     DEF Init, StockInv, TypeOK, Exclusive, RequestOK, Serial, Open, NoRequest, Request, Row,
         Untouched, Holds

\* A request is not disturbed by what others do to rows it has not locked.
LEMMA Frame ==
  ASSUME NEW t \in Tx, RequestOK(t), Serial(t), tx'[t] = tx[t], work'[t] = work[t],
         \A l \in Level : Holds(t, l) => level'[l] = level[l]
  PROVE  RequestOK(t)' /\ Serial(t)'
<1>1. /\ Open(t)' = Open(t) /\ Of(t)' = Of(t)
      /\ \A l \in Level : Holds(t, l)' = Holds(t, l)
  BY DEF Open, Of, Holds
<1>2. RequestOK(t)'
  BY <1>1 DEF RequestOK, Holds
<1>3. \A lv : (Agrees(t, lv)' => Agrees(t, lv)) /\ SeenFrom(t, lv)' = SeenFrom(t, lv)
  BY <1>1 DEF Agrees, SeenFrom
<1>4. Serial(t)'
  BY <1>1, <1>3 DEF Serial
<1> QED
  BY <1>2, <1>4

\* A request that has made no movement yet.
LEMMA BeginStep ==
  ASSUME StockInv, NEW t \in Tx, Begin(t)
  PROVE  StockInv'
<1>1. PICK m \in Moves :
         /\ ~Open(t) /\ level' = level /\ work' = work
         /\ tx' = [tx EXCEPT ![t] = [NoRequest EXCEPT !.op = m.op, !.steps = m.steps]]
  BY DEF Begin
<1>2. m.op \in {"open", "adjust", "transfer", "issue", "receive"} /\ m.steps \in Seq(Step)
  BY LevelsAssumption
<1>3. /\ tx'[t].op = m.op /\ tx'[t].steps = m.steps /\ tx'[t].done = 0 /\ tx'[t].delta = 0
      /\ tx'[t] \in Request
  <2>1. tx'[t] = [op |-> m.op, steps |-> m.steps, done |-> 0, delta |-> 0, cost |-> NoCost]
    BY <1>1 DEF StockInv, TypeOK, NoRequest
  <2> QED
    BY <1>2, <2>1 DEF Request
<1>4. TypeOK' /\ Exclusive'
  BY <1>1, <1>3 DEF StockInv, TypeOK, Exclusive, Holds
<1>5. \A u \in Tx \ {t} : tx'[u] = tx[u]
  BY <1>1 DEF StockInv, TypeOK
<1>6. Of(t)' = m
  BY <1>3, LevelsAssumption DEF Of
<1>7. RequestOK(t)'
  BY <1>1, <1>2, <1>3, <1>6 DEF StockInv, RequestOK, Open
<1>8. Serial(t)'
  <2> SUFFICES ASSUME NEW lv \in [Level -> Row]
               PROVE  /\ Atomic!Run(lv, m)[0] = SeenFrom(t, lv)'
                      /\ TotalWorth(SeenFrom(t, lv)') - TotalWorth(lv) = 0
    BY <1>3, <1>6, NoRounding DEF Serial
  <2>1. SeenFrom(t, lv)' = lv
    BY <1>1 DEF StockInv, RequestOK, SeenFrom, Holds, Untouched
  <2>2. TotalWorth(lv) \in Int
    BY WorthIsNumber
  <2>3. Len(m.steps) \in Nat
    BY <1>2
  <2> QED
    BY <2>1, <2>2, <2>3, RunIs
<1> QED
  BY <1>1, <1>4, <1>5, <1>7, <1>8, Frame DEF StockInv

\* A transaction that ends gives up its locks.
LEMMA FinishStep ==
  ASSUME StockInv, NEW t \in Tx, Open(t), Finish(t), level' \in [Level -> Row],
         \A l \in Level : level'[l] = level[l] \/ Holds(t, l)
  PROVE  StockInv'
<1>1. /\ tx'[t] = NoRequest /\ work'[t] = Untouched
      /\ \A u \in Tx \ {t} : tx'[u] = tx[u] /\ work'[u] = work[u]
  BY DEF StockInv, TypeOK, Finish
<1>2. TypeOK'
  BY DEF StockInv, TypeOK, Finish, NoRequest, Request, Untouched
<1>3. Exclusive'
  BY <1>1 DEF StockInv, Exclusive, Holds, Untouched
<1>4. RequestOK(t)' /\ Serial(t)'
  BY <1>1 DEF RequestOK, Serial, Open, NoRequest
<1>5. ASSUME NEW u \in Tx \ {t} PROVE RequestOK(u)' /\ Serial(u)'
  BY <1>1, Frame DEF StockInv, Exclusive
<1> QED
  BY <1>2, <1>3, <1>4, <1>5 DEF StockInv

\* A movement: the row is locked now, and what t sees is one movement further.
LEMMA MoveStep ==
  ASSUME StockInv, NEW t \in Tx, Move(t)
  PROVE  StockInv'
<1> DEFINE s  == NextStep(t)
           r  == Seen(t, s.row)
           c  == GivenCost(t)
           rr == Moved(r, s.qty, c)
           n  == tx[t].done + 1
<1>1. /\ Open(t) /\ Pending(t) /\ \A u \in Tx : ~WaitsFor(t, u)
      /\ CanMove(r, s.qty) /\ rr.qty <= MaxQty /\ level' = level
      /\ work' = [work EXCEPT ![t][s.row] = rr]
      /\ tx' = [tx EXCEPT ![t].done = @ + 1, ![t].delta = @ + Posted(tx[t].op, r, s, rr),
                          ![t].cost = rr.avg]
  BY DEF Move
<1>2. /\ tx[t] \in Request /\ work[t] \in [Level -> Row \cup {None}] /\ Of(t) \in Moves
      /\ tx[t].done \in Nat /\ n \in 1..Len(tx[t].steps) /\ Len(tx[t].steps) \in Nat
  BY <1>1 DEF StockInv, TypeOK, RequestOK, Request, Pending
<1>3. s \in Step /\ s = tx[t].steps[n] /\ s.row \in Level /\ s.qty \in Int
  <2>1. tx[t].steps \in Seq(Step)
    BY <1>2 DEF Request
  <2>2. tx[t].steps[n] \in Step
    BY <1>2, <2>1
  <2> QED
    BY <2>2 DEF NextStep, Step
<1>4. r \in Row
  BY <1>2, <1>3 DEF StockInv, TypeOK, Seen, Holds
<1>5. c \in Nat \cup {NoCost}
  BY <1>2, <1>3 DEF GivenCost, Request, Step
<1>6. rr \in Row /\ rr.qty = r.qty + s.qty
  BY <1>1, <1>3, <1>4, <1>5, MovedRow
<1>7. Posted(tx[t].op, r, s, rr) \in Int
  <2>1. Worth(r) \in Nat /\ Worth(rr) \in Nat
    BY <1>4, <1>6, WorthNat
  <2>2. tx[t].op = "issue" => -(s.qty * rr.avg) \in Int
    <3>1. s.qty \in Int /\ rr.avg \in Int
      BY <1>3, <1>6 DEF Row
    <3>2. s.qty * rr.avg \in Int
      BY <3>1, MulInt
    <3> QED
      BY <3>2
  <2>3. tx[t].op = "receive" => s.qty * s.cost \in Int
    BY <1>2, <1>3, LevelsAssumption, MulInt DEF Of, Step
  <2>4. Worth(rr) - Worth(r) \in Int
    BY <2>1
  <2> QED
    BY <2>2, <2>3, <2>4, Round2Bound DEF Posted
<1>8. /\ tx'[t].op = tx[t].op /\ tx'[t].steps = tx[t].steps /\ tx'[t].done = n
      /\ tx'[t].delta = tx[t].delta + Posted(tx[t].op, r, s, rr) /\ tx'[t].cost = rr.avg
      /\ tx'[t] \in Request
      /\ work'[t] = [work[t] EXCEPT ![s.row] = rr]
      /\ \A u \in Tx \ {t} : tx'[u] = tx[u] /\ work'[u] = work[u]
  <2>1. /\ tx'[t] = [tx[t] EXCEPT !.done = @ + 1, !.delta = @ + Posted(tx[t].op, r, s, rr),
                               !.cost = rr.avg]
        /\ work'[t] = [work[t] EXCEPT ![s.row] = rr]
        /\ \A u \in Tx \ {t} : tx'[u] = tx[u] /\ work'[u] = work[u]
    BY <1>1 DEF StockInv, TypeOK
  <2> HIDE DEF s, r, c, rr
  <2>2. rr.avg \in Nat
    BY <1>6 DEF Row
  <2>3. tx'[t] = [op |-> tx[t].op, steps |-> tx[t].steps, done |-> n,
                  delta |-> tx[t].delta + Posted(tx[t].op, r, s, rr), cost |-> rr.avg]
    BY <1>2, <2>1 DEF Request
  <2>4. tx'[t] \in Request
    BY <1>2, <1>7, <2>2, <2>3 DEF Request
  <2> QED
    BY <2>1, <2>3, <2>4
<1> HIDE DEF s, r, c, rr
<1>9. TypeOK'
  <2>1. level' \in [Level -> Row] /\ tx' \in [Tx -> Request]
    BY <1>1, <1>8 DEF StockInv, TypeOK
  <2>2. work'[t] \in [Level -> Row \cup {None}]
    BY <1>2, <1>6, <1>8
  <2>3. work' \in [Tx -> [Level -> Row \cup {None}]]
    BY <1>1, <1>8, <2>2 DEF StockInv, TypeOK
  <2> QED
    BY <2>1, <2>3 DEF TypeOK
<1>10. \A l \in Level : Holds(t, l)' <=> l = s.row \/ Holds(t, l)
  BY <1>2, <1>3, <1>6, <1>8, LevelsAssumption DEF Holds
<1>11. Exclusive'
  <2>1. \A u \in Tx \ {t} : ~Holds(u, s.row)
    BY <1>1 DEF WaitsFor, s
  <2>2. \A u \in Tx \ {t}, l \in Level : Holds(u, l)' = Holds(u, l)
    BY <1>8 DEF Holds
  <2> QED
    BY <1>10, <2>1, <2>2 DEF StockInv, Exclusive
<1>12. RequestOK(t)'
  <2>1. tx'[t].op = "transfer" /\ tx'[t].done = 1 => s.row = tx[t].steps[1].row
    BY <1>2, <1>3, <1>8
  <2>2. work'[t][s.row] = rr /\ rr # None
    BY <1>2, <1>3, <1>6, <1>8, LevelsAssumption
  <2>3. Open(t)' /\ Of(t)' = Of(t) /\ tx'[t].done <= Len(tx'[t].steps)
    BY <1>1, <1>2, <1>8 DEF Open, Of
  <2>4. tx'[t].op = "transfer" /\ tx'[t].done = 1 =>
           LET l == tx'[t].steps[1].row IN work'[t][l] # None /\ tx'[t].cost = work'[t][l].avg
    BY <1>8, <2>1, <2>2
  <2> QED
    BY <1>2, <2>3, <2>4 DEF RequestOK, Holds
<1>13. ASSUME NEW lv \in [Level -> Row], Agrees(t, lv)'
       PROVE  /\ Atomic!Run(lv, Of(t))[n] = SeenFrom(t, lv)'
              /\ \A i \in 1..n : Atomic!Fitting(lv, Of(t), i)
              /\ tx[t].op \in {"adjust", "issue"} =>
                    WithinRounding(tx'[t].delta, TotalWorth(SeenFrom(t, lv)') - TotalWorth(lv), n)
  <2> DEFINE seen == SeenFrom(t, lv)
  <2>1. Agrees(t, lv) /\ (Holds(t, s.row) \/ lv[s.row] = level[s.row])
    BY <1>1, <1>3, <1>10, <1>13 DEF Agrees
  <2>2. /\ Atomic!Run(lv, Of(t))[tx[t].done] = seen
        /\ \A i \in 1..tx[t].done : Atomic!Fitting(lv, Of(t), i)
        /\ tx[t].op \in {"adjust", "issue"} =>
              WithinRounding(tx[t].delta, TotalWorth(seen) - TotalWorth(lv), tx[t].done)
    BY <1>1, <2>1 DEF StockInv, Serial
  <2>3. seen \in [Level -> Row] /\ seen[s.row] = r
    BY <1>2, <1>3, <2>1 DEF SeenFrom, Holds, Seen, r
  <2>4. SeenFrom(t, lv)' = [seen EXCEPT ![s.row] = rr]
    BY <1>2, <1>3, <1>6, <1>8, <1>10 DEF SeenFrom
  <2>5. Atomic!Cost(seen, Of(t), n) = c
    <3>1. CASE tx[t].op = "transfer" /\ tx[t].done = 1
      <4>1. tx[t].steps[1].row \in Level
        <5>1. tx[t].steps \in Seq(Step) /\ 1 \in 1..Len(tx[t].steps)
          BY <1>2, <3>1 DEF Request
        <5>2. tx[t].steps[1] \in Step
          BY <5>1
        <5> QED
          BY <5>2 DEF Step
      <4>2. seen[tx[t].steps[1].row].avg = tx[t].cost
        BY <3>1, <4>1 DEF StockInv, RequestOK, SeenFrom
      <4> QED
        BY <3>1, <4>2 DEF Atomic!Cost, Of, GivenCost, c
    <3>2. CASE ~(tx[t].op = "transfer" /\ tx[t].done = 1)
      BY <1>2, <1>3, <3>2 DEF Atomic!Cost, Of, GivenCost, NextStep, c
    <3> QED
      BY <3>1, <3>2
  <2>6. Atomic!Run(lv, Of(t))[n] = [seen EXCEPT ![s.row] = rr]
    <3>1. /\ Of(t).steps[n] = s /\ Len(Of(t).steps) \in Nat /\ n \in 1..Len(Of(t).steps)
          /\ n - 1 = tx[t].done
      BY <1>2, <1>3 DEF Of
    <3>2. Atomic!Run(lv, Of(t))[n] = Stepped(Atomic!Run(lv, Of(t))[n - 1], Of(t), n)
      BY <3>1, RunIs
    <3> QED
      BY <2>2, <2>3, <2>5, <3>1, <3>2 DEF Stepped, rr
  <2>7. Atomic!Fitting(lv, Of(t), n)
    <3>1. Of(t).steps[n] = s /\ [seen EXCEPT ![s.row] = rr][s.row] = rr
      BY <1>2, <1>3, <2>3 DEF Of
    <3>2. 0 <= rr.qty /\ rr.qty <= MaxQty
      BY <1>1, <1>6 DEF Row, rr, r, s, c
    <3> QED
      BY <2>6, <3>1, <3>2 DEF Atomic!Fitting
  <2>8. tx[t].op \in {"adjust", "issue"} =>
           WithinRounding(tx'[t].delta, TotalWorth([seen EXCEPT ![s.row] = rr]) - TotalWorth(lv), n)
    <3> SUFFICES ASSUME tx[t].op \in {"adjust", "issue"}
                 PROVE  WithinRounding(tx'[t].delta,
                                       TotalWorth([seen EXCEPT ![s.row] = rr]) - TotalWorth(lv), n)
      OBVIOUS
    <3> DEFINE made == TotalWorth(seen) - TotalWorth(lv)
               d == Worth(rr) - Worth(r)
               p == Posted(tx[t].op, r, s, rr)
    <3>1. /\ TotalWorth([seen EXCEPT ![s.row] = rr]) = TotalWorth(seen) + d
          /\ TotalWorth(seen) \in Int /\ TotalWorth(lv) \in Int
      BY <1>3, <1>6, <2>3, WorthMoves
    <3>2. d \in Int
      BY <1>4, <1>6, WorthNat
    <3>3. p \in Int /\ WithinRounding(p, d, 1)
      <4>1. tx[t].op = "issue" => s.qty < 0
        BY <1>2, <1>3, LevelsAssumption DEF Of
      <4> QED
        BY <1>3, <1>4, <1>6, <4>1, PostedBound DEF rr
    <3>4. tx[t].delta \in Int /\ WithinRounding(tx[t].delta, made, tx[t].done)
      BY <1>2, <2>2 DEF Request
    <3>5. made + d = TotalWorth([seen EXCEPT ![s.row] = rr]) - TotalWorth(lv) /\ made \in Int
      BY <3>1, <3>2
    <3> HIDE DEF made, d, p
    <3>6. WithinRounding(tx[t].delta + p, made + d, tx[t].done + 1)
      <4>1. tx[t].done \in Int
        BY <1>2
      <4> QED
        BY <3>2, <3>3, <3>4, <3>5, <4>1, RoundingStep
    <3> QED
      BY <1>8, <3>5, <3>6 DEF p
  <2> QED
    BY <1>2, <2>2, <2>4, <2>6, <2>7, <2>8
<1>14. Serial(t)'
  BY <1>1, <1>8, <1>13 DEF Serial, Of
<1> QED
  BY <1>1, <1>8, <1>9, <1>11, <1>12, <1>14, Frame DEF StockInv

\* What a transaction that has made its movements commits is what its request makes
\* of the rows at that moment.
LEMMA CommitIsRequest ==
  ASSUME StockInv, NEW t \in Tx, Commit(t)
  PROVE  /\ Of(t) \in Moves /\ Len(tx[t].steps) \in Nat
         /\ \A n \in 1..Len(tx[t].steps) : Atomic!Fitting(level, Of(t), n)
         /\ level' = Atomic!Run(level, Of(t))[Len(tx[t].steps)]
         /\ tx[t].op \in {"adjust", "issue"} =>
               WithinRounding(tx[t].delta, TotalWorth(level') - TotalWorth(level),
                              Len(tx[t].steps))
<1>1. Open(t) /\ ~Pending(t) /\ level' = [l \in Level |-> Seen(t, l)]
  BY DEF Commit
<1>2. tx[t] \in Request /\ Of(t) \in Moves /\ tx[t].done <= Len(tx[t].steps)
  BY <1>1 DEF StockInv, TypeOK, RequestOK
<1>3. tx[t].done = Len(tx[t].steps) /\ Len(tx[t].steps) \in Nat
  BY <1>1, <1>2 DEF Pending, Request
<1>4. level' = SeenFrom(t, level)
  BY <1>1 DEF Seen, SeenFrom
<1>5. level \in [Level -> Row] /\ Agrees(t, level)
  BY DEF StockInv, TypeOK, Agrees
<1> QED
  BY <1>1, <1>2, <1>3, <1>4, <1>5 DEF StockInv, Serial

\* Every step keeps the invariant.
LEMMA StepStockInv == StockInv /\ [Next]_vars => StockInv'
<1> SUFFICES ASSUME StockInv, [Next]_vars PROVE StockInv'
  OBVIOUS
<1>1. ASSUME NEW t \in Tx, Commit(t) PROVE StockInv'
  <2>1. level' = [l \in Level |-> Seen(t, l)] /\ Open(t) /\ Finish(t)
    BY <1>1 DEF Commit
  <2>2. level' \in [Level -> Row] /\ \A l \in Level : level'[l] = level[l] \/ Holds(t, l)
    BY <2>1 DEF StockInv, TypeOK, Seen, Holds
  <2> QED
    BY <2>1, <2>2, FinishStep
<1>2. ASSUME NEW t \in Tx, RolledBack(t) PROVE StockInv'
  BY <1>2, FinishStep DEF RolledBack, StockInv, TypeOK
<1>3. CASE UNCHANGED vars
  <2>1. /\ TypeOK' /\ Exclusive' /\ level' = level
        /\ \A t \in Tx : tx'[t] = tx[t] /\ work'[t] = work[t]
    BY <1>3 DEF StockInv, TypeOK, Exclusive, Holds, vars
  <2> QED
    BY <2>1, Frame DEF StockInv
<1> QED
  BY <1>1, <1>2, <1>3, BeginStep, MoveStep DEF Next, Refuse, Victim, Lose

\* The inductive invariant holds.
LEMMA StockInvariance == Spec => []StockInv
  BY InitStockInv, StepStockInv, PTL DEF Spec

\* Every variable keeps its type: no row is ever below zero, whatever the requests.
THEOREM TypeCorrect == Spec => []TypeOK
<1>1. StockInv => TypeOK
  BY DEF StockInv
<1> QED
  BY <1>1, StockInvariance, PTL

\* Requests that interleave, wait, roll back and are lost take effect one after the
\* other, each at the moment it commits.
THEOREM StockIsAtomic == Spec => ImplementsAtomicStock
<1>1. Init => Atomic!Init
  BY DEF Init, Atomic!Init
<1>2. StockInv /\ [Next]_vars => [Atomic!Next]_level
  <2> SUFFICES ASSUME StockInv, [Next]_vars PROVE [Atomic!Next]_level
    OBVIOUS
  <2>1. ASSUME NEW t \in Tx, Commit(t) PROVE Atomic!Next
    <3>1. Of(t).steps = tx[t].steps
      BY DEF Of
    <3>2. Of(t) \in Moves /\ Atomic!Request(Of(t))
      BY <2>1, <3>1, CommitIsRequest DEF Atomic!Request
    <3> QED
      BY <3>2 DEF Atomic!Next
  <2>2. ASSUME ~ \E t \in Tx : Commit(t) PROVE UNCHANGED level
    BY <2>2 DEF Next, vars, Begin, Move, Refuse, Victim, Lose, RolledBack
  <2> QED
    BY <2>1, <2>2
<1> QED
  BY <1>1, <1>2, StockInvariance, PTL DEF Spec, ImplementsAtomicStock, Atomic!Spec

-----------------------------------------------------------------------------
\* Goods that arrive at a price are worth it, but for the rounding of the average.
LEMMA ReceivedWorth ==
  ASSUME NEW r \in Row, NEW q \in Nat \ {0}, NEW c \in Nat
  PROVE  LET rr == Moved(r, q, c)
             d  == Worth(rr) - Worth(r) - q * c
         IN  2 * d <= rr.qty /\ -2 * d <= rr.qty
<1> DEFINE n == Worth(r) + q * c
           e == r.qty + q
           a == RoundDiv(n, e)
<1>1. r.qty \in Nat /\ e \in Nat \ {0}
  BY DEF Row
<1>2. Worth(r) \in Nat /\ q * c \in Nat
  BY WorthNat, MulNat
<1>3. n \in Nat
  BY <1>2
<1>4. a \in Nat /\ -e <= 2 * (e * a - n) /\ 2 * (e * a - n) <= e
  <2> HIDE DEF n, e
  <2> QED
    BY <1>1, <1>3, RoundBound
<1>5. Moved(r, q, c).qty = e /\ Moved(r, q, c).avg = a
  BY ValuationAssumption DEF Moved, EffectiveCost
<1>6. Worth(Moved(r, q, c)) = e * a
  BY <1>5 DEF Worth
<1>7. e * a \in Int
  BY <1>1, <1>4, MulInt
<1>8. e * a - n = e * a - Worth(r) - q * c
  BY <1>2, <1>7
<1> HIDE DEF n, e, a
<1> DEFINE x == e * a
           y == Worth(r)
           z == q * c
<1>9. x \in Int /\ y \in Int /\ z \in Int /\ n \in Int /\ e \in Int
      /\ x - n = x - y - z /\ -e <= 2 * (x - n) /\ 2 * (x - n) <= e
  BY <1>1, <1>2, <1>3, <1>4, <1>7, <1>8
<1> HIDE DEF x, y, z
<1>10. 2 * (x - y - z) <= e /\ -2 * (x - y - z) <= e
  BY <1>9
<1> QED
  BY <1>5, <1>6, <1>10 DEF x, y, z

\* A transfer that commits: what left one row arrived in the other.
LEMMA TransferCommits ==
  ASSUME StockInv, NEW t \in Tx, tx[t].op = "transfer", Commit(t)
  PROVE  LET from == tx[t].steps[1].row
             to   == tx[t].steps[2].row
             d    == TotalWorth(level') - TotalWorth(level)
         IN  /\ level'[from].qty + level'[to].qty = level[from].qty + level[to].qty
             /\ 2 * d <= level'[to].qty /\ -2 * d <= level'[to].qty
<1> DEFINE m  == Of(t)
           a  == tx[t].steps[1].row
           b  == tx[t].steps[2].row
           q  == tx[t].steps[2].qty
           la == level[a]
           lb == level[b]
           ra == Moved(la, -q, tx[t].steps[1].cost)
           rb == Moved(lb, q, la.avg)
           one == [level EXCEPT ![a] = ra]
<1>1. /\ m \in Moves /\ Len(m.steps) = 2 /\ m.op = "transfer" /\ m.steps = tx[t].steps
      /\ \A n \in 1..2 : Atomic!Fitting(level, m, n)
      /\ level' = Atomic!Run(level, m)[2]
  BY CommitIsRequest, LevelsAssumption DEF Of
<1>2. /\ a \in Level /\ b \in Level /\ a # b /\ q \in Nat \ {0}
      /\ tx[t].steps[1].qty = -q /\ tx[t].steps[1].cost \in Nat \cup {NoCost}
  <2>1. tx[t].steps \in Seq(Step)
    BY DEF StockInv, TypeOK, Request
  <2>2. tx[t].steps[1] \in Step /\ tx[t].steps[2] \in Step
    BY <1>1, <2>1
  <2>3. a # b /\ tx[t].steps[1].qty < 0 /\ q = -tx[t].steps[1].qty
    BY <1>1, LevelsAssumption
  <2> QED
    BY <2>2, <2>3 DEF Step
<1>3. level \in [Level -> Row] /\ la \in Row /\ lb \in Row
  BY <1>2 DEF StockInv, TypeOK
<1>4. Atomic!Run(level, m)[1] = one
  <2>1. Atomic!Run(level, m)[0] = level /\
        Atomic!Run(level, m)[1] = Stepped(Atomic!Run(level, m)[0], m, 1)
    BY <1>1, RunIs
  <2> QED
    BY <1>1, <1>2, <1>3, <2>1 DEF Stepped, Atomic!Cost
<1>5. ra \in Row /\ ra.qty = la.qty - q /\ ra.avg = la.avg
      /\ (-q) * la.avg = Worth(ra) - Worth(la)
  <2>1. one[a] = ra
    BY <1>2, <1>3
  <2>2. ra.qty = la.qty + -q
    BY DEF Moved
  <2>3. 0 <= ra.qty
    <3>1. Atomic!Fitting(level, m, 1) /\ m.steps[1].row = a
      BY <1>1
    <3> QED
      BY <1>4, <2>1, <3>1 DEF Atomic!Fitting
  <2>4. CanMove(la, -q) /\ -q \in Int /\ -q < 0
    BY <1>2, <2>2, <2>3 DEF CanMove
  <2>5. ra \in Row
    BY <1>2, <1>3, <2>4, MovedRow
  <2>6. ra.avg = la.avg /\ (-q) * ra.avg = Worth(ra) - Worth(la)
    BY <1>3, <2>4, IssuedWorth
  <2> QED
    BY <1>2, <1>3, <2>2, <2>5, <2>6 DEF Row
<1>6. level' = [one EXCEPT ![b] = rb]
  <2>1. Atomic!Run(level, m)[2] = Stepped(one, m, 2)
    <3>1. 2 \in 1..Len(m.steps) /\ Len(m.steps) \in Nat /\ 2 - 1 = 1
      BY <1>1
    <3>2. Atomic!Run(level, m)[2] = Stepped(Atomic!Run(level, m)[2 - 1], m, 2)
      BY <3>1, RunIs
    <3> QED
      BY <1>4, <3>1, <3>2
  <2>2. one[b] = lb /\ one[a].avg = la.avg
    BY <1>2, <1>3, <1>5
  <2> HIDE DEF one
  <2> QED
    BY <1>1, <2>1, <2>2 DEF Stepped, Atomic!Cost
<1>7. rb \in Row /\ rb.qty = lb.qty + q
  <2>1. la.avg \in Nat /\ CanMove(lb, q)
    BY <1>2, <1>3 DEF Row, CanMove
  <2> QED
    BY <1>2, <1>3, <2>1, MovedRow
<1>8. level'[a] = ra /\ level'[b] = rb
  BY <1>2, <1>3, <1>6
<1>9. /\ TotalWorth(one) = TotalWorth(level) + (Worth(ra) - Worth(la))
      /\ TotalWorth(level') = TotalWorth(one) + (Worth(rb) - Worth(lb))
      /\ TotalWorth(level) \in Int
  <2>1. TotalWorth(one) = TotalWorth(level) + (Worth(ra) - Worth(la)) /\ TotalWorth(level) \in Int
    BY <1>2, <1>3, <1>5, WorthMoves
  <2>2. one \in [Level -> Row] /\ one[b] = lb
    BY <1>2, <1>3, <1>5
  <2> HIDE DEF one
  <2> QED
    BY <1>2, <1>6, <1>7, <2>1, <2>2, WorthMoves
<1>10. 2 * (Worth(rb) - Worth(lb) - q * la.avg) <= rb.qty
       /\ -2 * (Worth(rb) - Worth(lb) - q * la.avg) <= rb.qty
  <2>1. la.avg \in Nat
    BY <1>3 DEF Row
  <2> QED
    BY <1>2, <1>3, <2>1, ReceivedWorth
<1>11. /\ Worth(ra) \in Int /\ Worth(la) \in Int /\ Worth(rb) \in Int /\ Worth(lb) \in Int
       /\ q * la.avg \in Int /\ (-q) * la.avg = -(q * la.avg)
  BY <1>2, <1>3, <1>5, <1>7, WorthNat DEF Row
<1>12. TotalWorth(level') - TotalWorth(level) = Worth(rb) - Worth(lb) - q * la.avg
  <2> DEFINE wra == Worth(ra)
             wla == Worth(la)
             wrb == Worth(rb)
             wlb == Worth(lb)
             x   == q * la.avg
             was == TotalWorth(level)
             mid == TotalWorth(one)
             is  == TotalWorth(level')
  <2>1. /\ wra \in Int /\ wla \in Int /\ wrb \in Int /\ wlb \in Int /\ x \in Int /\ was \in Int
        /\ mid = was + (wra - wla) /\ is = mid + (wrb - wlb) /\ -x = wra - wla
    BY <1>5, <1>9, <1>11
  <2> HIDE DEF wra, wla, wrb, wlb, x, was, mid, is
  <2>2. is - was = wrb - wlb - x
    BY <2>1
  <2> QED
    BY <2>2 DEF wrb, wlb, x, was, is
<1>13. la.qty \in Int /\ lb.qty \in Int /\ q \in Int
  BY <1>2, <1>3 DEF Row
<1> HIDE DEF la, lb, ra, rb, q, a, b
<1>14. level'[a].qty + level'[b].qty = la.qty + lb.qty
  BY <1>5, <1>7, <1>8, <1>13
<1> QED
  BY <1>8, <1>10, <1>12, <1>14 DEF la, lb, a, b

\* What is posted to the inventory account is the change in worth of the stock up to half
\* a cent for each movement, and a transfer, which posts nothing, changes it by the
\* rounding of one average at most.
THEOREM WorthAlwaysFollows == Spec => WorthFollowsGoods
<1>1. StockInv /\ [Next]_vars =>
        [\A t \in Tx : (tx[t].op \in {"adjust", "issue"} /\ Commit(t)) =>
            WithinRounding(tx[t].delta, TotalWorth(level') - TotalWorth(level),
                           Len(tx[t].steps))]_vars
  BY CommitIsRequest
<1>2. StockInv /\ [Next]_vars =>
        [\A t \in Tx : (tx[t].op = "transfer" /\ Commit(t)) =>
            LET to == tx[t].steps[2].row
                d  == TotalWorth(level') - TotalWorth(level)
            IN  /\ level'[tx[t].steps[1].row].qty + level'[to].qty
                       = level[tx[t].steps[1].row].qty + level[to].qty
                /\ 2 * d <= level'[to].qty /\ -2 * d <= level'[to].qty]_vars
  BY TransferCommits
<1>3. Spec => PostedFollowsWorth
  BY <1>1, StockInvariance, PTL DEF Spec, PostedFollowsWorth
<1>4. Spec => TransferKeepsWorth
  BY <1>2, StockInvariance, PTL DEF Spec, TransferKeepsWorth
<1> QED
  BY <1>3, <1>4 DEF WorthFollowsGoods

-----------------------------------------------------------------------------
(***************************************************************************)
(* Counts of a warehouse, among any other requests, any number of counts   *)
(* and of counting requests at the same time.                              *)
(***************************************************************************)

\* A request that fits makes rows of rows, movement after movement.
LEMMA RunTyped ==
  ASSUME NEW lv \in [Level -> Row], NEW m \in Moves,
         \A n \in 1..Len(m.steps) : Atomic!Fitting(lv, m, n)
  PROVE  \A k \in 0..Len(m.steps) : Atomic!Run(lv, m)[k] \in [Level -> Row]
<1> DEFINE f == Atomic!Run(lv, m)
           Wrong == {n \in 0..Len(m.steps) : f[n] \notin [Level -> Row]}
<1>1. m.steps \in Seq(Step) /\ Len(m.steps) \in Nat
  BY LevelsAssumption
<1>2. f[0] = lv /\ \A n \in 1..Len(m.steps) : f[n] = Stepped(f[n - 1], m, n)
  BY <1>1, RunIs
<1> SUFFICES ASSUME Wrong # {} PROVE FALSE
  BY <1>1
<1>3. PICK n \in Wrong : \A k \in Wrong : n <= k
  <2>1. Wrong \subseteq 0..Len(m.steps)
    OBVIOUS
  <2> HIDE DEF Wrong
  <2> QED
    BY <1>1, <2>1, LeastNumber
<1>4. n \in 1..Len(m.steps) /\ n - 1 \in 0..Len(m.steps) /\ ~(n <= n - 1)
  BY <1>1, <1>2
<1> DEFINE w == f[n - 1]
           s == m.steps[n]
           c == Atomic!Cost(w, m, n)
           rr == Moved(w[s.row], s.qty, c)
<1>5. w \in [Level -> Row]
  BY <1>3, <1>4
<1>6. s \in Step /\ s.row \in Level /\ s.qty \in Int
  <2>1. m.steps[n] \in Step
    BY <1>1, <1>4
  <2> QED
    BY <2>1 DEF Step
<1>7. c \in Nat \cup {NoCost}
  <2>1. m.op = "transfer" => w[m.steps[1].row].avg \in Nat
    <3>1. m.steps[1] \in Step
      BY <1>1, <1>4
    <3> QED
      BY <1>5, <3>1 DEF Step, Row
  <2>2. s.cost \in Nat \cup {NoCost}
    BY <1>6 DEF Step
  <2> HIDE DEF w
  <2> QED
    BY <2>1, <2>2 DEF Atomic!Cost
<1>8. f[n] = [w EXCEPT ![s.row] = rr]
  BY <1>2, <1>4 DEF Stepped
<1> HIDE DEF w, c
<1>9. rr.qty = w[s.row].qty + s.qty
  BY DEF Moved
<1>10. Atomic!Fitting(lv, m, n) /\ f[n][s.row] = rr
  BY <1>4, <1>5, <1>6, <1>8
<1>11. CanMove(w[s.row], s.qty)
  BY <1>9, <1>10 DEF CanMove, Atomic!Fitting
<1>12. rr \in Row
  BY <1>5, <1>6, <1>7, <1>11, MovedRow
<1>13. f[n] \in [Level -> Row]
  BY <1>5, <1>6, <1>8, <1>12
<1> QED
  BY <1>13

\* Sums of what agrees up to rounding agree up to the roundings.
LEMMA SumWithin ==
  ASSUME NEW w, NEW v, NEW S, IsFiniteSet(S),
         \A x \in S : w[x] \in Int /\ v[x] \in Int /\ WithinRounding(w[x], v[x], 1)
  PROVE  WithinRounding(SumFunctionOnSet(w, S), SumFunctionOnSet(v, S), Cardinality(S))
<1> DEFINE Agree(s) == WithinRounding(SumFunctionOnSet(w, s), SumFunctionOnSet(v, s), Cardinality(s))
           Wrong == {s \in SUBSET S : ~Agree(s)}
<1> SUFFICES ASSUME Wrong # {} PROVE FALSE
  OBVIOUS
<1> HIDE DEF Agree
<1>1. PICK s \in Wrong : \A y \in Wrong : y \subseteq s => y = s
  <2>1. Wrong \subseteq SUBSET S
    OBVIOUS
  <2> HIDE DEF Wrong
  <2> QED
    BY <2>1, LeastSet
<1>2. IsFiniteSet(s) /\ s \subseteq S
  BY FS_Subset
<1>3. s # {}
  <2>1. SumFunctionOnSet(w, {}) = 0 /\ SumFunctionOnSet(v, {}) = 0 /\ Cardinality({}) = 0
    BY <1>2, SumStep, FS_EmptySet
  <2>2. Agree({})
    BY <2>1, NoRounding DEF Agree
  <2> QED
    BY <1>1, <2>2
<1>4. PICK x : x \in s
  BY <1>3
<1> DEFINE rest == s \ {x}
<1>5. rest \subseteq S /\ rest \subseteq s /\ rest # s /\ IsFiniteSet(rest)
      /\ Cardinality(rest) \in Int /\ Cardinality(s) = Cardinality(rest) + 1
  <2>1. rest \subseteq S /\ rest \subseteq s /\ rest # s
    BY <1>2, <1>4
  <2>2. IsFiniteSet(rest) /\ Cardinality(rest) = Cardinality(s) - 1
    BY <1>2, <1>4, FS_RemoveElement
  <2> HIDE DEF rest
  <2>3. Cardinality(rest) \in Int /\ Cardinality(s) \in Int
    BY <1>2, <2>2, FS_CardinalityType
  <2> QED
    BY <2>1, <2>2, <2>3
<1>6. /\ SumFunctionOnSet(w, s) = w[x] + SumFunctionOnSet(w, rest)
      /\ SumFunctionOnSet(v, s) = v[x] + SumFunctionOnSet(v, rest)
  BY <1>2, <1>4, SumRemove
<1>7. SumFunctionOnSet(w, rest) \in Int /\ SumFunctionOnSet(v, rest) \in Int
  BY <1>5, SumInt
<1>8. Agree(rest)
  BY <1>1, <1>5
<1> HIDE DEF rest
<1>9. w[x] \in Int /\ v[x] \in Int /\ WithinRounding(w[x], v[x], 1)
  BY <1>2, <1>4
<1>10. WithinRounding(SumFunctionOnSet(w, rest) + w[x], SumFunctionOnSet(v, rest) + v[x],
                      Cardinality(rest) + 1)
  BY <1>5, <1>7, <1>8, <1>9, RoundingStep DEF Agree
<1>11. Agree(s)
  <2>1. /\ SumFunctionOnSet(w, s) = SumFunctionOnSet(w, rest) + w[x]
        /\ SumFunctionOnSet(v, s) = SumFunctionOnSet(v, rest) + v[x]
    BY <1>6, <1>7, <1>9
  <2> QED
    BY <1>5, <1>10, <2>1 DEF Agree
<1> QED
  BY <1>1, <1>11

\* What a request of adjustments or sales posts follows the worth of the rows.
LEMMA PostedByBound ==
  ASSUME NEW lv \in [Level -> Row], NEW m \in Moves, m.op \in {"adjust", "issue"},
         \A n \in 1..Len(m.steps) : Atomic!Fitting(lv, m, n)
  PROVE  LET to == Atomic!Run(lv, m)[Len(m.steps)]
         IN  /\ PostedBy(lv, m) \in Int
             /\ WithinRounding(PostedBy(lv, m), TotalWorth(to) - TotalWorth(lv), Len(m.steps))
<1> DEFINE f == Atomic!Run(lv, m)
           N == Len(m.steps)
           term(n) == Posted(m.op, f[n - 1][m.steps[n].row], m.steps[n], f[n][m.steps[n].row])
           p == [n \in 1..N |-> term(n)]
           Agree(k) == /\ SumFunctionOnSet(p, 1..k) \in Int
                       /\ WithinRounding(SumFunctionOnSet(p, 1..k), TotalWorth(f[k]) - TotalWorth(lv), k)
           Wrong == {k \in 0..N : ~Agree(k)}
<1>1. m.steps \in Seq(Step) /\ N \in Nat
  BY LevelsAssumption
<1>2. f[0] = lv /\ \A n \in 1..N : f[n] = Stepped(f[n - 1], m, n)
  BY <1>1, RunIs
<1>3. \A k \in 0..N : f[k] \in [Level -> Row] /\ TotalWorth(f[k]) \in Int
  <2>1. \A k \in 0..N : f[k] \in [Level -> Row]
    BY RunTyped
  <2> QED
    BY <2>1, WorthIsNumber
<1>4. PostedBy(lv, m) = SumFunctionOnSet(p, 1..N)
  BY DEF PostedBy
<1>5. ASSUME NEW n \in 1..N
      PROVE  /\ p[n] \in Int
             /\ WithinRounding(p[n], TotalWorth(f[n]) - TotalWorth(f[n - 1]), 1)
  <2> DEFINE w == f[n - 1]
             s == m.steps[n]
             c == Atomic!Cost(w, m, n)
             rr == Moved(w[s.row], s.qty, c)
  <2>1. m.steps[n] \in Step /\ n - 1 \in 0..N /\ n \in 0..N
    BY <1>1
  <2>2. s.row \in Level /\ s.qty \in Int /\ (m.op = "issue" => s.qty < 0)
    BY <1>1, <2>1, LevelsAssumption DEF Step
  <2>3. w \in [Level -> Row] /\ f[n] \in [Level -> Row] /\ f[n] = [w EXCEPT ![s.row] = rr]
    BY <1>2, <1>3, <2>1 DEF Stepped
  <2>4. p[n] = Posted(m.op, w[s.row], s, f[n][s.row])
    OBVIOUS
  <2> HIDE DEF w, s, c, f, p
  <2>5. f[n][s.row] = rr /\ rr \in Row /\ w[s.row] \in Row
    BY <2>2, <2>3
  <2>6. p[n] \in Int /\ WithinRounding(p[n], Worth(rr) - Worth(w[s.row]), 1)
    BY <2>2, <2>4, <2>5, PostedBound
  <2>7. /\ TotalWorth(f[n]) = TotalWorth(w) + (Worth(rr) - Worth(w[s.row]))
        /\ TotalWorth(w) \in Int
    <3>1. /\ TotalWorth([w EXCEPT ![s.row] = rr]) = TotalWorth(w) + (Worth(rr) - Worth(w[s.row]))
          /\ TotalWorth(w) \in Int
      BY <2>2, <2>3, <2>5, WorthMoves
    <3> QED
      BY <2>3, <3>1
  <2>8. Worth(rr) \in Int /\ Worth(w[s.row]) \in Int
    BY <2>5, WorthNat
  <2>9. TotalWorth(f[n]) - TotalWorth(w) = Worth(rr) - Worth(w[s.row])
    BY <2>7, <2>8
  <2> QED
    BY <2>6, <2>9 DEF w
<1> HIDE DEF f, p, N, Agree
<1>6. SUFFICES Wrong = {}
  <2>1. N \in 0..N
    BY <1>1
  <2>2. Agree(N)
    BY <1>6, <2>1
  <2> QED
    BY <1>4, <2>2 DEF Agree, f, N
<1> SUFFICES ASSUME Wrong # {} PROVE FALSE
  OBVIOUS
<1>7. PICK k \in Wrong : \A j \in Wrong : k <= j
  <2>1. Wrong \subseteq 0..N
    OBVIOUS
  <2> HIDE DEF Wrong
  <2> QED
    BY <1>1, <2>1, LeastNumber
<1>8. k \in 0..N /\ ~Agree(k)
  OBVIOUS
<1>9. CASE k = 0
  <2>1. 1..0 = {} /\ IsFiniteSet({})
    BY FS_EmptySet
  <2>2. SumFunctionOnSet(p, {}) = 0
    BY <2>1, SumStep
  <2>3. TotalWorth(f[0]) - TotalWorth(lv) = 0
    BY <1>1, <1>2, <1>3
  <2>4. Agree(0)
    BY <2>1, <2>2, <2>3, NoRounding DEF Agree
  <2> QED
    BY <1>8, <1>9, <2>4
<1>10. CASE k # 0
  <2> DEFINE j == k - 1
             was == SumFunctionOnSet(p, 1..j)
             wj == TotalWorth(f[j])
             wk == TotalWorth(f[k])
             w0 == TotalWorth(lv)
  <2>1. j \in 0..N /\ k \in 1..N /\ ~(k <= j) /\ k \notin 1..j /\ 1..k = (1..j) \cup {k}
        /\ 1..j \subseteq 1..N /\ j + 1 = k /\ j \in Int
    BY <1>1, <1>8, <1>10
  <2>2. Agree(j)
    BY <1>7, <2>1
  <2>3. wj \in Int /\ wk \in Int /\ w0 \in Int
    <3>1. TotalWorth(f[j]) \in Int /\ TotalWorth(f[k]) \in Int
      BY <1>3, <1>8, <2>1
    <3>2. TotalWorth(lv) \in Int
      BY WorthIsNumber
    <3> QED
      BY <3>1, <3>2
  <2>4. /\ p[k] \in Int /\ WithinRounding(p[k], wk - wj, 1)
    BY <1>5, <2>1
  <2>5. SumFunctionOnSet(p, 1..k) = p[k] + was
    <3>1. IsFiniteSet(1..j) /\ \A x \in 1..j : p[x] \in Int
      BY <1>5, <2>1, FS_Interval
    <3> QED
      BY <2>1, <2>4, <3>1, SumAdd
  <2>6. was \in Int /\ WithinRounding(was, wj - w0, j)
    BY <2>2 DEF Agree
  <2> HIDE DEF was, wj, wk, w0, j
  <2>7. WithinRounding(was + p[k], (wj - w0) + (wk - wj), j + 1)
    <3>1. wk - wj \in Int /\ wj - w0 \in Int
      BY <2>3
    <3> QED
      BY <2>1, <2>4, <2>6, <3>1, RoundingStep
  <2>8. (wj - w0) + (wk - wj) = wk - w0 /\ was + p[k] = p[k] + was /\ p[k] + was \in Int
    BY <2>3, <2>4, <2>6
  <2>9. Agree(k)
    BY <2>1, <2>5, <2>7, <2>8 DEF Agree, wk, w0
  <2> QED
    BY <1>8, <2>9
<1> QED
  BY <1>9, <1>10

\* The gains less the losses of a completion are the change in worth of the rows, up to
\* half a cent for each row of D, outside of which nothing moves.
LEMMA GainLessLoss ==
  ASSUME level \in [Level -> Row], NEW lv \in [Level -> Row], NEW D, D \subseteq Level,
         \A l \in Level \ D : lv[l] = level[l]
  PROVE  /\ WithinRounding(Gain(lv) - Loss(lv), TotalWorth(lv) - TotalWorth(level),
                           Cardinality(D))
         /\ Gain(lv) \in Int /\ Loss(lv) \in Int
         /\ TotalWorth(lv) \in Int /\ TotalWorth(level) \in Int
<1> DEFINE d == [l \in Level |-> ValueDelta(l, lv[l])]
           e == [l \in Level |-> -ValueDelta(l, lv[l])]
           o == [l \in Level |-> 0]
           g == [l \in Level |-> Worth(lv[l]) - Worth(level[l])]
           was == [l \in Level |-> Worth(level[l])]
           is  == [l \in Level |-> Worth(lv[l])]
           up   == {l \in Level : ValueDelta(l, lv[l]) > 0}
           down == {l \in Level : ValueDelta(l, lv[l]) < 0}
           flat == {l \in Level : ValueDelta(l, lv[l]) = 0}
           same == Level \ D
<1>1. \A l \in Level : /\ d[l] \in Int /\ e[l] \in Int /\ was[l] \in Int /\ is[l] \in Int
                       /\ g[l] \in Int /\ o[l] = d[l] + e[l] /\ is[l] = was[l] + g[l]
                       /\ WithinRounding(d[l], g[l], 1)
  <2> SUFFICES ASSUME NEW l \in Level
               PROVE  /\ d[l] \in Int /\ e[l] \in Int /\ was[l] \in Int /\ is[l] \in Int
                      /\ g[l] \in Int /\ o[l] = d[l] + e[l] /\ is[l] = was[l] + g[l]
                      /\ WithinRounding(d[l], g[l], 1)
    OBVIOUS
  <2>1. Worth(lv[l]) \in Int /\ Worth(level[l]) \in Int
    BY WorthNat
  <2>2. /\ d[l] = Round2(g[l]) /\ e[l] = -d[l] /\ o[l] = 0 /\ g[l] = is[l] - was[l]
        /\ was[l] \in Int /\ is[l] \in Int
    BY <2>1 DEF ValueDelta
  <2> HIDE DEF d, e, o, g, was, is
  <2>3. g[l] \in Int /\ is[l] = was[l] + g[l]
    BY <2>2
  <2>4. /\ d[l] \in Int /\ -Cent <= 2 * (Cent * d[l] - g[l])
        /\ 2 * (Cent * d[l] - g[l]) <= Cent
    BY <2>2, <2>3, Round2Bound
  <2>5. WithinRounding(d[l], g[l], 1)
    <3>1. Cent * 1 = Cent
      BY LevelsAssumption
    <3> QED
      BY <2>4, <3>1 DEF WithinRounding
  <2> QED
    BY <2>2, <2>3, <2>4, <2>5
<1>b. Level = D \cup same /\ D \cap same = {}
  OBVIOUS
<1>a. \A l \in same : d[l] = 0 /\ g[l] = 0
  <2> SUFFICES ASSUME NEW l \in same PROVE d[l] = 0 /\ g[l] = 0
    OBVIOUS
  <2>1. g[l] = 0
    <3>1. lv[l] = level[l] /\ Worth(level[l]) \in Int
      BY WorthNat
    <3> QED
      BY <3>1
  <2>2. d[l] = Round2(g[l]) /\ g[l] = Worth(lv[l]) - Worth(level[l])
    BY DEF ValueDelta
  <2>3. Round2(0) = 0
    <3>1. (2 * 0 + Cent) \div (2 * Cent) = 0
      BY LevelsAssumption
    <3> QED
      BY <3>1 DEF Round2, RoundDiv
  <2> HIDE DEF d, g
  <2> QED
    BY <2>1, <2>2, <2>3
<1>2. /\ Level = (up \cup down) \cup flat /\ up \cap down = {} /\ (up \cup down) \cap flat = {}
      /\ up \subseteq Level /\ down \subseteq Level /\ flat \subseteq Level
      /\ \A l \in flat : d[l] = 0
      /\ \A l \in down : o[l] = 0
  BY <1>1
<1>3. DOMAIN was = Level /\ DOMAIN is = Level
  OBVIOUS
<1>4. TotalWorth(level) = SumFunctionOnSet(was, Level) /\ TotalWorth(lv) = SumFunctionOnSet(is, Level)
  BY <1>3 DEF TotalWorth, SumFunction
<1>5. Gain(lv) = SumFunctionOnSet(d, up) /\ Loss(lv) = SumFunctionOnSet(e, down)
  BY DEF Gain, Loss
<1> HIDE DEF d, e, o, g, was, is, up, down, flat, same
<1>6. IsFiniteSet(Level) /\ IsFiniteSet(up) /\ IsFiniteSet(down) /\ IsFiniteSet(flat)
      /\ IsFiniteSet(up \cup down) /\ IsFiniteSet(D) /\ IsFiniteSet(same)
  <2>1. same \subseteq Level
    BY DEF same
  <2> QED
    BY <1>2, <2>1, LevelsAssumption, FS_Subset, FS_Union
<1>7. SumFunctionOnSet(is, Level) = SumFunctionOnSet(was, Level) + SumFunctionOnSet(g, Level)
  BY <1>1, <1>6, SumPlus
<1>8. SumFunctionOnSet(d, up \cup down) = SumFunctionOnSet(d, up) + SumFunctionOnSet(d, down)
  BY <1>1, <1>2, <1>6, SumJoin
<1>9. SumFunctionOnSet(d, Level) = SumFunctionOnSet(d, up \cup down) + SumFunctionOnSet(d, flat)
  <2>1. \A l \in up \cup down : d[l] \in Int
    BY <1>1, <1>2
  <2>2. \A l \in flat : d[l] \in Int
    BY <1>1, <1>2
  <2> DEFINE moved == up \cup down
  <2> HIDE DEF moved
  <2>3. SumFunctionOnSet(d, moved \cup flat)
           = SumFunctionOnSet(d, moved) + SumFunctionOnSet(d, flat)
    BY <1>2, <1>6, <2>1, <2>2, SumJoin DEF moved
  <2> QED
    BY <1>2, <2>3 DEF moved
<1>10. SumFunctionOnSet(d, flat) = 0 /\ SumFunctionOnSet(o, down) = 0
  BY <1>2, <1>6, SumZero
<1>11. SumFunctionOnSet(o, down) = SumFunctionOnSet(d, down) + SumFunctionOnSet(e, down)
  <2>1. \A l \in down : d[l] \in Int /\ e[l] \in Int /\ o[l] = d[l] + e[l]
    BY <1>1, <1>2
  <2> QED
    BY <1>6, <2>1, SumPlus
<1>12. /\ SumFunctionOnSet(d, up) \in Int /\ SumFunctionOnSet(e, down) \in Int
       /\ SumFunctionOnSet(d, down) \in Int /\ SumFunctionOnSet(was, Level) \in Int
       /\ SumFunctionOnSet(is, Level) \in Int
  <2>1. /\ \A l \in up : d[l] \in Int
        /\ \A l \in down : e[l] \in Int
        /\ \A l \in down : d[l] \in Int
    BY <1>1, <1>2
  <2> QED
    BY <1>1, <1>6, <2>1, SumInt
<1>13. Gain(lv) - Loss(lv) = SumFunctionOnSet(d, Level)
  BY <1>5, <1>8, <1>9, <1>10, <1>11, <1>12
<1>14. /\ SumFunctionOnSet(d, Level) = SumFunctionOnSet(d, D)
       /\ SumFunctionOnSet(g, Level) = SumFunctionOnSet(g, D)
       /\ SumFunctionOnSet(g, D) \in Int
  <2>1. \A l \in D : d[l] \in Int /\ g[l] \in Int
    BY <1>1
  <2>2. \A l \in same : d[l] \in Int /\ g[l] \in Int
    BY <1>1, <1>b
  <2>3. SumFunctionOnSet(d, same) = 0 /\ SumFunctionOnSet(g, same) = 0
    BY <1>6, <1>a, SumZero
  <2>4. /\ SumFunctionOnSet(d, D \cup same) = SumFunctionOnSet(d, D) + SumFunctionOnSet(d, same)
        /\ SumFunctionOnSet(g, D \cup same) = SumFunctionOnSet(g, D) + SumFunctionOnSet(g, same)
    BY <1>b, <1>6, <2>1, <2>2, SumJoin
  <2>5. SumFunctionOnSet(d, D) \in Int /\ SumFunctionOnSet(g, D) \in Int
    BY <1>6, <2>1, SumInt
  <2> QED
    <3>1. /\ SumFunctionOnSet(d, D \cup same) = SumFunctionOnSet(d, D)
          /\ SumFunctionOnSet(g, D \cup same) = SumFunctionOnSet(g, D)
      BY <2>3, <2>4, <2>5
    <3> QED
      BY <1>b, <2>5, <3>1
<1>15. WithinRounding(SumFunctionOnSet(d, D), SumFunctionOnSet(g, D), Cardinality(D))
  <2>1. \A l \in D : d[l] \in Int /\ g[l] \in Int /\ WithinRounding(d[l], g[l], 1)
    BY <1>1, <1>2
  <2> QED
    BY <1>6, <2>1, SumWithin
<1>16. TotalWorth(lv) - TotalWorth(level) = SumFunctionOnSet(g, D)
  BY <1>4, <1>7, <1>12, <1>14
<1> QED
  BY <1>4, <1>5, <1>12, <1>13, <1>14, <1>15, <1>16

\* An open request is on a count that was created, and counts what is counted still.
CountingOK ==
    \A t \in Tx : counting[t] # NoCounting =>
        LET r == counting[t] IN
        /\ r.count \in Count /\ count[r.count].status # "none"
        /\ r.op = "update" => r.row \in Level
        /\ r.op = "complete" => \A l \in Level :
              r.lines[l].counted # Uncounted => count[r.count].lines[l].counted # Uncounted

\* A count that moved stock was completed, or cancelled since, and counted what moved.
AppliedOK ==
    \A c \in Count, l \in Level : applied[c][l] # 0 =>
        count[c].status \notin {"none", "draft"} /\ count[c].lines[l].counted # Uncounted

\* The inductive invariant.
CInv == CountTypeOK /\ CountingOK /\ AppliedOK /\ StockIsSumOfMovements
        /\ InventoryAccountFollowsWorth

\* Counting starts in the invariant.
LEMMA InitCInv == CountInit => CInv
<1> SUFFICES ASSUME CountInit PROVE CInv
  OBVIOUS
<1>1. CountTypeOK
  BY DEF CountInit, CountTypeOK, Atomic!Init, Atomic!TypeOK, Atomic!Row, Row, CountRow, Line,
         NoLines, NoCounting, CountRequest
<1>2. CountingOK /\ AppliedOK
  BY DEF CountInit, CountingOK, AppliedOK
<1>3. StockIsSumOfMovements
  <2> SUFFICES ASSUME NEW l \in Level
               PROVE  level[l].qty = others[l] + SumFunction([c \in Count |-> applied[c][l]])
    BY DEF StockIsSumOfMovements
  <2> DEFINE w == [c \in Count |-> applied[c][l]]
  <2>1. DOMAIN w = Count /\ \A c \in Count : w[c] = 0
    BY DEF CountInit
  <2> HIDE DEF w
  <2>2. SumFunctionOnSet(w, Count) = 0
    BY <2>1, StockCountAssumption, SumZero
  <2>3. SumFunction(w) = 0
    BY <2>1, <2>2 DEF SumFunction
  <2> QED
    BY <2>3 DEF w, CountInit, Atomic!Init
<1>4. InventoryAccountFollowsWorth
  <2> SUFFICES TotalWorth(level) = 0
    BY NoRounding DEF CountInit, InventoryAccountFollowsWorth
  <2> DEFINE w == [l \in Level |-> Worth(level[l])]
  <2>1. DOMAIN w = Level /\ \A l \in Level : w[l] = 0
    BY DEF CountInit, Atomic!Init, Worth
  <2> HIDE DEF w
  <2>2. SumFunctionOnSet(w, Level) = 0
    BY <2>1, LevelsAssumption, SumZero
  <2>3. SumFunction(w) = 0
    BY <2>1, <2>2 DEF SumFunction
  <2> QED
    BY <2>3 DEF w, TotalWorth
<1> QED
  BY <1>1, <1>2, <1>3, <1>4 DEF CInv

\* The rows of AtomicStock are those of Stock.
LEMMA SameRows == CInv => level \in [Level -> Row]
  BY DEF CInv, CountTypeOK, Atomic!TypeOK, Atomic!Row, Row

\* What counts moved a row by is a number.
LEMMA AppliedSum ==
  ASSUME CountTypeOK, NEW l \in Level
  PROVE  SumFunction([c \in Count |-> applied[c][l]]) \in Int
<1> DEFINE w == [c \in Count |-> applied[c][l]]
<1>1. DOMAIN w = Count /\ \A c \in Count : w[c] \in Int
  BY DEF CountTypeOK
<1> HIDE DEF w
<1>2. SumFunction(w) \in Int
  BY <1>1, StockCountAssumption, SumOfFunction
<1> QED
  BY <1>2 DEF w

\* Other requests move rows and the account by the same.
LEMMA OtherMoves ==
  ASSUME CInv, NEW m \in Moves, MoveOther(m)
  PROVE  CInv'
<1> DEFINE N == Len(m.steps)
           p == PostedBy(level, m)
<1>1. /\ level \in [Level -> Row] /\ others \in [Level -> Int]
      /\ inventory \in Int /\ movements \in Nat
      /\ WithinRounding(inventory, TotalWorth(level), movements)
  BY SameRows DEF CInv, CountTypeOK, InventoryAccountFollowsWorth
<1>a. /\ m.op \in {"adjust", "issue"} /\ N \in Nat
      /\ \A n \in 1..N : Atomic!Fitting(level, m, n)
      /\ level' = Atomic!Run(level, m)[N]
  BY LevelsAssumption DEF MoveOther, Atomic!Request
<1>2. level' \in [Level -> Row]
  <2>1. N \in 0..N
    BY <1>a
  <2> QED
    BY <1>1, <1>a, <2>1, RunTyped
<1>3. /\ others' = [l \in Level |-> others[l] + level'[l].qty - level[l].qty]
      /\ inventory' = inventory + p /\ movements' = movements + N
      /\ count' = count /\ applied' = applied /\ counting' = counting
  BY DEF MoveOther
<1>4. /\ TotalWorth(level) \in Int /\ TotalWorth(level') \in Int /\ p \in Int
      /\ WithinRounding(p, TotalWorth(level') - TotalWorth(level), N)
  <2>1. TotalWorth(level) \in Int /\ TotalWorth(level') \in Int
    BY <1>1, <1>2, WorthIsNumber
  <2>2. p \in Int /\ WithinRounding(p, TotalWorth(level') - TotalWorth(level), N)
    BY <1>1, <1>a, PostedByBound
  <2> QED
    BY <2>1, <2>2
<1> HIDE DEF N, p
<1>5. \A l \in Level : level[l].qty \in Int /\ level'[l].qty \in Int
  BY <1>1, <1>2 DEF Row
<1>6. CountTypeOK'
  <2>1. others' \in [Level -> Int]
    BY <1>1, <1>3, <1>5
  <2>2. inventory' \in Int /\ movements' \in Nat
    BY <1>1, <1>3, <1>4, <1>a
  <2> QED
    BY <1>2, <1>3, <2>1, <2>2 DEF CInv, CountTypeOK, Atomic!TypeOK, Atomic!Row, Row
<1>7. CountingOK' /\ AppliedOK'
  BY <1>3 DEF CInv, CountingOK, AppliedOK
<1>8. StockIsSumOfMovements'
  <2> SUFFICES ASSUME NEW l \in Level
               PROVE  level'[l].qty = others'[l] + SumFunction([c \in Count |-> applied'[c][l]])
    BY DEF StockIsSumOfMovements
  <2> DEFINE x == SumFunction([c \in Count |-> applied[c][l]])
  <2>1. level[l].qty = others[l] + x
    BY DEF CInv, StockIsSumOfMovements
  <2>2. x \in Int
    BY AppliedSum DEF CInv
  <2> HIDE DEF x
  <2>3. level'[l].qty = others'[l] + x
    BY <1>1, <1>3, <1>5, <2>1, <2>2
  <2> QED
    BY <1>3, <2>3 DEF x
<1>9. InventoryAccountFollowsWorth'
  <2>1. WithinRounding(inventory + p, TotalWorth(level) + (TotalWorth(level') - TotalWorth(level)),
                       movements + N)
    BY <1>1, <1>4, <1>a, RoundingAdds
  <2>2. TotalWorth(level) + (TotalWorth(level') - TotalWorth(level)) = TotalWorth(level')
    BY <1>4
  <2> QED
    BY <1>3, <2>1, <2>2 DEF InventoryAccountFollowsWorth
<1> QED
  BY <1>6, <1>7, <1>8, <1>9 DEF CInv

\* A count changes that has moved nothing yet or keeps its lines.
LEMMA CountChanges ==
  ASSUME CInv, CountTypeOK', CountingOK', AppliedOK', UNCHANGED <<level, applied, others, movements, inventory>>
  PROVE  CInv'
<1>1. StockIsSumOfMovements' /\ InventoryAccountFollowsWorth'
  BY DEF CInv, StockIsSumOfMovements, InventoryAccountFollowsWorth
<1> QED
  BY <1>1 DEF CInv

\* A count is created: its lines are what the rows hold.
LEMMA CreateStep ==
  ASSUME CInv, NEW c \in Count, Create(c)
  PROVE  CInv'
<1> DEFINE row == [status |-> "draft",
                   lines |-> [l \in Level |-> [expected |-> level[l].qty, counted |-> Uncounted]]]
<1>1. /\ count[c].status = "none" /\ count' = [count EXCEPT ![c] = row]
      /\ UNCHANGED <<level, applied, others, movements, inventory, counting>>
  BY DEF Create
<1>2. row \in CountRow
  BY SameRows DEF CountRow, Line, Row
<1> HIDE DEF row
<1>3. CountTypeOK'
  BY <1>1, <1>2 DEF CInv, CountTypeOK, Atomic!TypeOK
<1>4. CountingOK'
  <2>1. \A t \in Tx : counting[t] # NoCounting => counting[t].count # c
    BY <1>1 DEF CInv, CountingOK
  <2> QED
    BY <1>1, <2>1 DEF CInv, CountTypeOK, CountingOK
<1>5. AppliedOK'
  <2>1. \A l \in Level : applied[c][l] = 0
    BY <1>1 DEF CInv, AppliedOK
  <2> QED
    BY <1>1, <2>1 DEF CInv, CountTypeOK, AppliedOK
<1> QED
  BY <1>1, <1>3, <1>4, <1>5, CountChanges

\* A request reads the count.
LEMMA BeginCountingStep ==
  ASSUME CInv, NEW t \in Tx, BeginUpdate(t) \/ BeginComplete(t) \/ BeginCancel(t)
  PROVE  CInv'
<1>1. PICK r : /\ BeginCounting(t, r) /\ r \in CountRequest /\ r.count \in Count
               /\ r.op = "update" => r.row \in Level
               /\ r.op = "complete" => r.lines = count[r.count].lines
  <2>1. ASSUME NEW c \in Count, NEW l \in Level, NEW n \in 0..MaxQty
        PROVE  [NoCounting EXCEPT !.op = "update", !.count = c, !.row = l, !.n = n] \in CountRequest
    <3> DEFINE r == [NoCounting EXCEPT !.op = "update", !.count = c, !.row = l]
    <3>1. r \in CountRequest
      BY DEF NoCounting, CountRequest, NoLines, Line
    <3>2. [r EXCEPT !.n = n] \in CountRequest
      <4> HIDE DEF r
      <4> QED
        BY <3>1, LevelsAssumption DEF CountRequest
    <3> QED
      BY <3>2
  <2>2. ASSUME NEW c \in Count
        PROVE  /\ [NoCounting EXCEPT !.op = "complete", !.count = c, !.lines = count[c].lines]
                     \in CountRequest
               /\ [NoCounting EXCEPT !.op = "cancel", !.count = c] \in CountRequest
    BY <2>2 DEF NoCounting, CountRequest, NoLines, Line, CInv, CountTypeOK, CountRow
  <2>3. CASE BeginUpdate(t)
    <3>1. PICK c \in Count, l \in Level, n \in 0..MaxQty :
             BeginCounting(t, [NoCounting EXCEPT !.op = "update", !.count = c, !.row = l, !.n = n])
      BY <2>3 DEF BeginUpdate
    <3> DEFINE r == [NoCounting EXCEPT !.op = "update", !.count = c, !.row = l, !.n = n]
    <3>2. r.op = "update" /\ r.count = c /\ r.row = l
      BY DEF NoCounting
    <3> QED
      BY <2>1, <3>1, <3>2
  <2>4. CASE BeginComplete(t)
    <3>1. PICK c \in Count :
             BeginCounting(t, [NoCounting EXCEPT !.op = "complete", !.count = c,
                                                 !.lines = count[c].lines])
      BY <2>4 DEF BeginComplete
    <3> DEFINE r == [NoCounting EXCEPT !.op = "complete", !.count = c, !.lines = count[c].lines]
    <3>2. r.op = "complete" /\ r.count = c /\ r.lines = count[c].lines
      BY DEF NoCounting
    <3> QED
      BY <2>2, <3>1, <3>2
  <2>5. CASE BeginCancel(t)
    <3>1. PICK c \in Count : BeginCounting(t, [NoCounting EXCEPT !.op = "cancel", !.count = c])
      BY <2>5 DEF BeginCancel
    <3> DEFINE r == [NoCounting EXCEPT !.op = "cancel", !.count = c]
    <3>2. r.op = "cancel" /\ r.count = c
      BY DEF NoCounting
    <3> QED
      BY <2>2, <3>1, <3>2
  <2> QED
    BY <2>3, <2>4, <2>5
<1>2. /\ count[r.count].status = "draft" /\ counting' = [counting EXCEPT ![t] = r]
      /\ UNCHANGED <<level, count, applied, others, movements, inventory>>
  BY <1>1 DEF BeginCounting
<1>3. CountTypeOK'
  BY <1>1, <1>2 DEF CInv, CountTypeOK, Atomic!TypeOK
<1>4. CountingOK'
  BY <1>1, <1>2 DEF CInv, CountTypeOK, CountingOK
<1>5. AppliedOK'
  BY <1>2 DEF CInv, AppliedOK
<1> QED
  BY <1>2, <1>3, <1>4, <1>5, CountChanges

\* A request ends: what the others said of their counts they say still.
LEMMA OthersCount ==
  ASSUME CInv, NEW t \in Tx, FinishCounting(t), count' \in [Count -> CountRow],
         \A c \in Count :
            /\ count[c].status # "none" => count'[c].status # "none"
            /\ \A l \in Level : count[c].lines[l].counted # Uncounted =>
                                   count'[c].lines[l].counted # Uncounted
  PROVE  CountingOK' /\ counting' \in [Tx -> CountRequest]
<1>1. counting' = [counting EXCEPT ![t] = NoCounting] /\ counting \in [Tx -> CountRequest]
  BY DEF FinishCounting, CInv, CountTypeOK
<1>2. NoCounting \in CountRequest
  BY DEF NoCounting, CountRequest, NoLines, Line
<1>3. \A u \in Tx : counting'[u] # NoCounting => counting'[u] = counting[u]
  BY <1>1
<1>4. CountingOK'
  BY <1>3 DEF CInv, CountingOK
<1> QED
  BY <1>1, <1>2, <1>4

\* A line is written, by the number of the count.
LEMMA UpdateStep ==
  ASSUME CInv, NEW t \in Tx, CommitUpdate(t)
  PROVE  CInv'
<1> DEFINE c == counting[t].count
           l == counting[t].row
           n == counting[t].n
<1>1. /\ counting[t].op = "update" /\ FinishCounting(t)
      /\ count' = [count EXCEPT ![c].lines[l].counted = n]
      /\ UNCHANGED <<level, applied, others, movements, inventory>>
  BY DEF CommitUpdate
<1>2. c \in Count /\ l \in Level /\ n \in Nat
  BY <1>1 DEF CInv, CountTypeOK, CountingOK, CountRequest, NoCounting
<1>3. count \in [Count -> CountRow] /\ count[c] \in CountRow /\ count[c].lines[l] \in Line
  BY <1>2 DEF CInv, CountTypeOK, CountRow
<1> HIDE DEF c, l, n
<1> DEFINE line == [count[c].lines[l] EXCEPT !.counted = n]
           row  == [count[c] EXCEPT !.lines = [count[c].lines EXCEPT ![l] = line]]
<1>4. line \in Line /\ line.counted = n
  BY <1>2, <1>3 DEF Line
<1>5. count' = [count EXCEPT ![c] = row]
  BY <1>1, <1>2, <1>3 DEF CountRow, Line
<1> HIDE DEF line
<1>6. /\ row \in CountRow /\ row.status = count[c].status
      /\ \A k \in Level : row.lines[k] = IF k = l THEN line ELSE count[c].lines[k]
  BY <1>2, <1>3, <1>4 DEF CountRow
<1> HIDE DEF row
<1>7. \A d \in Count : count'[d] = IF d = c THEN row ELSE count[d]
  BY <1>3, <1>5
<1>8. n # Uncounted
  BY <1>2, StockCountAssumption
<1>9. \A d \in Count :
         /\ count'[d].status = count[d].status
         /\ \A k \in Level : count[d].lines[k].counted # Uncounted =>
                                count'[d].lines[k].counted # Uncounted
  BY <1>4, <1>6, <1>7, <1>8
<1>10. count' \in [Count -> CountRow]
  BY <1>3, <1>5, <1>6
<1>11. CountingOK' /\ counting' \in [Tx -> CountRequest]
  BY <1>1, <1>9, <1>10, OthersCount
<1>12. CountTypeOK'
  BY <1>1, <1>10, <1>11 DEF CInv, CountTypeOK, Atomic!TypeOK
<1>13. AppliedOK'
  BY <1>1, <1>9 DEF CInv, AppliedOK
<1> QED
  BY <1>1, <1>11, <1>12, <1>13, CountChanges

\* A status is written, by the number of the count.
LEMMA StatusWritten ==
  ASSUME CInv, NEW t \in Tx, FinishCounting(t), NEW c \in Count,
         NEW status \in {"completed", "cancelled"},
         count' = [count EXCEPT ![c].status = status]
  PROVE  /\ count' \in [Count -> CountRow]
         /\ count'[c].status = status
         /\ \A d \in Count : count'[d].lines = count[d].lines
         /\ \A d \in Count \ {c} : count'[d] = count[d]
         /\ CountingOK' /\ counting' \in [Tx -> CountRequest]
<1>1. count \in [Count -> CountRow]
  BY DEF CInv, CountTypeOK
<1>2. /\ count' \in [Count -> CountRow] /\ count'[c].status = status
      /\ \A d \in Count : count'[d].lines = count[d].lines
      /\ \A d \in Count \ {c} : count'[d] = count[d]
  BY <1>1 DEF CountRow
<1>3. \A d \in Count : count[d].status # "none" => count'[d].status # "none"
  BY <1>2
<1>4. CountingOK' /\ counting' \in [Tx -> CountRequest]
  BY <1>2, <1>3, OthersCount
<1> QED
  BY <1>2, <1>4

\* A count is cancelled.
LEMMA CancelStep ==
  ASSUME CInv, NEW t \in Tx, CommitCancel(t)
  PROVE  CInv'
<1> DEFINE c == counting[t].count
<1>1. /\ counting[t].op = "cancel" /\ FinishCounting(t)
      /\ count' = [count EXCEPT ![c].status = "cancelled"]
      /\ UNCHANGED <<level, applied, others, movements, inventory>>
  BY DEF CommitCancel
<1>2. c \in Count
  BY <1>1 DEF CInv, CountingOK, NoCounting
<1> HIDE DEF c
<1>3. /\ count' \in [Count -> CountRow]
      /\ count'[c].status = "cancelled"
      /\ \A d \in Count : count'[d].lines = count[d].lines
      /\ \A d \in Count \ {c} : count'[d] = count[d]
      /\ CountingOK' /\ counting' \in [Tx -> CountRequest]
  BY <1>1, <1>2, StatusWritten
<1>4. CountTypeOK'
  BY <1>1, <1>3 DEF CInv, CountTypeOK, Atomic!TypeOK
<1>5. AppliedOK'
  BY <1>1, <1>3 DEF CInv, AppliedOK
<1> QED
  BY <1>1, <1>3, <1>4, <1>5, CountChanges

\* A count is completed: rows, movements and account change together.
LEMMA CompleteStep ==
  ASSUME CInv, NEW t \in Tx, CommitComplete(t)
  PROVE  CInv'
<1> DEFINE c     == counting[t].count
           lines == counting[t].lines
           lv    == Adjusted(lines)
           moved == [l \in Level |-> applied[c][l] + Difference(lines[l])]
           D     == {l \in Level : Difference(lines[l]) # 0}
<1>1. /\ counting[t].op = "complete" /\ FinishCounting(t) /\ Fits(lv) /\ level' = lv
      /\ inventory' = inventory + Gain(lv) - Loss(lv) /\ others' = others
      /\ movements' = movements + Cardinality(D)
      /\ count' = [count EXCEPT ![c].status = "completed"]
  BY DEF CommitComplete
<1>2. applied' = [applied EXCEPT ![c] = moved]
  BY DEF CommitComplete
<1>3. /\ c \in Count /\ lines \in [Level -> Line] /\ counting[t] # NoCounting
      /\ \A l \in Level : lines[l].counted # Uncounted => count[c].lines[l].counted # Uncounted
  BY <1>1 DEF CInv, CountTypeOK, CountingOK, CountRequest, NoCounting
<1>4. /\ level \in [Level -> Row] /\ applied \in [Count -> [Level -> Int]]
      /\ inventory \in Int /\ movements \in Nat
      /\ WithinRounding(inventory, TotalWorth(level), movements)
  BY SameRows DEF CInv, CountTypeOK, InventoryAccountFollowsWorth
<1>5. \A l \in Level : Difference(lines[l]) \in Int
                       /\ (Difference(lines[l]) # 0 => lines[l].counted # Uncounted)
  BY <1>3 DEF Difference, Line
<1>6. ASSUME NEW l \in Level
      PROVE  lv[l] \in Row /\ lv[l].qty = level[l].qty + Difference(lines[l])
  <2>1. CASE Difference(lines[l]) = 0
    BY <1>4, <2>1 DEF Adjusted, Row
  <2>2. CASE Difference(lines[l]) # 0
    <3>1. lv[l] = Moved(level[l], Difference(lines[l]), NoCost)
      BY <2>2 DEF Adjusted
    <3>2. CanMove(level[l], Difference(lines[l]))
      BY <1>1, <3>1 DEF Fits, Moved, CanMove
    <3>3. level[l] \in Row /\ Difference(lines[l]) \in Int /\ NoCost \in Nat \cup {NoCost}
      BY <1>4, <1>5
    <3> HIDE DEF lv
    <3> QED
      BY <3>1, <3>2, <3>3, MovedRow
  <2> QED
    BY <2>1, <2>2
<1>7. lv \in [Level -> Row]
  BY <1>6 DEF Adjusted
<1>a. D \subseteq Level /\ \A l \in Level \ D : lv[l] = level[l]
  BY <1>4 DEF Adjusted
<1> HIDE DEF c, lines, lv, moved, D
<1>8. moved \in [Level -> Int]
  BY <1>3, <1>4, <1>5 DEF moved
<1>9. /\ count' \in [Count -> CountRow]
      /\ count'[c].status = "completed"
      /\ \A d \in Count : count'[d].lines = count[d].lines
      /\ \A d \in Count \ {c} : count'[d] = count[d]
      /\ CountingOK' /\ counting' \in [Tx -> CountRequest]
  BY <1>1, <1>3, StatusWritten
<1>10. InventoryAccountFollowsWorth' /\ inventory' \in Int /\ movements' \in Nat
  <2> DEFINE net == Gain(lv) - Loss(lv)
             was == TotalWorth(level)
             is  == TotalWorth(lv)
             n   == Cardinality(D)
  <2>1. /\ WithinRounding(net, is - was, n) /\ is \in Int /\ was \in Int
        /\ Gain(lv) \in Int /\ Loss(lv) \in Int
    BY <1>4, <1>7, <1>a, GainLessLoss
  <2>2. n \in Nat
    BY <1>a, LevelsAssumption, FS_Subset, FS_CardinalityType
  <2>3. net \in Int /\ inventory' = inventory + net /\ movements' = movements + n
    BY <1>1, <1>4, <2>1
  <2> HIDE DEF net, was, is, n
  <2>4. WithinRounding(inventory + net, was + (is - was), movements + n)
    BY <1>4, <2>1, <2>2, <2>3, RoundingAdds DEF was
  <2>5. was + (is - was) = is
    BY <2>1
  <2> QED
    BY <1>1, <1>4, <2>2, <2>3, <2>4, <2>5 DEF InventoryAccountFollowsWorth, is
<1>11. CountTypeOK'
  <2>1. applied' \in [Count -> [Level -> Int]]
    BY <1>2, <1>4, <1>8
  <2> QED
    BY <1>1, <1>7, <1>9, <1>10, <2>1 DEF CInv, CountTypeOK, Atomic!TypeOK, Atomic!Row, Row
<1>12. AppliedOK'
  <2>1. ASSUME NEW l \in Level, applied'[c][l] # 0
        PROVE  count[c].lines[l].counted # Uncounted
    <3>1. applied[c][l] # 0 \/ Difference(lines[l]) # 0
      BY <1>2, <1>3, <1>4, <1>5, <2>1 DEF moved
    <3> QED
      BY <1>3, <1>5, <3>1 DEF CInv, AppliedOK
  <2>2. \A d \in Count \ {c} : applied'[d] = applied[d]
    BY <1>2, <1>4
  <2> QED
    BY <1>9, <2>1, <2>2 DEF CInv, AppliedOK
<1>13. StockIsSumOfMovements'
  <2> SUFFICES ASSUME NEW l \in Level
               PROVE  level'[l].qty = others'[l] + SumFunction([d \in Count |-> applied'[d][l]])
    BY DEF StockIsSumOfMovements
  <2> DEFINE w == [d \in Count |-> applied[d][l]]
             x == Difference(lines[l])
  <2>1. w \in [Count -> Int] /\ x \in Int
    BY <1>4, <1>5
  <2>2. [d \in Count |-> applied'[d][l]] = [w EXCEPT ![c] = @ + x]
    BY <1>2, <1>3, <1>4 DEF moved
  <2>3. level[l].qty = others[l] + SumFunction(w)
    BY DEF CInv, StockIsSumOfMovements
  <2>4. level'[l].qty = level[l].qty + x
    BY <1>1, <1>6
  <2>5. others[l] \in Int /\ level[l].qty \in Int
    BY <1>4 DEF CInv, CountTypeOK, Row
  <2> HIDE DEF w, x
  <2>6. SumFunction([w EXCEPT ![c] = @ + x]) = SumFunction(w) + x /\ SumFunction(w) \in Int
    BY <1>3, <2>1, StockCountAssumption, SumMoves
  <2> QED
    BY <1>1, <2>1, <2>2, <2>3, <2>4, <2>5, <2>6
<1> QED
  BY <1>9, <1>10, <1>11, <1>12, <1>13 DEF CInv

\* Every step keeps the invariant.
LEMMA StepCInv == CInv /\ [CountNext]_cvars => CInv'
<1> SUFFICES ASSUME CInv, [CountNext]_cvars PROVE CInv'
  OBVIOUS
<1>1. ASSUME NEW t \in Tx, Abort(t) PROVE CInv'
  <2>1. FinishCounting(t) /\ UNCHANGED <<level, count, applied, others, movements, inventory>>
    BY <1>1 DEF Abort
  <2>2. count' \in [Count -> CountRow]
    BY <2>1 DEF CInv, CountTypeOK
  <2>3. CountingOK' /\ counting' \in [Tx -> CountRequest]
    BY <2>1, <2>2, OthersCount
  <2>4. CountTypeOK' /\ AppliedOK'
    BY <2>1, <2>3 DEF CInv, CountTypeOK, Atomic!TypeOK, AppliedOK
  <2> QED
    BY <2>1, <2>3, <2>4, CountChanges
<1>2. CASE UNCHANGED cvars
  <2>1. CountTypeOK' /\ CountingOK' /\ AppliedOK'
    BY <1>2 DEF CInv, CountTypeOK, Atomic!TypeOK, CountingOK, AppliedOK, cvars
  <2> QED
    BY <1>2, <2>1, CountChanges DEF cvars
<1> QED
  BY <1>1, <1>2, OtherMoves, CreateStep, BeginCountingStep, UpdateStep, CompleteStep, CancelStep
     DEF CountNext

\* The inductive invariant holds.
LEMMA CountInvariance == CountSpec => []CInv
  BY InitCInv, StepCInv, PTL DEF CountSpec

\* Every unit on the shelves was moved by a completed count, on a counted line, or by
\* another request, whatever was sold between the count and its completion.
THEOREM CountsMoveWhatTheyCounted == CountSpec => []MovementsAreCounted
<1>1. CInv => MovementsAreCounted
  BY DEF CInv, AppliedOK, MovementsAreCounted, OnlyCountedLinesMove
<1> QED
  BY <1>1, CountInvariance, PTL

\* The inventory account is worth what is on the shelves up to half a cent for each movement,
\* after gains and losses of any mix of lines.
THEOREM AccountFollowsWorth == CountSpec => []InventoryAccountFollowsWorth
<1>1. CInv => InventoryAccountFollowsWorth
  BY DEF CInv
<1> QED
  BY <1>1, CountInvariance, PTL
=============================================================================
