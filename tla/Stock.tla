------------------------------- MODULE Stock -------------------------------
(***************************************************************************)
(* The requests that move stock (inventory/inventory.service.ts), step by  *)
(* step as PostgreSQL runs them: setOpeningBalance, adjustStock,           *)
(* transferStock, and the loops of createSale and receivePurchase over     *)
(* their lines.                                                            *)
(*                                                                         *)
(* Each movement updates one row of stock_levels and keeps it locked until *)
(* the transaction ends.  Other transactions see the row as it was, and    *)
(* wait when they come to update it.  Two that wait for each other are     *)
(* noticed by the database, which rolls one of them back.                  *)
(***************************************************************************)
EXTENDS StockLevels

VARIABLES
    work,    \* per transaction, the rows it has updated: it holds their locks
    tx       \* the request each transaction is running

vars == <<level, work, tx>>

-----------------------------------------------------------------------------
\* done: movements made.  delta: what the journal entry will add to the
\* inventory account, in cents.  cost: the average the last outgoing movement returned.
NoRequest == [op |-> "none", steps |-> <<>>, done |-> 0, delta |-> 0, cost |-> NoCost]

Request == [op : {"none", "open", "adjust", "transfer", "issue", "receive"},
            steps : Seq(Step), done : Nat, delta : Int, cost : Nat \cup {NoCost}]

Untouched == [l \in Level |-> None]

Open(t) == tx[t].op # "none"

Pending(t) == tx[t].done < Len(tx[t].steps)

NextStep(t) == tx[t].steps[tx[t].done + 1]

Holds(t, l) == work[t][l] # None

\* The row as transaction t sees it.
Seen(t, l) == IF Holds(t, l) THEN work[t][l] ELSE level[l]

WaitsFor(t, u) == t # u /\ Pending(t) /\ Holds(u, NextStep(t).row)

\* A set of transactions that wait for each other, t among them.
Deadlocked(t) ==
    \E S \in SUBSET Tx : t \in S /\ \A u \in S : \E v \in S : WaitsFor(u, v)

Init ==
    /\ level = [l \in Level |-> [qty |-> 0, avg |-> 0]]
    /\ work = [t \in Tx |-> Untouched]
    /\ tx = [t \in Tx |-> NoRequest]

-----------------------------------------------------------------------------
\* setOpeningBalance reads the row without a lock and refuses one with stock.
Begin(t) ==
    \E m \in Moves :
        /\ ~Open(t)
        /\ m.op = "open" => level[m.steps[1].row].qty = 0
        /\ tx' = [tx EXCEPT ![t] = [NoRequest EXCEPT !.op = m.op, !.steps = m.steps]]
        /\ UNCHANGED <<level, work>>

\* The unit cost a movement is given: transferStock passes on the average its
\* outgoing movement returned.
GivenCost(t) ==
    IF tx[t].op = "transfer" /\ tx[t].done = 1 THEN tx[t].cost ELSE NextStep(t).cost

\* Faulty variant: the row is not locked before it is read.
MoveUnlocked(t) ==
    /\ Open(t) /\ Pending(t)
    /\ LET s  == NextStep(t)
           r  == Seen(t, s.row)
           rr == Moved(r, s.qty, GivenCost(t))
       IN  /\ CanMove(r, s.qty) /\ rr.qty <= MaxQty
           /\ work' = [work EXCEPT ![t][s.row] = rr]
           /\ tx' = [tx EXCEPT ![t].done = @ + 1,
                               ![t].delta = @ + Posted(tx[t].op, r, s, rr),
                               ![t].cost = rr.avg]
    /\ UNCHANGED level

\* recordMovement: lock the row, or wait for it, and update it.
Move(t) ==
    /\ Open(t) /\ Pending(t)
    /\ LET s  == NextStep(t)
           r  == Seen(t, s.row)
           rr == Moved(r, s.qty, GivenCost(t))
       IN  /\ \A u \in Tx : ~WaitsFor(t, u)
           /\ CanMove(r, s.qty) /\ rr.qty <= MaxQty
           /\ work' = [work EXCEPT ![t][s.row] = rr]
           /\ tx' = [tx EXCEPT ![t].done = @ + 1,
                               ![t].delta = @ + Posted(tx[t].op, r, s, rr),
                               ![t].cost = rr.avg]
    /\ UNCHANGED level

Finish(t) ==
    /\ tx' = [tx EXCEPT ![t] = NoRequest]
    /\ work' = [work EXCEPT ![t] = Untouched]

Commit(t) ==
    /\ Open(t) /\ ~Pending(t)
    /\ level' = [l \in Level |-> Seen(t, l)]
    /\ Finish(t)

RolledBack(t) == Open(t) /\ Finish(t) /\ UNCHANGED level

\* The UPDATE finds no row that satisfies its guard: 409.  (Room is the bound.)
Refuse(t) ==
    /\ Pending(t)
    /\ \A u \in Tx : ~WaitsFor(t, u)
    /\ LET r == Seen(t, NextStep(t).row)
           q == NextStep(t).qty
       IN  ~CanMove(r, q) \/ r.qty + q > MaxQty
    /\ RolledBack(t)

\* Faulty variant: waits are never examined.
VictimNever(t) == FALSE /\ RolledBack(t)

\* PostgreSQL's deadlock detector rolls back one of those that wait in a ring.
Victim(t) == Deadlocked(t) /\ RolledBack(t)

\* Prisma's transaction timeout, a lost connection, a crash.
Lose(t) == RolledBack(t)

Next ==
    \E t \in Tx :
        \/ Begin(t) \/ Move(t) \/ Commit(t)
        \/ Refuse(t) \/ Victim(t) \/ Lose(t)

Spec == Init /\ [][Next]_vars

\* A request that can go on does, a lock is granted to those that wait for it
\* in turn (so also when it is taken and released meanwhile), and the deadlock
\* detector runs.  Nothing makes clients send requests or connections fail.
Fairness ==
    \A t \in Tx : SF_vars(Move(t)) /\ WF_vars(Commit(t))
                  /\ SF_vars(Refuse(t)) /\ WF_vars(Victim(t))

FairSpec == Spec /\ Fairness

-----------------------------------------------------------------------------
TypeOK ==
    /\ level \in [Level -> Row]
    /\ work \in [Tx -> [Level -> Row \cup {None}]]
    /\ tx \in [Tx -> Request]

\* Requests take effect one after the other, each at once.
ImplementsAtomicStock == Atomic!Spec

\* What a request posts to the inventory account is by how much it changed the
\* worth of the stock, whatever else moved the row since it was read (the FOR
\* UPDATE in recordMovementWithValueDelta, the average an issue returns): up to
\* half a cent for each movement, which is rounded by itself.
PostedFollowsWorth ==
    [][\A t \in Tx : (tx[t].op \in {"adjust", "issue"} /\ Commit(t)) =>
          WithinRounding(tx[t].delta, TotalWorth(level') - TotalWorth(level),
                         Len(tx[t].steps))]_vars

\* A transfer neither makes nor loses goods, and their worth changes only by
\* the rounding of one average: half a digit for each unit of the row.
TransferKeepsWorth ==
    [][\A t \in Tx : (tx[t].op = "transfer" /\ Commit(t)) =>
          LET to == tx[t].steps[2].row
              d  == TotalWorth(level') - TotalWorth(level)
          IN  /\ level'[tx[t].steps[1].row].qty + level'[to].qty
                     = level[tx[t].steps[1].row].qty + level[to].qty
              /\ 2 * d <= level'[to].qty /\ -2 * d <= level'[to].qty]_vars

\* The inventory account follows the goods through every kind of movement.
WorthFollowsGoods == PostedFollowsWorth /\ TransferKeepsWorth

\* Every request is answered: no two wait for each other for good.
EveryRequestEnds == \A t \in Tx : Open(t) ~> ~Open(t)

-----------------------------------------------------------------------------
\* A second opening balance on the same product and warehouse is refused
\* (test/phase2.e2e-spec.ts; the message of setOpeningBalance).
OpeningOnlyOnEmpty ==
    [][\A t \in Tx : (tx[t].op = "open" /\ Commit(t)) =>
          level[tx[t].steps[1].row].qty = 0]_vars
=============================================================================
