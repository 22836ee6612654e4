---------------------------- MODULE StockCount ----------------------------
(***************************************************************************)
(* The physical count of a warehouse: create, updateLines, complete and    *)
(* cancel (inventory/stock-count.service.ts), while other requests move    *)
(* the same stock.                                                         *)
(*                                                                         *)
(* The rows of stock move as AtomicStock says, which Stock implements: the *)
(* movements of a completion are one request of it.  A counting request    *)
(* reads the count without a lock and writes it later, by its id.          *)
(***************************************************************************)
EXTENDS StockLevels

CONSTANTS
    Count,       \* counts of the warehouse
    Uncounted,   \* countedQuantity is null
    MaxMovements \* bound: other requests make no more movements than these

ASSUME StockCountAssumption ==
    /\ IsFiniteSet(Count)
    /\ None \notin Count
    /\ Uncounted \notin Nat
    /\ MaxMovements \in Nat

VARIABLES
    count,      \* rows of stock_counts with their lines
    applied,    \* SUM(stock_movements.quantity) of each count, by row of stock
    others,     \* SUM(stock_movements.quantity) of other requests, by row
    movements,  \* number of rows of stock_movements
    inventory,  \* balance of the inventory account, in cents
    counting    \* the counting request each transaction is running

cvars == <<level, count, applied, others, movements, inventory, counting>>

-----------------------------------------------------------------------------
\* A line: what the row held when the count was created, and what was found.
Line == [expected : Nat, counted : Nat \cup {Uncounted}]

NoLines == [l \in Level |-> [expected |-> 0, counted |-> Uncounted]]

CountRow == [status : {"none", "draft", "completed", "cancelled"}, lines : [Level -> Line]]

\* lines: the lines as complete read them.  row, n: the line updateLines writes.
NoCounting == [op |-> "none", count |-> None, lines |-> NoLines, row |-> None, n |-> 0]

CountRequest == [op : {"none", "update", "complete", "cancel"}, count : Count \cup {None},
                 lines : [Level -> Line], row : Level \cup {None}, n : Nat]

Difference(line) ==
    IF line.counted = Uncounted THEN 0 ELSE line.counted - line.expected

\* The rows after the movements of a completion: recordValuedAdjustment of each
\* line that differs, without a unit cost.
Adjusted(lines) ==
    [l \in Level |-> IF Difference(lines[l]) = 0 THEN level[l]
                     ELSE Moved(level[l], Difference(lines[l]), NoCost)]

\* Faulty variant: what is found is valued at the average of the row, also of a
\* row that was empty.
ValueDeltaAtAverage(l, r) == Round2((r.qty - level[l].qty) * level[l].avg)

\* valueDelta of a movement from the locked row to r.
ValueDelta(l, r) == Round2(Worth(r) - Worth(level[l]))

\* totalGain and totalLoss of a completion that makes the rows lv: sums of whole
\* cents, so each is posted (>= 0.005) unless it is nothing.
Gain(lv) == SumFunctionOnSet([l \in Level |-> ValueDelta(l, lv[l])],
                             {l \in Level : ValueDelta(l, lv[l]) > 0})

Loss(lv) == SumFunctionOnSet([l \in Level |-> -ValueDelta(l, lv[l])],
                             {l \in Level : ValueDelta(l, lv[l]) < 0})

CountInit ==
    /\ Atomic!Init
    /\ count = [c \in Count |-> [status |-> "none", lines |-> NoLines]]
    /\ applied = [c \in Count |-> [l \in Level |-> 0]]
    /\ others = [l \in Level |-> 0]
    /\ movements = 0
    /\ inventory = 0
    /\ counting = [t \in Tx |-> NoCounting]

-----------------------------------------------------------------------------
\* What request m posts, movement by movement, if made on the rows lv.
PostedBy(lv, m) ==
    LET rows == Atomic!Run(lv, m) IN
    SumFunctionOnSet([n \in 1..Len(m.steps) |->
                         LET s == m.steps[n]
                         IN  Posted(m.op, rows[n - 1][s.row], s, rows[n][s.row])],
                     1..Len(m.steps))

\* Adjustments and sales.
MoveOther(m) ==
    /\ m.op \in {"adjust", "issue"}
    /\ movements + Len(m.steps) <= MaxMovements
    /\ Atomic!Request(m)
    /\ others' = [l \in Level |-> others[l] + level'[l].qty - level[l].qty]
    /\ movements' = movements + Len(m.steps)
    /\ inventory' = inventory + PostedBy(level, m)
    /\ UNCHANGED <<count, applied, counting>>

\* The rows of the warehouse are read and stored as what is expected.
Create(c) ==
    /\ count[c].status = "none"
    /\ count' = [count EXCEPT ![c] =
                    [status |-> "draft",
                     lines |-> [l \in Level |-> [expected |-> level[l].qty,
                                                 counted |-> Uncounted]]]]
    /\ UNCHANGED <<level, applied, others, movements, inventory, counting>>

\* getOwned reads the count and its lines, and the status is checked.
BeginCounting(t, r) ==
    /\ counting[t] = NoCounting
    /\ count[r.count].status = "draft"
    /\ counting' = [counting EXCEPT ![t] = r]
    /\ UNCHANGED <<level, count, applied, others, movements, inventory>>

BeginUpdate(t) ==
    \E c \in Count, l \in Level, n \in 0..MaxQty :
        BeginCounting(t, [NoCounting EXCEPT !.op = "update", !.count = c, !.row = l, !.n = n])

BeginComplete(t) ==
    \E c \in Count :
        BeginCounting(t, [NoCounting EXCEPT !.op = "complete", !.count = c,
                                   !.lines = count[c].lines])

BeginCancel(t) ==
    \E c \in Count : BeginCounting(t, [NoCounting EXCEPT !.op = "cancel", !.count = c])

FinishCounting(t) == counting' = [counting EXCEPT ![t] = NoCounting]

\* One line at a time; a client that sends several writes them in a row.
CommitUpdate(t) ==
    /\ counting[t].op = "update"
    /\ count' = [count EXCEPT ![counting[t].count].lines[counting[t].row].counted = counting[t].n]
    /\ FinishCounting(t)
    /\ UNCHANGED <<level, applied, others, movements, inventory>>

\* Faulty variant: recordMovement does not refuse a negative quantity.
FitsBelowZero(lv) == \A l \in Level : lv[l].qty <= MaxQty

\* The guard of recordMovement on every row (and the bound).
Fits(lv) == \A l \in Level : 0 <= lv[l].qty /\ lv[l].qty <= MaxQty

\* The differences of the lines that were read, the entry with gains and losses
\* in lines of their own, and the status, by id.
CommitComplete(t) ==
    LET c  == counting[t].count
        lv == Adjusted(counting[t].lines)
    IN  /\ counting[t].op = "complete"
        /\ Fits(lv)
        /\ level' = lv
        /\ applied' = [applied EXCEPT ![c] =
                          [l \in Level |-> @[l] + Difference(counting[t].lines[l])]]
        /\ movements' = movements
               + Cardinality({l \in Level : Difference(counting[t].lines[l]) # 0})
        /\ inventory' = inventory + Gain(lv) - Loss(lv)
        /\ count' = [count EXCEPT ![c].status = "completed"]
        /\ FinishCounting(t)
        /\ UNCHANGED others

CommitCancel(t) ==
    /\ counting[t].op = "cancel"
    /\ count' = [count EXCEPT ![counting[t].count].status = "cancelled"]
    /\ FinishCounting(t)
    /\ UNCHANGED <<level, applied, others, movements, inventory>>

\* A row would become negative (409), the period is closed or the connection is
\* lost: nothing stays.
Abort(t) ==
    /\ counting[t] # NoCounting
    /\ FinishCounting(t)
    /\ UNCHANGED <<level, count, applied, others, movements, inventory>>

CountNext ==
    \/ \E m \in Moves : MoveOther(m)
    \/ \E c \in Count : Create(c)
    \/ \E t \in Tx :
          \/ BeginUpdate(t) \/ BeginComplete(t) \/ BeginCancel(t)
          \/ CommitUpdate(t) \/ CommitComplete(t) \/ CommitCancel(t)
          \/ Abort(t)

CountSpec == CountInit /\ [][CountNext]_cvars

-----------------------------------------------------------------------------
CountTypeOK ==
    /\ Atomic!TypeOK
    /\ count \in [Count -> CountRow]
    /\ applied \in [Count -> [Level -> Int]]
    /\ others \in [Level -> Int]
    /\ movements \in Nat
    /\ inventory \in Int
    /\ counting \in [Tx -> CountRequest]

\* Counts and other requests move the same rows and none loses the other's
\* movement, whatever was sold between the count and its completion.
StockIsSumOfMovements ==
    \A l \in Level :
        level[l].qty = others[l] + SumFunction([c \in Count |-> applied[c][l]])

\* The inventory account is worth what is on the shelves, up to half a cent for
\* each movement made, after gains and losses of any mix of lines and after a
\* completion that failed half way.
InventoryAccountFollowsWorth == WithinRounding(inventory, TotalWorth(level), movements)

\* A count moves stock only by being completed, and only where it was counted.
OnlyCountedLinesMove ==
    \A c \in Count, l \in Level : applied[c][l] # 0 =>
        count[c].status # "draft" /\ count[c].lines[l].counted # Uncounted

\* Every unit on the shelves was moved by a completed count, on a counted line, or
\* by another request.
MovementsAreCounted == CountTypeOK /\ StockIsSumOfMovements /\ OnlyCountedLinesMove

-----------------------------------------------------------------------------
\* A completed count reconciles every counted line against what was expected,
\* once (the comment of StockCountService).
AppliedOnce ==
    \A c \in Count : count[c].status = "completed" =>
        \A l \in Level : applied[c][l] = Difference(count[c].lines[l])

\* A cancelled count moved nothing (the message of cancel: a completed count
\* cannot be cancelled).
CancelledMovedNothing ==
    \A c \in Count : count[c].status = "cancelled" => \A l \in Level : applied[c][l] = 0

\* Completed counts are frozen (test/phase2.e2e-spec.ts).
CompletedIsFrozen ==
    [][\A c \in Count : count[c].status = "completed" => count'[c].lines = count[c].lines]_cvars
=============================================================================
