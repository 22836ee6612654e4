---------------------------- MODULE StockLevels ----------------------------
(***************************************************************************)
(* The table stock_levels, what clients ask of it and what is promised of  *)
(* the answers (AtomicStock): what Stock, which moves the rows, and        *)
(* StockCount, which counts them, have in common.                          *)
(***************************************************************************)
EXTENDS Valuation, FiniteSets, Functions

CONSTANTS
    Level,    \* rows of stock_levels: a product in a warehouse
    Tx,       \* requests that can be open at the same time
    None,     \* no row, no count
    Moves,    \* requests clients send: [op, steps]
    Cent,     \* what a cent is in digits of worth (quantities keep three, costs four)
    MaxQty    \* bound: no row holds more

VARIABLE level   \* committed rows of stock_levels

Step == [row : Level, qty : Int, cost : Nat \cup {NoCost}]

\* A sale only takes goods away, a receipt names the price, and a transfer is between
\* two warehouses.
ASSUME LevelsAssumption ==
    /\ IsFiniteSet(Level)
    /\ None \notin Row
    /\ MaxQty \in Nat /\ Cent \in Nat \ {0}
    /\ Moves \subseteq [op : {"open", "adjust", "transfer", "issue", "receive"},
                        steps : Seq(Step)]
    /\ \A m \in Moves :
          /\ m.op = "issue" => \A i \in 1..Len(m.steps) : m.steps[i].qty < 0
          /\ m.op = "receive" => \A i \in 1..Len(m.steps) : m.steps[i].cost # NoCost
          /\ m.op = "transfer" =>
                LET s == m.steps IN
                /\ Len(s) = 2 /\ s[1].row # s[2].row
                /\ s[1].qty < 0 /\ s[2].qty = -s[1].qty

\* Requests take effect one after the other, each at once: no update is lost,
\* none is seen before it is committed, and a roll-back leaves nothing.
Atomic == INSTANCE AtomicStock
    WITH Level <- Level, Moves <- Moves, MaxQty <- MaxQty, level <- level

\* What the rows lv are worth.
TotalWorth(lv) == SumFunction([l \in Level |-> Worth(lv[l])])

\* round2: worth in cents.
Round2(worth) == RoundDiv(worth, Cent)

\* Faulty variant: an adjustment is valued at the average before it.
PostedAtOldAverage(op, r, s, rr) ==
    CASE op = "adjust"  -> Round2(s.qty * r.avg)
      [] op = "issue"   -> -Round2(-s.qty * rr.avg)
      [] op = "receive" -> Round2(s.qty * s.cost)
      [] OTHER          -> 0

\* What the movement s of a row, from r to rr, adds to the inventory account, in
\* cents: an adjustment the change in worth between the locked row and the updated
\* one (less than half a cent is no entry, as it rounds to nothing), a sale the cost
\* of the goods, a receipt their price; opening stock and transfers are not posted.
Posted(op, r, s, rr) ==
    CASE op = "adjust"  -> Round2(Worth(rr) - Worth(r))
      [] op = "issue"   -> -Round2(-s.qty * rr.avg)
      [] op = "receive" -> Round2(s.qty * s.cost)
      [] OTHER          -> 0

\* n movements changed the worth of stock by worth and the account by cents: they
\* agree up to half a cent for each.
WithinRounding(cents, worth, n) ==
    -(Cent * n) <= 2 * (Cent * cents - worth) /\ 2 * (Cent * cents - worth) <= Cent * n
=============================================================================
