---------------------------- MODULE AtomicStock ----------------------------
(***************************************************************************)
(* What the inventory promises: every request that moves stock takes       *)
(* effect at one instant, on the quantities and averages of that instant,  *)
(* and never below zero.  Stock implements it with row locks, uncommitted  *)
(* rows and roll-backs.                                                    *)
(*                                                                         *)
(* A request is a list of movements; in a transfer the quantity that comes *)
(* in carries the average of the row it left.                              *)
(***************************************************************************)
EXTENDS Valuation

CONSTANTS
    Level,    \* rows of stock_levels: a product in a warehouse
    Moves,    \* requests: [op, steps], steps a sequence of Step
    MaxQty    \* bound: no row holds more

VARIABLE level

Step == [row : Level, qty : Int, cost : Nat \cup {NoCost}]

\* The unit cost of the n-th movement of request m, made on the rows w.
Cost(w, m, n) ==
    IF m.op = "transfer" /\ n = 2 THEN w[m.steps[1].row].avg ELSE m.steps[n].cost

\* The rows before the first movement of request m, rows lv, and after each one.
Run(lv, m) ==
    LET After[n \in 0..Len(m.steps)] ==
            IF n = 0 THEN lv
            ELSE LET w == After[n - 1]
                     s == m.steps[n]
                 IN  [w EXCEPT ![s.row] = Moved(@, s.qty, Cost(w, m, n))]
    IN  After

\* The n-th movement finds enough on hand (and, the bound, room enough).
Fitting(lv, m, n) ==
    LET q == Run(lv, m)[n][m.steps[n].row].qty IN 0 <= q /\ q <= MaxQty

Init == level = [l \in Level |-> [qty |-> 0, avg |-> 0]]

Request(m) ==
    /\ \A n \in 1..Len(m.steps) : Fitting(level, m, n)
    /\ level' = Run(level, m)[Len(m.steps)]

Next == \E m \in Moves : Request(m)

Spec == Init /\ [][Next]_level

TypeOK == level \in [Level -> Row]
=============================================================================
