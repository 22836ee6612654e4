--------------------------- MODULE MCStockCount ---------------------------
(* Model-checking instances of StockCount. *)
EXTENDS StockCount, TLC

Take(l) == [row |-> l, qty |-> -1, cost |-> NoCost]

\* An adjustment up at a cost that is not the cost price, and a sale of each row or
\* of both.
MCMoves ==
    {[op |-> "adjust", steps |-> <<[row |-> l, qty |-> 1, cost |-> 3]>>] : l \in Level}
    \cup {[op |-> "issue", steps |-> <<Take(l)>>] : l \in Level}
    \cup {[op |-> "issue", steps |-> <<Take(p[1]), Take(p[2])>>]
            : p \in {p \in Level \X Level : p[1] # p[2]}}

Symmetry == Permutations(Tx) \cup Permutations(Level) \cup Permutations(Count)
=============================================================================
