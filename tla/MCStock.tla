------------------------------ MODULE MCStock ------------------------------
(* Model-checking instances of Stock. *)
EXTENDS Stock, TLC

Step1(l, q, c) == [row |-> l, qty |-> q, cost |-> c]

MCMoves ==
    LET l2 == {p \in Level \X Level : p[1] # p[2]} IN
       {[op |-> "open", steps |-> <<Step1(l, 1, 3)>>] : l \in Level}
    \cup {[op |-> "adjust", steps |-> <<Step1(l, q, NoCost)>>] : l \in Level, q \in {1, -1}}
    \cup {[op |-> "transfer", steps |-> <<Step1(p[1], -1, NoCost), Step1(p[2], 1, NoCost)>>]
            : p \in l2}
    \cup {[op |-> "issue", steps |-> <<Step1(p[1], -1, NoCost), Step1(p[2], -1, NoCost)>>]
            : p \in l2}
    \cup {[op |-> "receive", steps |-> <<Step1(l, 1, 4)>>] : l \in Level}
=============================================================================
