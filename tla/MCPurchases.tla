---------------------------- MODULE MCPurchases ----------------------------
(* Model-checking instances of Purchases. *)
EXTENDS Purchases, TLC

\* 0.015 of a product for 7 cents net and 1 cent of VAT.  Two returns of 0.010
\* exceed it by what the check admits, and all parts are rounded.
MCOrder == {[qty |-> 15, unitCost |-> 5, discount |-> 1, rate |-> 15]}

Symmetry == Permutations(Tx) \cup Permutations(Purchase) \cup Permutations(Key)
=============================================================================
