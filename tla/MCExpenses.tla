----------------------------- MODULE MCExpenses -----------------------------
(* Model-checking instances of Expenses. *)
EXTENDS Expenses, TLC

Symmetry == Permutations(Tx) \cup Permutations(Expense)
=============================================================================
