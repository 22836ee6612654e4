----------------------------- MODULE MCSessions -----------------------------
(* Model-checking instances of Sessions. *)
EXTENDS Sessions, TLC

\* Requests and baskets are interchangeable; a tab is not, at the start.
Symmetry == Permutations(Request) \cup Permutations(Basket)
=============================================================================
