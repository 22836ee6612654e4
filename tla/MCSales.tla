------------------------------ MODULE MCSales ------------------------------
(* Model-checking instances of Sales. *)
EXTENDS Sales, TLC

\* Requests are interchangeable, and so are keys.
Symmetry == Permutations(Tx) \cup Permutations(Key)
=============================================================================
