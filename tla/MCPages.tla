------------------------------ MODULE MCPages ------------------------------
(***************************************************************************)
(* Pages with two documents and two handlers.                              *)
(***************************************************************************)
EXTENDS Pages, TLC

CONSTANTS r1, r2, h1, h2, s1

MCRow == {r1, r2}
MCHandler == {h1, h2}
MCStray == {s1}
Symmetry == Permutations(MCRow) \cup Permutations(MCHandler)

\* Purchases have the form, the buttons of a row and the detail; companies are
\* there from the start; a member of the staff is made and not changed.
MCForms == [p \in Page |-> IF p \in {"purchases", "merchants", "staff"} THEN 1 ELSE 2]

=============================================================================
