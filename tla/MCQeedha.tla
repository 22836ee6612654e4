----------------------------- MODULE MCQeedha -----------------------------
(* Model-checking instances of Qeedha. *)
EXTENDS Qeedha, TLC

Symmetry == Permutations(Sub) \cup Permutations(Tx) \cup Permutations(Key)
            \cup Permutations(Sale)
=============================================================================
