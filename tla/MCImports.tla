----------------------------- MODULE MCImports -----------------------------
(* Model-checking instances of Imports. *)
EXTENDS Imports, TLC

CONSTANTS a, b, c

R(k, ref, code, n) == [ok |-> TRUE, key |-> k, ref |-> ref, code |-> code, qty |-> n]

Bad == [ok |-> FALSE, key |-> Empty, ref |-> Empty, code |-> Empty, qty |-> 0]

\* The product a, the category a and the unit b are there already.
MCExisting ==
    [t \in Table |-> CASE t = "unit" -> {b} [] t \in {"product", "category"} -> {a}
                       [] OTHER -> {}]

\* One name in two rows, a malformed row, references that exist or not, a second
\* mapping that reads the file differently, and a file without rows.
MCFile ==
    [products |-> {<< <<R(b, a, c, 0), R(c, Empty, b, 0)>>, <<Bad, Bad>> >>},
     barcodes |-> {<< <<R(b, a, Empty, 0), R(b, c, Empty, 0)>> >>},
     categories |-> {<< <<R(b, a, Empty, 0)>> >>},
     units |-> {<< <<R(b, Empty, Empty, 0), R(c, Empty, Empty, 0)>> >>, << <<>> >>},
     parties |-> {<< <<R(Empty, Empty, Empty, 0), R(c, Empty, Empty, 0)>> >>},
     opening_stock |-> {<< <<R(a, Empty, Empty, 1), R(a, Empty, Empty, 2)>> >>}]

Symmetric == Permutations(Caller)
=============================================================================
