---------------------------- MODULE MCAccounting ----------------------------
(* Model-checking instances of Accounting, and of Reports composed with it. *)
EXTENDS Reports, TLC

\* A balanced opening, one that is not, and one without amounts.
MCOpeningLines ==
    {LinesOf([cash |-> 1, equity |-> -1]), LinesOf([cash |-> 1]), LinesOf(<<>>)}

\* A period that holds today, and one given backwards.
MCSpan == {[from |-> 1, to |-> 2], [from |-> 2, to |-> 1]}

CONSTANTS c1, b1, b2

Doc(type, party, branch, id) == [type |-> type, party |-> party, branch |-> branch, id |-> id]

Sold == Doc("Sale", c1, b1, 1)

Bought == Doc("Purchase", c1, b2, 2)

\* Yesterday: a sale on credit in one branch, as its row stands in the table.
MCBefore ==
    <<[ref |-> Sold, kind |-> "document", status |-> "posted", reverses |-> 0,
       lines |-> LinesOf([ar |-> 2, revenue |-> -2])]>>

\* Today: the customer pays a part, goods arrive in the other branch, and an
\* entry that does not balance.
MCPostings ==
    {[ref |-> Sold, kind |-> "payment", lines |-> LinesOf([cash |-> 1, ar |-> -1])],
     [ref |-> Bought, kind |-> "document", lines |-> LinesOf([inventory |-> 1, ap |-> -1])],
     [ref |-> Bought, kind |-> "document", lines |-> LinesOf([inventory |-> 1])]}

\* Every branch, and one.
MCScopes == {{b1, b2}, {b1}}

Symmetry == Permutations(Tx)
=============================================================================
