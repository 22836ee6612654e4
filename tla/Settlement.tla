---------------------------- MODULE Settlement ----------------------------
(***************************************************************************)
(* What payments promise of a document, a sale or a purchase: a payment is *)
(* taken once per key, only for a document that was issued, and only up to *)
(* what is still open.  Nothing paid is ever taken back or lost.  Sales    *)
(* and Purchases implement it with row locks and unique indexes.           *)
(***************************************************************************)
EXTENDS Integers

CONSTANTS
    Doc,    \* documents
    Key,    \* keys of payments
    NoDoc   \* the document of a key that was not used

VARIABLES
    total,   \* what is due on each document, 0 before it is issued
    paid,    \* what was paid on it
    payment  \* the document each key paid, and how much

Unused == [doc |-> NoDoc, n |-> 0]

Init ==
    /\ total = [d \in Doc |-> 0]
    /\ paid = [d \in Doc |-> 0]
    /\ payment = [k \in Key |-> Unused]

\* A document is issued, part of it paid at once.
Issue(d) ==
    /\ total[d] = 0
    /\ total'[d] > 0 /\ paid'[d] \in 0..total'[d]
    /\ total' = [total EXCEPT ![d] = total'[d]]
    /\ paid' = [paid EXCEPT ![d] = paid'[d]]
    /\ UNCHANGED payment

\* A key pays n.
Settle(d, k, n) ==
    /\ payment[k] = Unused
    /\ 0 < n /\ n <= total[d] - paid[d]
    /\ payment' = [payment EXCEPT ![k] = [doc |-> d, n |-> n]]
    /\ paid' = [paid EXCEPT ![d] = @ + n]
    /\ UNCHANGED total

Next ==
    \E d \in Doc :
        \/ Issue(d)
        \/ \E k \in Key : Settle(d, k, paid'[d] - paid[d])

vars == <<total, paid, payment>>

Spec == Init /\ [][Next]_vars
=============================================================================
