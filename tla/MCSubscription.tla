--------------------------- MODULE MCSubscription ---------------------------
(* Model-checking instances of Subscription. *)
EXTENDS Subscription, Functions, TLC

T(price, users, cashiers, n, sells) ==
    [price |-> price, users |-> users, cashiers |-> cashiers, branches |-> n,
     sells |-> sells]

CONSTANTS starter, professional

\* A plan with limits and a dearer one with wider ones.
MCCatalogue == starter :> T(1, 2, 1, 1, TRUE) @@ professional :> T(2, Null, 1, 2, TRUE)

\* Either may become free of charge, for the other product alone.
MCTerms == Range(MCCatalogue) \cup {T(0, 2, 2, 1, FALSE)}
=============================================================================
