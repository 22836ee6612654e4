----------------------------- MODULE Valuation -----------------------------
(***************************************************************************)
(* The arithmetic of stock_levels: the guarded UPDATE of                   *)
(* InventoryService.recordMovement, which moves the quantity and the       *)
(* moving weighted average together.  No variables: AtomicStock and Stock  *)
(* extend it.                                                              *)
(*                                                                         *)
(* Quantities and costs are integers in the last digit their columns keep. *)
(* Storing an average rounds it to that digit, half up.                    *)
(***************************************************************************)
EXTENDS Integers, Sequences

CONSTANTS
    NoCost,     \* the caller gives no unit cost
    CostPrice   \* products.cost_price

ASSUME ValuationAssumption == CostPrice \in Nat /\ NoCost \notin Nat

Row == [qty : Nat, avg : Nat]

\* n / d to the nearest integer, half up, for d > 0 (Math.round, and numeric(p, s)).
RoundDiv(n, d) == (2 * n + d) \div (2 * d)

Worth(r) == r.qty * r.avg

EffectiveCost(r, cost) ==
    IF cost # NoCost THEN cost
    ELSE IF r.qty > 0 THEN r.avg ELSE CostPrice

\* Faulty variant: the UPDATE without its guard.
CanMoveAlways(r, q) == r.qty + q \in Int

\* The WHERE clause of the UPDATE.
CanMove(r, q) == r.qty + q >= 0

\* Faulty variant: the old average is weighted with the new quantity.
MovedNewWeight(r, q, cost) ==
    [qty |-> r.qty + q,
     avg |-> IF q > 0
             THEN RoundDiv((r.qty + q) * r.avg + q * EffectiveCost(r, cost), r.qty + q)
             ELSE r.avg]

\* The SET clause: an incoming quantity moves the average, an outgoing one
\* leaves it alone.
Moved(r, q, cost) ==
    [qty |-> r.qty + q,
     avg |-> IF q > 0
             THEN RoundDiv(Worth(r) + q * EffectiveCost(r, cost), r.qty + q)
             ELSE r.avg]
=============================================================================
