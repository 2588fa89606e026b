---------------------------- MODULE MCFulfillment ----------------------------
(* Small instances of Fulfillment for TLC. *)
EXTENDS Fulfillment

(* Two orders compete for one product in one warehouse. *)
CompetingOrderOf == [l \in Lines |-> l]
CompetingQty == [l \in Lines |-> IF l = 1 THEN 2 ELSE 1]

(* One order of two lines, both of the same product, and two warehouses. *)
SharedOrderOf == [l \in Lines |-> 1]
SharedQty == [l \in Lines |-> IF l = 1 THEN 2 ELSE 1]

OneLost == {-1}

OneProduct == [l \in Lines |-> 1]
OneEach == [r \in Rows |-> 1]
TwoEach == [r \in Rows |-> 2]
TwoAndOne == [r \in Rows |-> IF r[1] = 1 THEN 2 ELSE 1]
===============================================================================
