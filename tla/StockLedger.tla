----------------------------- MODULE StockLedger -----------------------------
(***************************************************************************)
(* What the stock rows promise, whatever transactions run: a unit is       *)
(* reserved only while it is on hand and free, leaves the warehouse only   *)
(* against a reservation, and a warehouse that holds a reservation stays   *)
(* active.  A correction respects what is reserved, unless the row changed *)
(* between the correction's read and its write: the ledger says which rows *)
(* that happened to, and promises nothing of what they have on hand.       *)
(* Every change is one atomic step over any number of rows.  StockTx, the  *)
(* transactions of stock.service.ts and warehouse.service.ts with their    *)
(* row locks, is shown to implement this specification.                    *)
(***************************************************************************)
EXTENDS Integers

CONSTANTS Warehouses, Products

VARIABLES onHand,    \* StockLevel.onHand of each (warehouse, product) row
          reserved,  \* StockLevel.reserved
          active,    \* Warehouse.isActive
          stale      \* history: the rows last corrected from an outdated read

vars == <<onHand, reserved, active, stale>>

Rows == Warehouses \X Products

WarehouseOf(r) == r[1]

Init == /\ onHand \in [Rows -> Nat]
        /\ reserved = [r \in Rows |-> 0]
        /\ active \in [Warehouses -> BOOLEAN]
        /\ stale = {}

(* Reservations grow, each in an active warehouse and within what is there. *)
Reserve == /\ reserved' \in [Rows -> Nat]
           /\ \A r \in Rows : reserved'[r] # reserved[r] =>
                 /\ reserved'[r] > reserved[r]
                 /\ reserved'[r] <= onHand[r]
                 /\ active[WarehouseOf(r)]
           /\ UNCHANGED <<onHand, active, stale>>

(* A dispatch takes the same units off the reservation and off the shelf. *)
Dispatch == /\ reserved' \in [Rows -> Nat]
            /\ \A r \in Rows : /\ reserved'[r] <= reserved[r]
                               /\ reserved'[r] # reserved[r] => active[WarehouseOf(r)]
            /\ onHand' = [r \in Rows |-> onHand[r] - (reserved[r] - reserved'[r])]
            /\ UNCHANGED <<active, stale>>

(* A receipt adds to what is on hand. *)
Receive == /\ onHand' \in [Rows -> Int]
           /\ \A r \in Rows : onHand'[r] >= onHand[r]
           /\ UNCHANGED <<reserved, active, stale>>

(* A correction sets one row, to no less than it has reserved if the row is *)
(* as it was read, and to whatever was computed if it is not.               *)
Correct == \E r \in Rows :
             /\ onHand' \in [Rows -> Int]
             /\ onHand'[r] >= 0
             /\ \A q \in Rows \ {r} : onHand'[q] = onHand[q]
             /\ \/ onHand'[r] >= reserved[r] /\ stale' = stale \ {r}
                \/ stale' = stale \cup {r}
             /\ UNCHANGED <<reserved, active>>

(* A warehouse is switched off only when nothing in it is promised. *)
SetActive == /\ active' \in [Warehouses -> BOOLEAN]
             /\ \A r \in Rows :
                   active[WarehouseOf(r)] /\ ~active'[WarehouseOf(r)] => reserved[r] = 0
             /\ UNCHANGED <<onHand, reserved, stale>>

Next == Reserve \/ Dispatch \/ Receive \/ Correct \/ SetActive

Spec == Init /\ [][Next]_vars
===============================================================================
