------------------------------- MODULE LineFlow -------------------------------
(***************************************************************************)
(* What becomes of the units of one physical order line, whatever plans,   *)
(* overrides, receipts and dispatches the order goes through: every unit   *)
(* ordered is short (on backorder or not yet decided), held (reserved for  *)
(* the line in some warehouse) or gone (dispatched), and units only move   *)
(* forward.  Fulfillment is shown to implement this specification.         *)
(***************************************************************************)
EXTENDS Integers

CONSTANTS Lines,  \* physical order lines
          Qty     \* OrderLine.qty, a function from Lines to Nat

VARIABLES short, held, gone

vars == <<short, held, gone>>

Init == /\ short = Qty
        /\ held = [l \in Lines |-> 0]
        /\ gone = [l \in Lines |-> 0]

(* Some of the units a line is short of are reserved for it. *)
Hold == /\ short' \in [Lines -> Nat]
        /\ \A l \in Lines : short'[l] <= short[l]
        /\ held' = [l \in Lines |-> held[l] + short[l] - short'[l]]
        /\ UNCHANGED gone

(* Some of the units held for a line leave the warehouse. *)
Send == /\ held' \in [Lines -> Nat]
        /\ \A l \in Lines : held'[l] <= held[l]
        /\ gone' = [l \in Lines |-> gone[l] + held[l] - held'[l]]
        /\ UNCHANGED short

Next == Hold \/ Send

Spec == Init /\ [][Next]_vars

-------------------------------------------------------------------------------
(* Properties *)

TypeOK == /\ short \in [Lines -> Nat]
          /\ held \in [Lines -> Nat]
          /\ gone \in [Lines -> Nat]

(* Every unit ordered is accounted for once (checkLineInvariant). *)
Conserved == \A l \in Lines : short[l] + held[l] + gone[l] = Qty[l]

(* Nothing dispatched comes back, and no more is ever dispatched than was    *)
(* ordered.                                                                  *)
NeverOverdelivered == \A l \in Lines : gone[l] <= Qty[l]
===============================================================================
