------------------------------ MODULE Agreement ------------------------------
(***************************************************************************)
(* What a quotation promises both sides: the company clears offers, the    *)
(* customer accepts offers, and at most one order is ever made, of an      *)
(* offer that has been both cleared and accepted.  Neither side's consent  *)
(* is forged, and an order is never changed.  Quotation is shown to        *)
(* implement this specification.                                           *)
(***************************************************************************)
EXTENDS Integers

CONSTANTS Offers,   \* a version of the quotation with its terms
          NoOrder

VARIABLES cleared,   \* offers approved by policy or by reviewers
          accepted,  \* offers accepted by the customer
          order      \* the offer that was ordered

vars == <<cleared, accepted, order>>

Init == /\ cleared = {}
        /\ accepted = {}
        /\ order = NoOrder

(* Consent only accumulates; the order may follow in the same transaction. *)
Consent == /\ cleared \subseteq cleared'
           /\ accepted \subseteq accepted'
           /\ cleared' \cup accepted' \subseteq Offers

Place == /\ order = NoOrder
         /\ order' \in cleared' \cap accepted'

Next == Consent /\ (Place \/ order' = order)

Spec == Init /\ [][Next]_vars
===============================================================================
