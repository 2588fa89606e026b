----------------------------- MODULE BillingLedger -----------------------------
(***************************************************************************)
(* What recurring billing promises about one subscription: the periods it  *)
(* charges are entered in order, each once, by their first instant, and    *)
(* none after the subscription has ended.  How a run finds the periods,    *)
(* how often it runs, how late, and where it stops are left open.          *)
(***************************************************************************)
EXTENDS Naturals

VARIABLES charged,  \* first instants of the periods charged
          ended     \* the subscription is cancelled

vars == <<charged, ended>>

Init == charged = {} /\ ended = FALSE

(* One step enters any number of periods, all later than those entered     *)
(* before; it may end the subscription as well.                            *)
Charge ==
  /\ ~ended
  /\ charged \subseteq charged'
  /\ \A n \in charged' \ charged : n \in Nat /\ \A c \in charged : c < n
  /\ ended' \in BOOLEAN

Spec == Init /\ [][Charge]_vars
===============================================================================
