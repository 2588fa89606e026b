------------------------- MODULE MCSubscriptionBilling -------------------------
(* A small instance of SubscriptionBilling for TLC.  The short cycle has two *)
(* ticks, so that a change can fall inside a period, and its plan prorates; *)
(* the long one has four, and its plan defers changes to the next period.   *)
EXTENDS SubscriptionBilling, TLC

CONSTANTS short, long

MCCycle == (short :> 2) @@ (long :> 4)
MCRate == (short :> 2) @@ (long :> 1)
MCProration == (short :> "DAILY") @@ (long :> "NONE")
MCOnCancel == (short :> "PRORATED_CREDIT") @@ (long :> "NONE")
===============================================================================
