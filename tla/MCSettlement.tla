----------------------------- MODULE MCSettlement -----------------------------
(* Small instances of Settlement for TLC: one order with two shipments and a *)
(* subscription, whose period p1 can be followed by a proration charge x1.   *)
EXTENDS Settlement, TLC

CONSTANTS d1, d2, p1, x1, o1, o2, s1, k1, k2, k3

MCTotal == (d1 :> 2) @@ (d2 :> 1) @@ (p1 :> 3) @@ (x1 :> 2)
MCOrderOf == [i \in Invoices |-> IF i \in {d1, d2} THEN o1 ELSE o2]
MCSubOf == [i \in {p1, x1} |-> s1]

Payment(i, a, k) == [kind |-> "pay", invoice |-> i, amount |-> a, key |-> k]
Dispatch(i) == [kind |-> "dispatch", invoice |-> i]
Period(i) == [kind |-> "period", invoice |-> i]
Granted(i, a) == [source |-> i, amount |-> a]
Change(k, credits, charge) ==
  [kind |-> "change", sub |-> s1, key |-> k, credits |-> credits, charge |-> charge]

(* Deliveries, and payments of them. *)
DeliveryJobs == {Dispatch(d1), Dispatch(d2), Payment(d1, 2, k1), Payment(d1, 1, k2),
                 Payment(d2, 1, k2), Payment(d2, 1, k3)}
(* Plan changes and cancellations, with billing. *)
CreditJobs == {Period(p1), Payment(p1, 2, k1), Change(k1, <<Granted(NoInvoice, 1)>>, NoInvoice),
               Change(k2, <<Granted(p1, 2)>>, x1),
               Change(k3, <<Granted(p1, 2), Granted(x1, 1)>>, NoInvoice)}
(* Two qty decreases in a period whose invoice was settled in part by an older credit. *)
RefundJobs == {Period(p1), Payment(p1, 1, k1), Change(k1, <<Granted(NoInvoice, 2)>>, NoInvoice),
               Change(k2, <<Granted(p1, 1)>>, NoInvoice), Change(k3, <<Granted(p1, 1)>>, NoInvoice)}
AllJobs == DeliveryJobs \cup CreditJobs

Interchangeable == Permutations(Txs)
===============================================================================
