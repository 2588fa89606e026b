------------------------------ MODULE MCStockTx ------------------------------
(* Small instances of StockTx for TLC. *)
EXTENDS StockTx

Need(row, n) == [r \in Rows |-> IF r = row THEN n ELSE 0]

W1 == <<1, 1>>
W2 == <<2, 1>>

Call(kind, need) == [kind |-> kind, need |-> need, warehouse |-> 1]
Toggle(kind, w) == [kind |-> kind, need |-> [r \in Rows |-> 0], warehouse |-> w]

(* Two units in the first warehouse, one in the second. *)
MCOnHand == [r \in Rows |-> IF r = W1 THEN 2 ELSE 1]

Reservations == {Call("RESERVE", [r \in Rows |-> 1]), Call("RESERVE", Need(W1, 2)),
                 Call("RESERVE", Need(W2, 1))}
Dispatches == {Call("SHIP", [r \in Rows |-> 1]), Call("SHIP", Need(W1, 1))}
Toggles == {Toggle("DEACTIVATE", 1), Toggle("ACTIVATE", 1)}
Receipts == {Call("RECEIVE", Need(W1, 1)), Call("RECEIVE", Need(W2, 1))}
Adjustments == {Call("ADJUST", Need(W1, -1)), Call("ADJUST", Need(W1, 1))}

AllJobs == Reservations \cup Dispatches \cup Toggles \cup Receipts \cup Adjustments
HierarchyJobs == {Call("RESERVE", [r \in Rows |-> 1]), Call("RESERVE", Need(W2, 1)),
                  Call("SHIP", [r \in Rows |-> 1])} \cup Toggles
RaceJobs == {Call("RESERVE", Need(W1, 2))} \cup Adjustments
===============================================================================
