----------------------------- MODULE Fulfillment -----------------------------
(***************************************************************************)
(* Fulfilment of confirmed orders: fulfillment.service.ts with the stock   *)
(* operations it calls (stock.service.ts), the warehouse administration    *)
(* that moves stock under it (admin/warehouse.service.ts) and the invoice  *)
(* a dispatch issues (invoice.service.ts).  A service call is one step: it *)
(* runs in one transaction under the lock of its order, and StockTx shows  *)
(* what its stock locks are worth.  Three calls are two steps here: an     *)
(* acceptance that is refused and then refreshes the proposal, the receipt *)
(* handler, which reads the backorders before it locks their orders, and a *)
(* correction of the stock, which locks nothing between its read of the    *)
(* row and its write.                                                      *)
(*                                                                         *)
(* Only physical lines are modelled: the others need no stock.             *)
(***************************************************************************)
EXTENDS Integers, FiniteSets, Functions, Bags

CONSTANTS Orders,
          Lines,          \* physical order lines
          Warehouses,
          Products,
          OrderOf,        \* OrderLine.orderId
          ProductOf,      \* OrderLine.productId
          Qty,            \* OrderLine.qty
          InitialOnHand,  \* StockLevel.onHand of each row at the start
          MaxOnHand,      \* bound: nothing added takes a row above this
          MaxWarehouses,  \* FULFILLMENT policy: maxWarehousesPerOrder
          ExhaustiveWarehouses, \* planSplit tries every set of this many: 8
          Corrections,    \* adjustStock calls that are open at once
          Deltas          \* AdjustStockInput.delta

Rows == Warehouses \X Products

ASSUME FulfillmentAssumption ==
  /\ OrderOf \in [Lines -> Orders]
  /\ ProductOf \in [Lines -> Products]
  /\ Qty \in [Lines -> Nat \ {0}]
  /\ InitialOnHand \in [Rows -> Nat]
  /\ MaxOnHand \in [Rows -> Nat]
  /\ MaxWarehouses \in Nat \ {0}
  /\ Deltas \subseteq Int
  /\ IsFiniteSet(Lines) /\ IsFiniteSet(Warehouses)

VARIABLES onHand,      \* StockLevel.onHand
          reserved,    \* StockLevel.reserved
          active,      \* Warehouse.isActive
          plan,        \* FulfillmentPlan: its status, and whether it was set by hand
          alloc,       \* the plan's live allocations: qty less qtyShipped
          backorder,   \* the open quantity of each line's live backorder
          suggestion,  \* the consolidation suggested for it
          shipments,   \* each order's PLANNED shipments, a bag
          sent,        \* its SHIPPED shipments, each with its invoice, a bag
          shipped,     \* OrderLine.qtyShipped
          invoiced,    \* OrderLine.qtyInvoiced
          fulfillment, \* Order.fulfillmentStatus
          orderStatus, \* Order.status
          refused,     \* a refused acceptance is about to refresh its proposal
          events,      \* rows with a stock.received event not yet handled
          scan,        \* per product: what the receipt handler has read
          correction,  \* what each open adjustStock call has read, and will write
          stale        \* history: the rows last corrected from an outdated read

stock == <<onHand, reserved, active, stale>>
decisions == <<plan, alloc, backorder, suggestion, refused>>
deliveries == <<shipments, sent, shipped, invoiced>>
handlers == <<events, scan, correction>>
vars == <<stock, decisions, deliveries, fulfillment, orderStatus, handlers>>

LinesOf(o) == {l \in Lines : OrderOf[l] = o}
RowOf(w, l) == <<w, ProductOf[l]>>

NoSuggestion == [qty |-> 0]
NoScan == [reading |-> FALSE]
NoRead == [reading |-> FALSE]

Init == /\ onHand = InitialOnHand
        /\ reserved = [r \in Rows |-> 0]
        /\ active = [w \in Warehouses |-> TRUE]
        /\ plan = [o \in Orders |-> [status |-> "NONE", manual |-> FALSE]]
        /\ alloc = [l \in Lines |-> [w \in Warehouses |-> 0]]
        /\ backorder = [l \in Lines |-> 0]
        /\ suggestion = [l \in Lines |-> NoSuggestion]
        /\ shipments = [o \in Orders |-> EmptyBag]
        /\ sent = [o \in Orders |-> EmptyBag]
        /\ shipped = [l \in Lines |-> 0]
        /\ invoiced = [l \in Lines |-> 0]
        /\ fulfillment = [o \in Orders |-> "UNALLOCATED"]
        /\ orderStatus = [o \in Orders |-> "OPEN"]
        /\ refused = [o \in Orders |-> FALSE]
        /\ events = {}
        /\ scan = [p \in Products |-> NoScan]
        /\ correction = [c \in Corrections |-> NoRead]
        /\ stale = {}

Decided(o) == plan[o].status \in {"ACCEPTED", "OVERRIDDEN"}

-------------------------------------------------------------------------------
(* Allocations: functions from the lines of an order and the warehouses     *)

Units(a, l) == SumFunction(a[l])
TotalUnits(a) == SumFunction([l \in DOMAIN a |-> Units(a, l)])
Used(a) == {w \in Warehouses : \E l \in DOMAIN a : a[l][w] > 0}

(* What allocation a takes from each stock row. *)
Taken(a, r) == SumFunction([l \in DOMAIN a |-> IF ProductOf[l] = r[2] THEN a[l][r[1]] ELSE 0])

MaxQty == CHOOSE n \in Range(Qty) : \A l \in Lines : Qty[l] <= n

(* warehouseStock: what an active warehouse has and has not promised. *)
Free(r) == IF active[r[1]] /\ onHand[r] > reserved[r] THEN onHand[r] - reserved[r] ELSE 0

(* The allocations the policy and the stock admit for order o. *)
Splits(o) ==
  {a \in [LinesOf(o) -> [Warehouses -> 0..MaxQty]] :
     /\ \A l \in LinesOf(o) : Units(a, l) <= Qty[l]
     /\ \A r \in Rows : Taken(a, r) <= Free(r)
     /\ Cardinality(Used(a)) <= MaxWarehouses}

(* No unit of allocation a was left out that the warehouses S could give.   *)
Fills(a, S) ==
  \A l \in DOMAIN a : Units(a, l) = Qty[l] \/ \A w \in S : Taken(a, RowOf(w, l)) = Free(RowOf(w, l))

(* planSplit takes one that fulfils the most units, if it can try every set *)
(* of warehouses, and otherwise one that fills the order from as many as it *)
(* may select one after the other.  Which these are is left open.           *)
BestSplits(o) ==
  LET open == {w \in Warehouses : active[w]}
      splits == Splits(o)
  IN IF Cardinality(open) <= ExhaustiveWarehouses
     THEN {a \in splits : \A b \in splits : TotalUnits(b) <= TotalUnits(a)}
     ELSE {a \in splits : \E S \in SUBSET open :
             /\ Cardinality(S) <= MaxWarehouses
             /\ S = open \/ Cardinality(S) = MaxWarehouses
             /\ Used(a) \subseteq S
             /\ Fills(a, S)}

(* The plan, allocations and backorders that order o is left with.          *)
Replan(o, a, manual) ==
  /\ plan' = [plan EXCEPT ![o] = [status |-> "SUGGESTED", manual |-> manual]]
  /\ alloc' = [l \in Lines |-> IF l \in LinesOf(o) THEN a[l] ELSE alloc[l]]
  /\ backorder' = [l \in Lines |-> IF l \in LinesOf(o) THEN Qty[l] - shipped[l] - Units(a, l)
                                   ELSE backorder[l]]

(* What was suggested for the backorders of order o goes with them.         *)
Retire(o) ==
  suggestion' = [l \in Lines |-> IF l \in LinesOf(o) THEN NoSuggestion ELSE suggestion[l]]

OpenBackorders(o) == \E l \in LinesOf(o) : backorder[l] > 0

(* The status of an order that proposing a split leaves. *)
StatusWhenProposed(o) ==
  IF \E l \in LinesOf(o) : backorder'[l] > 0 THEN "BACKORDERED" ELSE "UNALLOCATED"

(* Mutant of StatusWhenReserved: what is still owed is forgotten. *)
StatusReserved(o) == "RESERVED"

(* ... that accepting it, or reserving for a backorder, leaves. *)
StatusWhenReserved(o) ==
  IF \E l \in LinesOf(o) : backorder'[l] > 0 THEN "BACKORDERED" ELSE "RESERVED"

-------------------------------------------------------------------------------
(* Proposals *)

ProposePlan(o) ==
  /\ orderStatus[o] = "OPEN"
  /\ plan[o].status = "NONE"
  /\ \E a \in BestSplits(o) : Replan(o, a, FALSE)
  /\ fulfillment' = [fulfillment EXCEPT ![o] = StatusWhenProposed(o)]
  /\ UNCHANGED <<stock, suggestion, refused, deliveries, orderStatus, handlers>>

(* Mutant of Recomputable: a decided plan is recomputed like a proposal. *)
RecomputableAnyPlan(o) ==
  /\ orderStatus[o] = "OPEN"
  /\ \A l \in LinesOf(o) : shipped[l] = 0

(* A proposal can be replaced while nothing of it is reserved or shipped.   *)
Recomputable(o) ==
  /\ orderStatus[o] = "OPEN"
  /\ plan[o].status = "SUGGESTED"
  /\ \A l \in LinesOf(o) : shipped[l] = 0
  /\ shipments[o] = EmptyBag

Recompute(o) ==
  /\ Recomputable(o)
  /\ \E a \in BestSplits(o) : Replan(o, a, FALSE)
  /\ Retire(o)
  /\ fulfillment' = [fulfillment EXCEPT ![o] = StatusWhenProposed(o)]
  /\ UNCHANGED <<stock, deliveries, orderStatus, handlers>>

RecomputePlan(o) == Recompute(o) /\ UNCHANGED refused

(* Operations chooses the allocation by hand, in warehouses that are short  *)
(* of nothing the order asks for.  Only OPEN backorders are retired:        *)
(* SuggestionsAreOwed shows that a proposal has no others.                  *)
OverridePlan(o) ==
  /\ plan[o].status = "SUGGESTED"
  /\ \E a \in Splits(o) :
       /\ \A w \in Used(a), l \in LinesOf(o) : reserved[RowOf(w, l)] <= onHand[RowOf(w, l)]
       /\ Replan(o, a, TRUE)
  /\ Retire(o)
  /\ UNCHANGED <<stock, deliveries, fulfillment, orderStatus, refused, handlers>>

-------------------------------------------------------------------------------
(* Acceptance *)

Proposed(o) == [l \in LinesOf(o) |-> alloc[l]]

(* Mutant of CanReserve: only the warehouses are checked. *)
CanReserveAnything(o) == \A w \in Used(Proposed(o)) : active[w]

(* Checked under the warehouse and stock locks. *)
CanReserve(o) ==
  /\ \A w \in Used(Proposed(o)) : active[w]
  /\ \A r \in Rows : Taken(Proposed(o), r) > 0 =>
                        reserved[r] + Taken(Proposed(o), r) <= onHand[r]

NewShipment(w, items) == [warehouse |-> w, items |-> items]

AcceptPlan(o) ==
  /\ plan[o].status = "SUGGESTED"
  /\ orderStatus[o] = "OPEN"
  /\ CanReserve(o)
  /\ reserved' = [r \in Rows |-> reserved[r] + Taken(Proposed(o), r)]
  /\ plan' = [plan EXCEPT ![o].status = IF plan[o].manual THEN "OVERRIDDEN" ELSE "ACCEPTED"]
  /\ shipments' = [shipments EXCEPT ![o] = @ (+)
        SetToBag({NewShipment(w, [l \in LinesOf(o) |-> alloc[l][w]]) : w \in Used(Proposed(o))})]
  /\ fulfillment' = [fulfillment EXCEPT ![o] =
                       IF OpenBackorders(o) THEN "BACKORDERED" ELSE "RESERVED"]
  /\ UNCHANGED <<onHand, active, stale, alloc, backorder, suggestion, refused,
                 sent, shipped, invoiced, orderStatus, handlers>>

(* The stock of the proposal is gone: the transaction ends, and with it the *)
(* lock of the order.                                                       *)
AcceptRefused(o) ==
  /\ plan[o].status = "SUGGESTED"
  /\ orderStatus[o] = "OPEN"
  /\ ~CanReserve(o)
  /\ refused' = [refused EXCEPT ![o] = TRUE]
  /\ UNCHANGED <<stock, plan, alloc, backorder, suggestion, deliveries,
                 fulfillment, orderStatus, handlers>>

(* ... and a second transaction recomputes the proposal, unless another     *)
(* decision made that impossible.                                           *)
RefreshPlan(o) ==
  /\ refused[o]
  /\ Recompute(o)
  /\ refused' = [refused EXCEPT ![o] = FALSE]

RefreshConflict(o) ==
  /\ refused[o]
  /\ ~Recomputable(o)
  /\ refused' = [refused EXCEPT ![o] = FALSE]
  /\ UNCHANGED <<stock, plan, alloc, backorder, suggestion, deliveries,
                 fulfillment, orderStatus, handlers>>

-------------------------------------------------------------------------------
(* Dispatch *)

Items(s, l) == IF l \in DOMAIN s.items THEN s.items[l] ELSE 0

(* The reserved allocations of the shipment's warehouse cover each item. *)
Covered(s) == \A l \in DOMAIN s.items : s.items[l] <= alloc[l][s.warehouse]

(* What a dispatch of s takes from each stock row. *)
Leaving(s, r) ==
  SumFunction([l \in DOMAIN s.items |-> IF RowOf(s.warehouse, l) = r THEN s.items[l] ELSE 0])

(* issueShipmentInvoice bills the items, refusing more than has left. *)
IssueShipmentInvoice(s) ==
  /\ \A l \in DOMAIN s.items : invoiced[l] + s.items[l] <= shipped'[l]
  /\ invoiced' = [l \in Lines |-> invoiced[l] + Items(s, l)]

(* The goods of shipment s leave, whatever they have on hand: shipOut looks *)
(* at the reservations only.                                                *)
Leave(o, s) ==
  /\ active[s.warehouse]
  /\ Covered(s)
  /\ \A r \in Rows : Leaving(s, r) <= reserved[r]
  /\ onHand' = [r \in Rows |-> onHand[r] - Leaving(s, r)]
  /\ reserved' = [r \in Rows |-> reserved[r] - Leaving(s, r)]
  /\ alloc' = [l \in Lines |-> [alloc[l] EXCEPT ![s.warehouse] = @ - Items(s, l)]]
  /\ shipped' = [l \in Lines |-> shipped[l] + Items(s, l)]
  /\ fulfillment' = [fulfillment EXCEPT ![o] =
        IF \A l \in LinesOf(o) : shipped'[l] = Qty[l] THEN "FULFILLED"
        ELSE IF OpenBackorders(o) THEN "BACKORDERED" ELSE "PARTIALLY_FULFILLED"]
  /\ UNCHANGED <<active, stale, plan, backorder, suggestion, refused, orderStatus, handlers>>

MarkShipped(o, s) ==
  /\ BagIn(s, shipments[o])
  /\ Leave(o, s)
  /\ IssueShipmentInvoice(s)
  /\ shipments' = [shipments EXCEPT ![o] = @ (-) SetToBag({s})]
  /\ sent' = [sent EXCEPT ![o] = @ (+) SetToBag({s})]

(* Mutant of MarkShippedAgain: the status is not looked at, and the goods   *)
(* leave again if the order has others reserved there.                      *)
LeaveAgain(o, s) ==
  /\ BagIn(s, sent[o])
  /\ Leave(o, s)
  /\ UNCHANGED <<shipments, sent, invoiced>>

(* Called again for a shipment that is SHIPPED, it finds its invoice by the *)
(* shipment's key, and that is all.                                         *)
MarkShippedAgain(o, s) ==
  /\ BagIn(s, sent[o])
  /\ UNCHANGED vars

(* The last payment closes an order whose lines are all delivered           *)
(* (completeOrderIfDone); the payment itself is Settlement's.               *)
CompleteOrder(o) ==
  /\ orderStatus[o] = "OPEN"
  /\ \A l \in LinesOf(o) : shipped[l] = Qty[l]
  /\ orderStatus' = [orderStatus EXCEPT ![o] = "COMPLETED"]
  /\ UNCHANGED <<stock, decisions, deliveries, fulfillment, handlers>>

-------------------------------------------------------------------------------
(* Backorders *)

(* Reserve n units in warehouse w for line l, on a shipment of their own.   *)
ReserveForLine(l, w, n) ==
  LET o == OrderOf[l]
      r == RowOf(w, l)
  IN /\ orderStatus[o] = "OPEN"
     /\ Decided(o)
     /\ active[w]
     /\ reserved[r] + n <= onHand[r]
     /\ alloc' = [alloc EXCEPT ![l][w] = @ + n]
     /\ reserved' = [reserved EXCEPT ![r] = @ + n]
     /\ shipments' = [shipments EXCEPT ![o] =
        @ (+) SetToBag({NewShipment(w, [k \in LinesOf(o) |-> IF k = l THEN n ELSE 0])})]
     /\ fulfillment' = [fulfillment EXCEPT ![o] = StatusWhenReserved(o)]
     /\ UNCHANGED <<onHand, active, stale, plan, refused, sent, shipped, invoiced,
                    orderStatus, handlers>>

(* Mutants of ConsolidateBackorder: the suggestion it answers, or the       *)
(* backorder it fills, is left as it was, or a quantity is taken that the   *)
(* backorder does not have any more.                                        *)
ConsolidateKeepingSuggestion(l, w) ==
  /\ \E n \in 1..backorder[l] :
       /\ backorder' = [backorder EXCEPT ![l] = @ - n]
       /\ ReserveForLine(l, w, n)
  /\ UNCHANGED suggestion

ConsolidateKeepingBackorder(l, w) ==
  /\ UNCHANGED backorder
  /\ \E n \in 1..backorder[l] : ReserveForLine(l, w, n)
  /\ suggestion' = [suggestion EXCEPT ![l] = NoSuggestion]

ConsolidateAnyQuantity(l, w) ==
  /\ backorder[l] > 0
  /\ \E n \in 1..Qty[l] :
       /\ backorder' = [backorder EXCEPT ![l] = @ - n]
       /\ ReserveForLine(l, w, n)
  /\ suggestion' = [suggestion EXCEPT ![l] = NoSuggestion]

(* Operations reserves part or all of a backorder, as suggested or not. *)
ConsolidateBackorder(l, w) ==
  /\ \E n \in 1..backorder[l] :
       /\ backorder' = [backorder EXCEPT ![l] = @ - n]
       /\ ReserveForLine(l, w, n)
  /\ suggestion' = [suggestion EXCEPT ![l] = NoSuggestion]

DeclineConsolidation(l) ==
  /\ suggestion[l] # NoSuggestion
  /\ suggestion' = [suggestion EXCEPT ![l] = NoSuggestion]
  /\ UNCHANGED <<stock, plan, alloc, backorder, refused, deliveries,
                 fulfillment, orderStatus, handlers>>

-------------------------------------------------------------------------------
(* The warehouse under it *)

ReceiveStock(r) ==
  /\ onHand[r] < MaxOnHand[r]
  /\ onHand' = [onHand EXCEPT ![r] = @ + 1]
  /\ events' = events \cup {r}
  /\ UNCHANGED <<reserved, active, stale, decisions, deliveries, fulfillment, orderStatus,
                 scan, correction>>

(* A correction reads its row without a lock and checks what it would       *)
(* leave,                                                                   *)
ReadStock(c, r) ==
  /\ correction[c] = NoRead
  /\ \E d \in Deltas :
       /\ onHand[r] + d >= 0
       /\ onHand[r] + d >= reserved[r]
       /\ onHand[r] + d <= MaxOnHand[r]
       /\ correction' = [correction EXCEPT ![c] =
             [row |-> r, onHand |-> onHand[r], reserved |-> reserved[r], next |-> onHand[r] + d]]
  /\ UNCHANGED <<stock, decisions, deliveries, fulfillment, orderStatus, events, scan>>

(* The row is still as correction c read it. *)
RowAsRead(c) ==
  LET r == correction[c].row IN
  onHand[r] = correction[c].onHand /\ reserved[r] = correction[c].reserved

(* and writes that, whatever has become of the row since.                   *)
AdjustStock(c) ==
  /\ correction[c] # NoRead
  /\ onHand' = [onHand EXCEPT ![correction[c].row] = correction[c].next]
  /\ stale' = IF RowAsRead(c) THEN stale \ {correction[c].row} ELSE stale \cup {correction[c].row}
  /\ correction' = [correction EXCEPT ![c] = NoRead]
  /\ UNCHANGED <<reserved, active, decisions, deliveries, fulfillment, orderStatus, events, scan>>

(* Mutant of SetWarehouseActive: reservations are not looked at. *)
SetWarehouseActiveFreely(w) ==
  /\ active' = [active EXCEPT ![w] = ~@]
  /\ UNCHANGED <<onHand, reserved, stale, decisions, deliveries, fulfillment, orderStatus,
                 handlers>>

SetWarehouseActive(w) ==
  /\ active[w] => \A r \in Rows : r[1] = w => reserved[r] = 0
  /\ active' = [active EXCEPT ![w] = ~@]
  /\ UNCHANGED <<onHand, reserved, stale, decisions, deliveries, fulfillment, orderStatus,
                 handlers>>

-------------------------------------------------------------------------------
(* onStockReceived *)

Eligible(l, p) ==
  /\ ProductOf[l] = p
  /\ backorder[l] > 0
  /\ orderStatus[OrderOf[l]] = "OPEN"
  /\ Decided(OrderOf[l])

(* The advisory lock of product p serializes the handlers; the backorders   *)
(* are read before their orders are locked.                                 *)
ScanBackorders(r) ==
  LET p == r[2] IN
  /\ r \in events
  /\ scan[p] = NoScan
  /\ scan' = [scan EXCEPT ![p] =
        [reading |-> TRUE,
         found |-> [l \in {k \in Lines : Eligible(k, p)} |-> backorder[l]]]]
  /\ events' = events \ {r}
  /\ UNCHANGED <<stock, decisions, deliveries, fulfillment, orderStatus, correction>>

(* Mutant of Reread: what was read before the locks is trusted. *)
RereadNothing(p) == scan[p].found

(* Under the locks the candidates are read again, by the same conditions.   *)
Reread(p) == [l \in {k \in DOMAIN scan[p].found : Eligible(k, p)} |-> backorder[l]]

(* What one sweep over the backorders b can suggest: each gets what is left *)
(* in one warehouse, and nothing only when nothing is left anywhere.        *)
Sweeps(p, b) ==
  LET options(l) == {NoSuggestion} \cup [warehouse : Warehouses, qty : 1..b[l]]
      given(s, w) == SumFunction([l \in DOMAIN b |->
                       IF s[l] # NoSuggestion /\ s[l].warehouse = w THEN s[l].qty ELSE 0])
      exhausted(s, w) == given(s, w) = Free(<<w, p>>)
  IN {s \in [DOMAIN b -> UNION {options(l) : l \in DOMAIN b}] :
        /\ \A l \in DOMAIN b : s[l] \in options(l)
        /\ \A w \in Warehouses : given(s, w) <= Free(<<w, p>>)
        /\ \A l \in DOMAIN b :
             IF s[l] = NoSuggestion THEN \A w \in Warehouses : exhausted(s, w)
             ELSE s[l].qty < b[l] => exhausted(s, s[l].warehouse)}

ProposeConsolidations(p) ==
  /\ scan[p] # NoScan
  /\ LET b == Reread(p) IN
       \E s \in Sweeps(p, b) :
         /\ backorder' = [l \in Lines |-> IF l \in DOMAIN b THEN b[l] ELSE backorder[l]]
         /\ suggestion' = [l \in Lines |-> IF l \in DOMAIN b THEN s[l] ELSE suggestion[l]]
  /\ scan' = [scan EXCEPT ![p] = NoScan]
  /\ UNCHANGED <<stock, plan, alloc, refused, deliveries, fulfillment, orderStatus,
                 events, correction>>

(* The handler throws or the process stops: nothing retries the event.      *)
LoseScan(p) ==
  /\ scan[p] # NoScan
  /\ scan' = [scan EXCEPT ![p] = NoScan]
  /\ UNCHANGED <<stock, decisions, deliveries, fulfillment, orderStatus, events, correction>>

-------------------------------------------------------------------------------
Next == \/ \E o \in Orders : \/ ProposePlan(o) \/ RecomputePlan(o) \/ OverridePlan(o)
                             \/ AcceptPlan(o) \/ AcceptRefused(o)
                             \/ RefreshPlan(o) \/ RefreshConflict(o)
                             \/ CompleteOrder(o)
                             \/ \E s \in BagToSet(shipments[o]) : MarkShipped(o, s)
                             \/ \E s \in BagToSet(sent[o]) : MarkShippedAgain(o, s)
        \/ \E l \in Lines : \/ DeclineConsolidation(l)
                            \/ \E w \in Warehouses : ConsolidateBackorder(l, w)
        \/ \E r \in Rows : ReceiveStock(r) \/ ScanBackorders(r)
        \/ \E c \in Corrections : AdjustStock(c) \/ \E r \in Rows : ReadStock(c, r)
        \/ \E w \in Warehouses : SetWarehouseActive(w)
        \/ \E p \in Products : ProposeConsolidations(p) \/ LoseScan(p)

Spec == Init /\ [][Next]_vars

-------------------------------------------------------------------------------
(* Properties *)

TypeOK ==
  /\ onHand \in [Rows -> Int]
  /\ reserved \in [Rows -> Nat]
  /\ stale \subseteq Rows
  /\ active \in [Warehouses -> BOOLEAN]
  /\ plan \in [Orders -> [status : {"NONE", "SUGGESTED", "ACCEPTED", "OVERRIDDEN"},
                          manual : BOOLEAN]]
  /\ alloc \in [Lines -> [Warehouses -> Nat]]
  /\ backorder \in [Lines -> Nat]
  /\ suggestion \in [Lines -> [warehouse : Warehouses, qty : Nat] \cup {NoSuggestion}]
  /\ shipped \in [Lines -> Nat]
  /\ invoiced \in [Lines -> Nat]
  /\ fulfillment \in [Orders -> {"UNALLOCATED", "RESERVED", "BACKORDERED",
                                 "PARTIALLY_FULFILLED", "FULFILLED"}]
  /\ orderStatus \in [Orders -> {"OPEN", "COMPLETED"}]
  /\ refused \in [Orders -> BOOLEAN]
  /\ events \subseteq Rows
  /\ correction \in [Corrections ->
        [row : Rows, onHand : Int, reserved : Nat, next : Nat] \cup {NoRead}]

(* Every unit of a line is accounted for exactly once: dispatched, allocated *)
(* or on backorder (checkLineInvariant; PRD "ordered_quantity = ...").       *)
LineConservation ==
  \A l \in Lines : plan[OrderOf[l]].status # "NONE" =>
                     Qty[l] = shipped[l] + Units(alloc, l) + backorder[l]

Held(w, p) ==
  SumFunction([l \in Lines |-> IF ProductOf[l] = p /\ Decided(OrderOf[l]) THEN alloc[l][w] ELSE 0])

(* What a stock row has reserved is what decided plans hold in it, so that   *)
(* no reservation outlives its order and no two orders share one             *)
(* (acceptPlan, consolidateBackorder, markShipped and move together).        *)
StockMatchesPlans == \A w \in Warehouses, p \in Products : reserved[<<w, p>>] = Held(w, p)

Planned(o, l, w) ==
  SumFunction([s \in DOMAIN shipments[o] |->
     IF s.warehouse = w THEN shipments[o][s] * s.items[l] ELSE 0])

(* The shipments still to leave a warehouse are exactly the reservations in  *)
(* it, and it is active: markShipped never has to refuse one.                *)
PlannedShipmentsCovered ==
  \A o \in Orders, w \in Warehouses :
    \A l \in LinesOf(o) :
      /\ Planned(o, l, w) = IF Decided(o) THEN alloc[l][w] ELSE 0
      /\ Planned(o, l, w) > 0 => active[w]

(* The fulfilment status customers and operations see is the state of the    *)
(* lines: every path that reserves or dispatches recomputes it.  (The plan   *)
(* of an order with nothing physical can be accepted too: it is RESERVED.)   *)
StatusTellsTheTruth ==
  \A o \in Orders : Decided(o) /\ LinesOf(o) # {} =>
    /\ fulfillment[o] = "BACKORDERED" <=> OpenBackorders(o)
    /\ fulfillment[o] = "FULFILLED" <=> \A l \in LinesOf(o) : shipped[l] = Qty[l]

(* A consolidation is suggested only for units still owed under a decided    *)
(* plan, however receipts, consolidations and decisions interleave.          *)
SuggestionsAreOwed ==
  \A l \in Lines : suggestion[l] # NoSuggestion =>
    /\ Decided(OrderOf[l])
    /\ orderStatus[OrderOf[l]] = "OPEN"
    /\ suggestion[l].qty \in 1..backorder[l]

Sent(l) ==
  LET o == OrderOf[l] IN SumFunction([s \in DOMAIN sent[o] |-> sent[o][s] * s.items[l]])

(* However often a dispatch is called, the goods of a shipment leave once    *)
(* and are billed once: what a line has dispatched and what it was billed    *)
(* are the units of the shipments that are SHIPPED.                          *)
DispatchedOnce == \A l \in Lines : shipped[l] = Sent(l) /\ invoiced[l] = Sent(l)

(* The stock rows behave as the ledger promises: a row is taken beyond what  *)
(* it has only after a correction that was computed from an outdated read.   *)
Ledger == INSTANCE StockLedger
ImplementsLedger == Ledger!Spec

(* The units of each line only move forward. *)
Flow == INSTANCE LineFlow WITH
          short <- [l \in Lines |-> IF Decided(OrderOf[l]) THEN backorder[l] ELSE Qty[l]],
          held <- [l \in Lines |-> IF Decided(OrderOf[l]) THEN Units(alloc, l) ELSE 0],
          gone <- shipped
ImplementsLineFlow == Flow!Spec
===============================================================================
