-------------------------- MODULE Fulfillment_proofs --------------------------
(***************************************************************************)
(* Fulfilment keeps its books for any orders, lines, warehouses, products, *)
(* quantities and stock: every unit is accounted for, what the stock rows  *)
(* have reserved is what the plans hold, the planned shipments are what is *)
(* reserved, and the statuses say so.  The steps implement StockLedger and *)
(* LineFlow.                                                               *)
(***************************************************************************)
EXTENDS Fulfillment, Sums_proofs

DecidedStatuses == {"ACCEPTED", "OVERRIDDEN"}
DecidedLines == {l \in Lines : plan[OrderOf[l]].status \in DecidedStatuses}

Allocations == [Lines -> [Warehouses -> Nat]]
ShipmentsFor(o) == [warehouse : Warehouses, items : [LinesOf(o) -> Nat]]
IsShipmentBag(B, o) ==
  /\ B \in [DOMAIN B -> Nat \ {0}]
  /\ IsFiniteSet(DOMAIN B)
  /\ DOMAIN B \subseteq ShipmentsFor(o)

(* What the lines D hold in a stock row under the allocations al, what the *)
(* shipments of bag B will take of line l from warehouse w, and the        *)
(* shipments an acceptance makes.                                          *)
HeldIn(D, al, w, p) ==
  SumFunction([l \in Lines |-> IF ProductOf[l] = p /\ l \in D THEN al[l][w] ELSE 0])
UnitsIn(B, l, w) ==
  SumFunction([s \in DOMAIN B |-> IF s.warehouse = w THEN B[s] * s.items[l] ELSE 0])
PlanShipments(al, a, o) == {NewShipment(w, [l \in LinesOf(o) |-> al[l][w]]) : w \in Used(a)}
ItemsFrom(s, l, w) == IF s.warehouse = w THEN s.items[l] ELSE 0
SentUnits(B, l) == SumFunction([s \in DOMAIN B |-> B[s] * s.items[l]])

-----------------------------------------------------------------------------
(* The lines of an order are finitely many lines. *)
LEMMA LinesOfOrder ==
  ASSUME NEW o
  PROVE  /\ IsFiniteSet(LinesOf(o)) /\ LinesOf(o) \subseteq Lines
         /\ \A l \in Lines : l \in LinesOf(o) <=> OrderOf[l] = o
<1>1. LinesOf(o) \subseteq Lines
  BY DEF LinesOf
<1>2. IsFiniteSet(LinesOf(o))
  BY <1>1, FulfillmentAssumption, FS_Subset
<1> QED BY <1>1, <1>2 DEF LinesOf

(* A line with the largest quantity exists, so that MaxQty is a number. *)
LEMMA MaxQtyIsANumber == ASSUME Lines # {} PROVE MaxQty \in Nat
<1> DEFINE good == {s \in SUBSET Lines : s # {} => \E k \in s : \A l \in s : Qty[l] <= Qty[k]}
<1>1. \A l \in Lines : Qty[l] \in Nat
  BY FulfillmentAssumption
<1>2. {} \in good
  OBVIOUS
<1>3. ASSUME NEW s \in SUBSET Lines, s # {}, \A x \in s : s \ {x} \in good PROVE s \in good
  <2>1. PICK x \in s : TRUE
    BY <1>3
  <2>2. CASE s \ {x} = {}
    BY <1>1, <2>1, <2>2
  <2>3. CASE s \ {x} # {}
    <3>1. PICK k \in s \ {x} : \A l \in s \ {x} : Qty[l] <= Qty[k]
      BY <1>3, <2>1, <2>3
    <3>2. CASE Qty[x] <= Qty[k]
      BY <3>1, <3>2
    <3>3. CASE Qty[k] <= Qty[x]
      <4>1. \A l \in s : Qty[l] <= Qty[x]
        BY <1>1, <3>1, <3>3
      <4> QED BY <4>1
    <3> QED BY <1>1, <3>2, <3>3
  <2> QED BY <2>2, <2>3
<1> HIDE DEF good
<1>4. Lines \in good
  BY <1>2, <1>3, FulfillmentAssumption, InductionOnSet
<1>5. PICK k \in Lines : \A l \in Lines : Qty[l] <= Qty[k]
  BY <1>4 DEF good
<1>6. \E n \in Range(Qty) : \A l \in Lines : Qty[l] <= n
  BY <1>5, FulfillmentAssumption DEF Range
<1>7. Range(Qty) \subseteq Nat
  BY FulfillmentAssumption DEF Range
<1> QED BY <1>6, <1>7 DEF MaxQty

(* An allocation that is admitted assigns numbers of units, within what    *)
(* each line asks for.                                                     *)
LEMMA SplitsAreAllocations ==
  ASSUME NEW o, NEW a \in Splits(o)
  PROVE  a \in [LinesOf(o) -> [Warehouses -> Nat]] /\ \A l \in LinesOf(o) : Units(a, l) <= Qty[l]
<1>1. a \in [LinesOf(o) -> [Warehouses -> 0..MaxQty]] /\ \A l \in LinesOf(o) : Units(a, l) <= Qty[l]
  BY DEF Splits
<1>2. CASE LinesOf(o) = {}
  BY <1>1, <1>2
<1>3. CASE LinesOf(o) # {}
  <2>1. MaxQty \in Nat
    BY <1>3, LinesOfOrder, MaxQtyIsANumber
  <2> QED BY <1>1, <2>1
<1> QED BY <1>2, <1>3

-----------------------------------------------------------------------------
(* Units of a line *)

(* They are a number, no less than those in any one warehouse. *)
LEMMA UnitsAreNumbers ==
  ASSUME NEW a, NEW l, a[l] \in [Warehouses -> Nat]
  PROVE  Units(a, l) \in Nat /\ \A w \in Warehouses : a[l][w] <= Units(a, l)
<1>1. Units(a, l) = SumFunctionOnSet(a[l], Warehouses) /\ IsFiniteSet(Warehouses)
  BY FulfillmentAssumption DEF Units, SumFunction
<1>2. \A w \in Warehouses : a[l][w] \in Nat
  OBVIOUS
<1>3. SumFunctionOnSet(a[l], Warehouses) \in Nat
  BY <1>1, <1>2, SumNat
<1>4. \A w \in Warehouses : a[l][w] <= SumFunctionOnSet(a[l], Warehouses)
  BY <1>1, <1>2, SumTerm
<1> QED BY <1>1, <1>3, <1>4

(* Nothing anywhere is nothing in all. *)
LEMMA NoUnits ==
  ASSUME NEW a, NEW l, DOMAIN a[l] = Warehouses, \A w \in Warehouses : a[l][w] = 0
  PROVE  Units(a, l) = 0
<1>1. Units(a, l) = SumFunctionOnSet(a[l], Warehouses) /\ IsFiniteSet(Warehouses)
  BY FulfillmentAssumption DEF Units, SumFunction
<1>2. SumFunctionOnSet(a[l], Warehouses) = SumFunctionOnSet(a[l], {})
  BY <1>1, SumPart
<1> QED BY <1>1, <1>2, SumEmpty

(* Units that move in or out of one warehouse move the total by as much. *)
LEMMA UnitsMove ==
  ASSUME NEW f \in [Warehouses -> Nat], NEW g \in [Warehouses -> Nat], NEW w \in Warehouses,
         \A v \in Warehouses : v # w => g[v] = f[v]
  PROVE  SumFunction(g) = SumFunction(f) + g[w] - f[w]
<1>1. SumFunction(f) = SumFunctionOnSet(f, Warehouses) /\ SumFunction(g) = SumFunctionOnSet(g, Warehouses)
  BY DEF SumFunction
<1>2. \A v \in Warehouses : f[v] \in Int /\ g[v] \in Int
  OBVIOUS
<1>3. \A v \in Warehouses \ {w} : g[v] = f[v]
  OBVIOUS
<1> QED BY <1>1, <1>2, <1>3, FulfillmentAssumption, SumChanged

-----------------------------------------------------------------------------
(* What the lines of decided plans hold *)

(* It depends on the allocations of those lines only. *)
LEMMA HeldSame ==
  ASSUME NEW D, NEW al, NEW bl, NEW w, NEW p, \A l \in D : bl[l][w] = al[l][w]
  PROVE  HeldIn(D, bl, w, p) = HeldIn(D, al, w, p)
<1> DEFINE f == [l \in Lines |-> IF ProductOf[l] = p /\ l \in D THEN al[l][w] ELSE 0]
           g == [l \in Lines |-> IF ProductOf[l] = p /\ l \in D THEN bl[l][w] ELSE 0]
<1>1. HeldIn(D, al, w, p) = SumFunctionOnSet(f, Lines) /\ HeldIn(D, bl, w, p) = SumFunctionOnSet(g, Lines)
  BY DEF HeldIn, SumFunction
<1>2. \A l \in Lines : g[l] = f[l]
  OBVIOUS
<1> HIDE DEF f, g
<1> QED BY <1>1, <1>2, FulfillmentAssumption, SumSame

(* A line holds no more than all of them. *)
LEMMA HeldByLine ==
  ASSUME NEW D, NEW al \in Allocations, NEW w \in Warehouses, NEW l \in Lines, l \in D
  PROVE  al[l][w] <= HeldIn(D, al, w, ProductOf[l])
<1> DEFINE f == [k \in Lines |-> IF ProductOf[k] = ProductOf[l] /\ k \in D THEN al[k][w] ELSE 0]
<1>1. HeldIn(D, al, w, ProductOf[l]) = SumFunctionOnSet(f, Lines)
  BY DEF HeldIn, SumFunction
<1>2. \A k \in Lines : f[k] \in Nat
  BY DEF Allocations
<1>3. f[l] = al[l][w]
  OBVIOUS
<1> HIDE DEF f
<1>4. f[l] <= SumFunctionOnSet(f, Lines)
  BY <1>2, FulfillmentAssumption, SumTerm
<1> QED BY <1>1, <1>3, <1>4

(* Deciding an order adds what its proposal takes. *)
LEMMA HeldByOrder ==
  ASSUME NEW D, NEW al \in Allocations, NEW w \in Warehouses, NEW p \in Products, NEW o,
         D \cap LinesOf(o) = {}
  PROVE  HeldIn(D \cup LinesOf(o), al, w, p)
           = HeldIn(D, al, w, p) + Taken([l \in LinesOf(o) |-> al[l]], <<w, p>>)
<1> DEFINE f == [l \in Lines |-> IF ProductOf[l] = p /\ l \in D THEN al[l][w] ELSE 0]
           g == [l \in Lines |-> IF ProductOf[l] = p /\ l \in LinesOf(o) THEN al[l][w] ELSE 0]
           h == [l \in Lines |-> IF ProductOf[l] = p /\ l \in D \cup LinesOf(o) THEN al[l][w] ELSE 0]
           a == [l \in LinesOf(o) |-> al[l]]
           t == [l \in LinesOf(o) |-> IF ProductOf[l] = <<w, p>>[2] THEN a[l][<<w, p>>[1]] ELSE 0]
<1>1. /\ HeldIn(D, al, w, p) = SumFunctionOnSet(f, Lines)
      /\ HeldIn(D \cup LinesOf(o), al, w, p) = SumFunctionOnSet(h, Lines)
  BY DEF HeldIn, SumFunction
<1>2. Taken(a, <<w, p>>) = SumFunctionOnSet(t, LinesOf(o))
  BY DEF Taken, SumFunction
<1>3. \A l \in Lines : f[l] \in Int /\ g[l] \in Int /\ h[l] = f[l] + g[l]
  BY DEF Allocations
<1>4. \A l \in Lines \ LinesOf(o) : g[l] = 0
  OBVIOUS
<1>5. \A l \in LinesOf(o) : g[l] = t[l]
  BY LinesOfOrder
<1> HIDE DEF f, g, h, t
<1>6. SumFunctionOnSet(h, Lines) = SumFunctionOnSet(f, Lines) + SumFunctionOnSet(g, Lines)
  BY <1>3, FulfillmentAssumption, SumPlus
<1>7. SumFunctionOnSet(g, Lines) = SumFunctionOnSet(g, LinesOf(o))
  BY <1>3, <1>4, FulfillmentAssumption, LinesOfOrder, SumPart
<1>8. SumFunctionOnSet(g, LinesOf(o)) = SumFunctionOnSet(t, LinesOf(o))
  BY <1>5, LinesOfOrder, SumSame
<1> QED BY <1>1, <1>2, <1>6, <1>7, <1>8

(* A dispatch takes away what leaves. *)
LEMMA HeldAfterDispatch ==
  ASSUME NEW D, NEW al \in Allocations, NEW bl \in Allocations, NEW w \in Warehouses, NEW p \in Products,
         NEW o, LinesOf(o) \subseteq D, NEW s \in ShipmentsFor(o),
         \A l \in Lines, v \in Warehouses :
           bl[l][v] = IF l \in LinesOf(o) /\ v = s.warehouse THEN al[l][v] - s.items[l] ELSE al[l][v]
  PROVE  HeldIn(D, bl, w, p) = HeldIn(D, al, w, p) - Leaving(s, <<w, p>>) /\ Leaving(s, <<w, p>>) \in Nat
<1> DEFINE f == [l \in Lines |-> IF ProductOf[l] = p /\ l \in D THEN bl[l][w] ELSE 0]
           g == [l \in Lines |-> IF l \in LinesOf(o) /\ RowOf(s.warehouse, l) = <<w, p>> THEN s.items[l] ELSE 0]
           h == [l \in Lines |-> IF ProductOf[l] = p /\ l \in D THEN al[l][w] ELSE 0]
           t == [l \in LinesOf(o) |-> IF RowOf(s.warehouse, l) = <<w, p>> THEN s.items[l] ELSE 0]
<1>0. DOMAIN s.items = LinesOf(o) /\ s.warehouse \in Warehouses /\ \A l \in LinesOf(o) : s.items[l] \in Nat
  BY DEF ShipmentsFor
<1>1. /\ HeldIn(D, al, w, p) = SumFunctionOnSet(h, Lines)
      /\ HeldIn(D, bl, w, p) = SumFunctionOnSet(f, Lines)
  BY DEF HeldIn, SumFunction
<1>2. Leaving(s, <<w, p>>) = SumFunctionOnSet(t, LinesOf(o))
  BY <1>0 DEF Leaving, SumFunction
<1>3. \A l \in Lines : f[l] \in Int /\ g[l] \in Int /\ h[l] = f[l] + g[l]
  BY <1>0 DEF Allocations, RowOf
<1>4. \A l \in Lines \ LinesOf(o) : g[l] = 0
  OBVIOUS
<1>5. \A l \in LinesOf(o) : g[l] = t[l] /\ t[l] \in Nat
  BY <1>0, LinesOfOrder
<1> HIDE DEF f, g, h, t
<1>6. SumFunctionOnSet(h, Lines) = SumFunctionOnSet(f, Lines) + SumFunctionOnSet(g, Lines)
  BY <1>3, FulfillmentAssumption, SumPlus
<1>7. SumFunctionOnSet(g, Lines) = SumFunctionOnSet(g, LinesOf(o))
  BY <1>3, <1>4, FulfillmentAssumption, LinesOfOrder, SumPart
<1>8. SumFunctionOnSet(g, LinesOf(o)) = SumFunctionOnSet(t, LinesOf(o))
  BY <1>5, LinesOfOrder, SumSame
<1>9. SumFunctionOnSet(t, LinesOf(o)) \in Nat
  BY <1>5, LinesOfOrder, SumNat
<1>10. SumFunctionOnSet(f, Lines) \in Int
  BY <1>3, FulfillmentAssumption, SumInt
<1> QED BY <1>1, <1>2, <1>6, <1>7, <1>8, <1>9, <1>10

(* A reservation for a line adds its units, in its row alone. *)
LEMMA HeldAfterReserve ==
  ASSUME NEW D, NEW al \in Allocations, NEW bl \in Allocations, NEW w \in Warehouses, NEW p \in Products,
         NEW l \in Lines, l \in D, NEW v \in Warehouses, NEW n \in Nat,
         \A k \in Lines, u \in Warehouses :
           bl[k][u] = IF k = l /\ u = v THEN al[k][u] + n ELSE al[k][u]
  PROVE  HeldIn(D, bl, w, p) = HeldIn(D, al, w, p) + (IF RowOf(v, l) = <<w, p>> THEN n ELSE 0)
<1> DEFINE f == [k \in Lines |-> IF ProductOf[k] = p /\ k \in D THEN al[k][w] ELSE 0]
           g == [k \in Lines |-> IF ProductOf[k] = p /\ k \in D THEN bl[k][w] ELSE 0]
<1>1. /\ HeldIn(D, al, w, p) = SumFunctionOnSet(f, Lines)
      /\ HeldIn(D, bl, w, p) = SumFunctionOnSet(g, Lines)
  BY DEF HeldIn, SumFunction
<1>2. \A k \in Lines : f[k] \in Int /\ g[k] \in Int
  BY DEF Allocations
<1>3. \A k \in Lines \ {l} : g[k] = f[k]
  OBVIOUS
<1>4. g[l] = f[l] + (IF RowOf(v, l) = <<w, p>> THEN n ELSE 0)
  BY DEF Allocations, RowOf
<1> HIDE DEF f, g
<1>5. SumFunctionOnSet(g, Lines) = SumFunctionOnSet(f, Lines) + g[l] - f[l]
  BY <1>2, <1>3, FulfillmentAssumption, SumChanged
<1>6. SumFunctionOnSet(f, Lines) \in Int
  BY <1>2, FulfillmentAssumption, SumInt
<1> QED BY <1>1, <1>2, <1>4, <1>5, <1>6

-----------------------------------------------------------------------------
(* What planned shipments will take *)

(* Planned is UnitsIn the shipments of the order, before and after a step. *)
LEMMA PlannedUnits ==
  ASSUME NEW o, NEW l, NEW w
  PROVE  Planned(o, l, w) = UnitsIn(shipments[o], l, w) /\ Planned(o, l, w)' = UnitsIn(shipments'[o], l, w)
BY DEF Planned, UnitsIn

(* No shipments take nothing; otherwise they take a number of units. *)
LEMMA NoShipments == ASSUME NEW o, NEW l, NEW w
  PROVE IsShipmentBag(EmptyBag, o) /\ UnitsIn(EmptyBag, l, w) = 0
<1> DEFINE f == [s \in DOMAIN EmptyBag |-> IF s.warehouse = w THEN EmptyBag[s] * s.items[l] ELSE 0]
<1>1. DOMAIN EmptyBag = {}
  BY DEF EmptyBag, SetToBag
<1>2. UnitsIn(EmptyBag, l, w) = SumFunctionOnSet(f, {})
  BY <1>1 DEF UnitsIn, SumFunction
<1>3. IsShipmentBag(EmptyBag, o)
  BY <1>1, FS_EmptySet DEF IsShipmentBag, EmptyBag, SetToBag
<1> QED BY <1>2, <1>3, SumEmpty

(* Nothing that has left is nothing. *)
LEMMA NothingSent == ASSUME NEW l PROVE SentUnits(EmptyBag, l) = 0
<1> DEFINE f == [s \in DOMAIN EmptyBag |-> EmptyBag[s] * s.items[l]]
<1>1. DOMAIN EmptyBag = {}
  BY DEF EmptyBag, SetToBag
<1>2. SentUnits(EmptyBag, l) = SumFunctionOnSet(f, {})
  BY <1>1 DEF SentUnits, SumFunction
<1> QED BY <1>2, SumEmpty

LEMMA ShippedUnits ==
  ASSUME NEW o, NEW s \in ShipmentsFor(o), NEW l \in LinesOf(o), NEW w
  PROVE  s.warehouse \in Warehouses /\ s.items[l] \in Nat /\ ItemsFrom(s, l, w) \in Nat
BY DEF ShipmentsFor, ItemsFrom

LEMMA UnitsInAreNumbers ==
  ASSUME NEW o, NEW B, IsShipmentBag(B, o), NEW l \in LinesOf(o), NEW w
  PROVE  UnitsIn(B, l, w) \in Nat
<1> DEFINE f == [s \in DOMAIN B |-> IF s.warehouse = w THEN B[s] * s.items[l] ELSE 0]
<1>1. UnitsIn(B, l, w) = SumFunctionOnSet(f, DOMAIN B) /\ IsFiniteSet(DOMAIN B)
  BY DEF UnitsIn, SumFunction, IsShipmentBag
<1>2. ASSUME NEW s \in DOMAIN B PROVE f[s] \in Nat
  <2>1. s.items[l] \in Nat /\ B[s] \in Nat
    BY ShippedUnits DEF IsShipmentBag
  <2> QED BY <2>1
<1> HIDE DEF f
<1> QED BY <1>1, <1>2, SumNat

(* One more copy of a shipment takes its items more, *)
LEMMA OneMoreShipment ==
  ASSUME NEW o, NEW B, IsShipmentBag(B, o), NEW s \in ShipmentsFor(o),
         NEW l \in LinesOf(o), NEW w, NEW C, C = B (+) SetToBag({s})
  PROVE  UnitsIn(C, l, w) = UnitsIn(B, l, w) + ItemsFrom(s, l, w)
<1> DEFINE D == DOMAIN B \cup {s}
           f == [x \in D |-> IF x \in DOMAIN B /\ x.warehouse = w THEN B[x] * x.items[l] ELSE 0]
           g == [x \in D |-> IF x.warehouse = w THEN C[x] * x.items[l] ELSE 0]
           h == [x \in DOMAIN B |-> IF x.warehouse = w THEN B[x] * x.items[l] ELSE 0]
<1>1. DOMAIN C = D /\ \A x \in D : C[x] = (IF x \in DOMAIN B THEN B[x] ELSE 0) + (IF x = s THEN 1 ELSE 0)
  BY DEF SetToBag, (+)
<1>2. IsFiniteSet(D) /\ IsFiniteSet(DOMAIN B) /\ s \in D
  BY FS_AddElement DEF IsShipmentBag
<1>3. \A x \in D : x.items[l] \in Nat /\ (x \in DOMAIN B => B[x] \in Nat)
  BY ShippedUnits DEF IsShipmentBag
<1>4. UnitsIn(C, l, w) = SumFunctionOnSet(g, D) /\ UnitsIn(B, l, w) = SumFunctionOnSet(h, DOMAIN B)
  BY <1>1 DEF UnitsIn, SumFunction
<1>5. ASSUME NEW x \in D PROVE f[x] \in Int /\ g[x] \in Int
  <2>1. C[x] \in Nat /\ x.items[l] \in Nat /\ (x \in DOMAIN B => B[x] \in Nat)
    BY <1>1, <1>3
  <2>2. C[x] * x.items[l] \in Nat /\ (x \in DOMAIN B => B[x] * x.items[l] \in Nat)
    BY <2>1
  <2> QED BY <2>2
<1>6. ASSUME NEW x \in D \ {s} PROVE g[x] = f[x]
  <2>1. x \in DOMAIN B /\ x # s /\ B[x] \in Nat
    BY <1>3
  <2>2. C[x] = (IF x \in DOMAIN B THEN B[x] ELSE 0) + (IF x = s THEN 1 ELSE 0)
    BY <1>1
  <2>3. C[x] = B[x]
    BY <2>1, <2>2
  <2> QED BY <2>1, <2>3
<1>7. g[s] = f[s] + ItemsFrom(s, l, w)
  <2>1. CASE s \in DOMAIN B
    <3>1. C[s] = B[s] + 1 /\ B[s] \in Nat /\ s.items[l] \in Nat
      BY <1>1, <1>3, <2>1
    <3>2. C[s] * s.items[l] = B[s] * s.items[l] + s.items[l]
      BY <3>1
    <3> QED BY <2>1, <3>2 DEF ItemsFrom
  <2>2. CASE s \notin DOMAIN B
    <3>1. C[s] = 1 /\ s.items[l] \in Nat
      <4>1. C[s] = (IF s \in DOMAIN B THEN B[s] ELSE 0) + (IF s = s THEN 1 ELSE 0)
        BY <1>1, <1>2
      <4> QED BY <1>2, <1>3, <2>2, <4>1
    <3>2. C[s] * s.items[l] = s.items[l]
      BY <3>1
    <3> QED BY <2>2, <3>1, <3>2 DEF ItemsFrom
  <2> QED BY <2>1, <2>2
<1>8. \A x \in D \ DOMAIN B : f[x] = 0
  OBVIOUS
<1>9. \A x \in DOMAIN B : f[x] = h[x]
  OBVIOUS
<1>10. DOMAIN B \in SUBSET D
  OBVIOUS
<1> HIDE DEF D, f, g, h
<1>11. SumFunctionOnSet(g, D) = SumFunctionOnSet(f, D) + g[s] - f[s]
  BY <1>2, <1>5, <1>6, SumChanged
<1>12. SumFunctionOnSet(f, D) = SumFunctionOnSet(f, DOMAIN B)
  BY <1>2, <1>5, <1>8, <1>10, SumPart
<1>13. SumFunctionOnSet(f, DOMAIN B) = SumFunctionOnSet(h, DOMAIN B)
  BY <1>2, <1>9, SumSame
<1>14. SumFunctionOnSet(f, D) \in Int /\ f[s] \in Int /\ ItemsFrom(s, l, w) \in Nat
  BY <1>2, <1>5, SumInt, ShippedUnits
<1> QED BY <1>4, <1>7, <1>11, <1>12, <1>13, <1>14

(* and is still a shipment of the order. *)
LEMMA ShipmentAdded ==
  ASSUME NEW o, NEW B, IsShipmentBag(B, o), NEW s \in ShipmentsFor(o), NEW C, C = B (+) SetToBag({s})
  PROVE  IsShipmentBag(C, o)
<1>1. C = [x \in DOMAIN B \cup {s} |-> (IF x \in DOMAIN B THEN B[x] ELSE 0) + (IF x = s THEN 1 ELSE 0)]
  BY DEF SetToBag, (+)
<1>2. IsFiniteSet(DOMAIN B \cup {s}) /\ DOMAIN B \cup {s} \subseteq ShipmentsFor(o)
  BY FS_AddElement DEF IsShipmentBag
<1>3. \A x \in DOMAIN B : B[x] \in Nat \ {0}
  BY DEF IsShipmentBag
<1>4. \A x \in DOMAIN B \cup {s} :
        (IF x \in DOMAIN B THEN B[x] ELSE 0) + (IF x = s THEN 1 ELSE 0) \in Nat \ {0}
  BY <1>3
<1>5. DOMAIN C = DOMAIN B \cup {s} /\ C \in [DOMAIN C -> Nat \ {0}]
  BY <1>1, <1>4
<1> QED BY <1>2, <1>5 DEF IsShipmentBag

(* One more shipment that has left is its items more that have. *)
LEMMA OneMoreSent ==
  ASSUME NEW o, NEW B, IsShipmentBag(B, o), NEW s \in ShipmentsFor(o),
         NEW l \in LinesOf(o), NEW C, C = B (+) SetToBag({s})
  PROVE  SentUnits(C, l) = SentUnits(B, l) + s.items[l]
<1> DEFINE D == DOMAIN B \cup {s}
           f == [x \in D |-> IF x \in DOMAIN B THEN B[x] * x.items[l] ELSE 0]
           g == [x \in D |-> C[x] * x.items[l]]
           h == [x \in DOMAIN B |-> B[x] * x.items[l]]
<1>1. DOMAIN C = D /\ \A x \in D : C[x] = (IF x \in DOMAIN B THEN B[x] ELSE 0) + (IF x = s THEN 1 ELSE 0)
  BY DEF SetToBag, (+)
<1>2. IsFiniteSet(D) /\ IsFiniteSet(DOMAIN B) /\ s \in D
  BY FS_AddElement DEF IsShipmentBag
<1>3. \A x \in D : x.items[l] \in Nat /\ (x \in DOMAIN B => B[x] \in Nat)
  BY ShippedUnits DEF IsShipmentBag
<1>4. SentUnits(C, l) = SumFunctionOnSet(g, D) /\ SentUnits(B, l) = SumFunctionOnSet(h, DOMAIN B)
  BY <1>1 DEF SentUnits, SumFunction
<1>5. ASSUME NEW x \in D PROVE f[x] \in Int /\ g[x] \in Int
  <2>1. C[x] \in Nat /\ x.items[l] \in Nat /\ (x \in DOMAIN B => B[x] \in Nat)
    BY <1>1, <1>3
  <2>2. C[x] * x.items[l] \in Nat /\ (x \in DOMAIN B => B[x] * x.items[l] \in Nat)
    BY <2>1
  <2> QED BY <2>2
<1>6. ASSUME NEW x \in D \ {s} PROVE g[x] = f[x]
  <2>1. x \in DOMAIN B /\ x # s /\ B[x] \in Nat
    BY <1>3
  <2>2. C[x] = (IF x \in DOMAIN B THEN B[x] ELSE 0) + (IF x = s THEN 1 ELSE 0)
    BY <1>1
  <2>3. C[x] = B[x]
    BY <2>1, <2>2
  <2> QED BY <2>1, <2>3
<1>7. g[s] = f[s] + s.items[l]
  <2>1. CASE s \in DOMAIN B
    <3>1. C[s] = B[s] + 1 /\ B[s] \in Nat /\ s.items[l] \in Nat
      BY <1>1, <1>3, <2>1
    <3>2. C[s] * s.items[l] = B[s] * s.items[l] + s.items[l]
      BY <3>1
    <3> QED BY <2>1, <3>2
  <2>2. CASE s \notin DOMAIN B
    <3>1. C[s] = 1 /\ s.items[l] \in Nat
      <4>1. C[s] = (IF s \in DOMAIN B THEN B[s] ELSE 0) + (IF s = s THEN 1 ELSE 0)
        BY <1>1, <1>2
      <4> QED BY <1>2, <1>3, <2>2, <4>1
    <3>2. C[s] * s.items[l] = s.items[l]
      BY <3>1
    <3> QED BY <2>2, <3>1, <3>2
  <2> QED BY <2>1, <2>2
<1>8. \A x \in D \ DOMAIN B : f[x] = 0
  OBVIOUS
<1>9. \A x \in DOMAIN B : f[x] = h[x]
  OBVIOUS
<1>10. DOMAIN B \in SUBSET D
  OBVIOUS
<1> HIDE DEF D, f, g, h
<1>11. SumFunctionOnSet(g, D) = SumFunctionOnSet(f, D) + g[s] - f[s]
  BY <1>2, <1>5, <1>6, SumChanged
<1>12. SumFunctionOnSet(f, D) = SumFunctionOnSet(f, DOMAIN B)
  BY <1>2, <1>5, <1>8, <1>10, SumPart
<1>13. SumFunctionOnSet(f, DOMAIN B) = SumFunctionOnSet(h, DOMAIN B)
  BY <1>2, <1>9, SumSame
<1>14. SumFunctionOnSet(f, D) \in Int /\ f[s] \in Int /\ s.items[l] \in Nat
  BY <1>2, <1>5, SumInt, ShippedUnits
<1> QED BY <1>4, <1>7, <1>11, <1>12, <1>13, <1>14

(* One copy less takes its items less. *)
LEMMA OneShipmentLess ==
  ASSUME NEW o, NEW B, IsShipmentBag(B, o), NEW s \in DOMAIN B, NEW C, C = B (-) SetToBag({s})
  PROVE  /\ IsShipmentBag(C, o)
         /\ \A l \in LinesOf(o) : \A w : UnitsIn(C, l, w) = UnitsIn(B, l, w) - ItemsFrom(s, l, w)
<1> DEFINE E == IF B[s] = 1 THEN DOMAIN B \ {s} ELSE DOMAIN B
<1>1. \A x \in DOMAIN B : B[x] \in Nat \ {0}
  BY DEF IsShipmentBag
<1>2. C = [x \in E |-> IF x = s THEN B[x] - 1 ELSE B[x]]
  <2> DEFINE b == [x \in DOMAIN B |-> IF x = s THEN B[x] - 1 ELSE B[x]]
  <2>1. C = [x \in {d \in DOMAIN b : b[d] > 0} |-> b[x]]
    BY DEF SetToBag, (-)
  <2>2. {d \in DOMAIN b : b[d] > 0} = E
    BY <1>1
  <2>3. C = [x \in E |-> b[x]]
    BY <2>1, <2>2
  <2>4. \A x \in E : b[x] = IF x = s THEN B[x] - 1 ELSE B[x]
    OBVIOUS
  <2> HIDE DEF b
  <2> QED BY <2>3, <2>4
<1>3. DOMAIN C = E /\ E \subseteq DOMAIN B /\ IsFiniteSet(E) /\ IsFiniteSet(DOMAIN B)
  BY <1>2, FS_Subset DEF IsShipmentBag
<1>4. \A x \in E : C[x] \in Nat \ {0} /\ C[x] = IF x = s THEN B[x] - 1 ELSE B[x]
  BY <1>1, <1>2
<1>5. s \notin E => B[s] = 1
  BY <1>1
<1>6. \A x \in DOMAIN B : x \in E \/ x = s
  OBVIOUS
<1> HIDE DEF E
<1>7. IsShipmentBag(C, o)
  BY <1>2, <1>3, <1>4 DEF IsShipmentBag
<1>8. ASSUME NEW l \in LinesOf(o), NEW w
      PROVE  UnitsIn(C, l, w) = UnitsIn(B, l, w) - ItemsFrom(s, l, w)
  <2> DEFINE f == [x \in DOMAIN B |-> IF x.warehouse = w THEN B[x] * x.items[l] ELSE 0]
             g == [x \in DOMAIN B |-> IF x \in E /\ x.warehouse = w THEN C[x] * x.items[l] ELSE 0]
             h == [x \in E |-> IF x.warehouse = w THEN C[x] * x.items[l] ELSE 0]
  <2>1. \A x \in DOMAIN B : x.items[l] \in Nat
    BY ShippedUnits DEF IsShipmentBag
  <2>2. UnitsIn(C, l, w) = SumFunctionOnSet(h, E) /\ UnitsIn(B, l, w) = SumFunctionOnSet(f, DOMAIN B)
    BY <1>3 DEF UnitsIn, SumFunction
  <2>3. ASSUME NEW x \in DOMAIN B PROVE f[x] \in Int /\ g[x] \in Int
    <3>1. B[x] \in Nat /\ x.items[l] \in Nat /\ (x \in E => C[x] \in Nat)
      BY <1>1, <1>4, <2>1
    <3>2. B[x] * x.items[l] \in Nat /\ (x \in E => C[x] * x.items[l] \in Nat)
      BY <3>1
    <3> QED BY <3>2
  <2>4. \A x \in DOMAIN B \ {s} : g[x] = f[x]
    BY <1>4, <1>6
  <2>5. g[s] = f[s] - ItemsFrom(s, l, w)
    <3>1. CASE s \in E
      <4>1. C[s] = B[s] - 1 /\ B[s] \in Nat /\ s.items[l] \in Nat
        BY <1>1, <1>4, <2>1, <3>1
      <4>2. C[s] * s.items[l] = B[s] * s.items[l] - s.items[l]
        BY <4>1
      <4> QED BY <3>1, <4>1, <4>2 DEF ItemsFrom
    <3>2. CASE s \notin E
      <4>1. B[s] = 1 /\ s.items[l] \in Nat
        BY <1>5, <2>1, <3>2
      <4>2. B[s] * s.items[l] = s.items[l]
        BY <4>1
      <4> QED BY <3>2, <4>1, <4>2 DEF ItemsFrom
    <3> QED BY <3>1, <3>2
  <2>6. \A x \in DOMAIN B \ E : g[x] = 0
    OBVIOUS
  <2>7. \A x \in E : g[x] = h[x]
    BY <1>3
  <2> HIDE DEF f, g, h
  <2>8. SumFunctionOnSet(g, DOMAIN B) = SumFunctionOnSet(f, DOMAIN B) + g[s] - f[s]
    BY <1>3, <2>3, <2>4, SumChanged
  <2>9. SumFunctionOnSet(g, DOMAIN B) = SumFunctionOnSet(g, E)
    BY <1>3, <2>3, <2>6, SumPart
  <2>10. SumFunctionOnSet(g, E) = SumFunctionOnSet(h, E)
    BY <1>3, <2>7, SumSame
  <2>11. SumFunctionOnSet(f, DOMAIN B) \in Int /\ f[s] \in Int /\ g[s] \in Int
    BY <1>3, <2>3, SumInt
  <2>12. ItemsFrom(s, l, w) \in Int
    BY <2>1 DEF ItemsFrom
  <2> QED BY <2>2, <2>5, <2>8, <2>9, <2>10, <2>11, <2>12
<1> QED BY <1>7, <1>8

(* The shipments of an accepted plan, one for each warehouse it uses, take *)
(* what it allocates.                                                      *)
LEMMA ShipmentsOfPlan ==
  ASSUME NEW o, NEW al \in Allocations, NEW a, a = [l \in LinesOf(o) |-> al[l]], NEW C,
         C = EmptyBag (+) SetToBag(PlanShipments(al, a, o))
  PROVE  /\ IsShipmentBag(C, o)
         /\ \A l \in LinesOf(o), w \in Warehouses :
              /\ UnitsIn(C, l, w) = al[l][w]
              /\ al[l][w] > 0 => w \in Used(a)
<1> DEFINE new == [w \in Used(a) |-> [warehouse |-> w, items |-> [l \in LinesOf(o) |-> al[l][w]]]]
           D == {new[w] : w \in Used(a)}
<1>1. \A w \in Warehouses : w \in Used(a) <=> \E l \in LinesOf(o) : al[l][w] > 0
  BY DEF Used
<1>2. Used(a) \subseteq Warehouses /\ IsFiniteSet(Used(a))
  BY FulfillmentAssumption, FS_Subset DEF Used
<1>3. D = PlanShipments(al, a, o)
  BY DEF PlanShipments, NewShipment
<1>4. IsFiniteSet(D)
  <2>1. new \in Surjection(Used(a), D)
    BY DEF Surjection
  <2> HIDE DEF new, D
  <2> QED BY <1>2, <2>1, FS_Surjection
<1>5. C = [s \in D |-> 1]
  <2> HIDE DEF D
  <2>1. C = EmptyBag (+) SetToBag(D)
    BY <1>3
  <2> DEFINE none == EmptyBag
             one == SetToBag(D)
  <2>2. DOMAIN none = {} /\ DOMAIN one = D /\ \A s \in D : one[s] = 1
    BY DEF EmptyBag, SetToBag
  <2>3. C = [s \in (DOMAIN none) \cup (DOMAIN one) |->
              (IF s \in DOMAIN none THEN none[s] ELSE 0) + (IF s \in DOMAIN one THEN one[s] ELSE 0)]
    BY <2>1 DEF (+)
  <2> HIDE DEF none, one
  <2>4. (DOMAIN none) \cup (DOMAIN one) = D
    BY <2>2
  <2>5. \A s \in D : (IF s \in DOMAIN none THEN none[s] ELSE 0) + (IF s \in DOMAIN one THEN one[s] ELSE 0) = 1
    BY <2>2
  <2> QED BY <2>3, <2>4, <2>5
<1>6. D \subseteq ShipmentsFor(o)
  BY <1>2, LinesOfOrder DEF Allocations, ShipmentsFor
<1>7. \A w \in Used(a) : /\ new[w] \in D /\ new[w].warehouse = w
                         /\ \A l \in LinesOf(o) : new[w].items[l] = al[l][w]
  OBVIOUS
<1>8. \A s \in D : s = new[s.warehouse] /\ s.warehouse \in Used(a)
  OBVIOUS
<1> HIDE DEF new, D
<1>9. IsShipmentBag(C, o)
  <2>1. DOMAIN C = D
    BY <1>5
  <2>2. C \in [D -> Nat \ {0}]
    <3> DEFINE one == [s \in D |-> 1]
    <3>1. one \in [D -> Nat \ {0}]
      OBVIOUS
    <3> HIDE DEF one
    <3>2. C = one
      BY <1>5 DEF one
    <3> QED BY <3>1, <3>2, Zenon
  <2> QED BY <2>2, <1>4, <1>6, <2>1 DEF IsShipmentBag
<1>10. ASSUME NEW l \in LinesOf(o), NEW w \in Warehouses
       PROVE  UnitsIn(C, l, w) = al[l][w]
  <2> DEFINE f == [s \in D |-> IF s.warehouse = w THEN C[s] * s.items[l] ELSE 0]
             T == {s \in D : s.warehouse = w}
  <2>1. UnitsIn(C, l, w) = SumFunctionOnSet(f, D)
    BY <1>5 DEF UnitsIn, SumFunction
  <2>2. ASSUME NEW s \in D PROVE f[s] = ItemsFrom(s, l, w) /\ f[s] \in Int
    <3>1. C[s] = 1 /\ s.items[l] \in Nat
      BY <1>5, <1>6, ShippedUnits
    <3>2. C[s] * s.items[l] = s.items[l]
      BY <3>1
    <3> QED BY <3>1, <3>2 DEF ItemsFrom
  <2>3. \A s \in D \ T : f[s] = 0
    OBVIOUS
  <2>4. T \in SUBSET D
    OBVIOUS
  <2>5. CASE w \in Used(a)
    <3>1. T = {new[w]}
      BY <1>7, <1>8, <2>5
    <3>2. f[new[w]] = al[l][w]
      BY <1>7, <2>2, <2>5 DEF ItemsFrom
    <3> HIDE DEF f, T
    <3>3. SumFunctionOnSet(f, D) = SumFunctionOnSet(f, {new[w]})
      BY <1>4, <2>2, <2>3, <2>4, <3>1, SumPart
    <3>4. SumFunctionOnSet(f, {new[w]}) = f[new[w]] + SumFunctionOnSet(f, {})
      <4>1. IsFiniteSet({new[w]}) /\ {new[w]} \ {new[w]} = {} /\ new[w] \in {new[w]}
        BY FS_Singleton
      <4>2. \A x \in {new[w]} : f[x] \in Int
        BY <1>7, <2>2, <2>5
      <4> QED BY <4>1, <4>2, SumRemove
    <3>5. f[new[w]] \in Int
      BY <1>7, <2>2, <2>5
    <3> QED BY <2>1, <3>2, <3>3, <3>4, <3>5, SumEmpty
  <2>6. CASE w \notin Used(a)
    <3>1. T = {}
      BY <1>8, <2>6
    <3>2. al[l][w] = 0
      BY <1>1, <2>6, LinesOfOrder DEF Allocations
    <3> HIDE DEF f, T
    <3>3. SumFunctionOnSet(f, D) = SumFunctionOnSet(f, {})
      BY <1>4, <2>2, <2>3, <2>4, <3>1, SumPart
    <3> QED BY <2>1, <3>2, <3>3, SumEmpty
  <2> QED BY <2>5, <2>6
<1> QED BY <1>1, <1>9, <1>10

-----------------------------------------------------------------------------
(* The inductive invariant: the properties, and with them that a correction *)
(* will write no less than was reserved when it read its row, that the      *)
(* shipments of an order, planned and sent, are finite bags of its lines,   *)
(* and that nothing was shipped or planned for an order that is not         *)
(* decided.                                                                 *)
CorrectionsFit ==
  \A c \in Corrections : correction[c] # NoRead => correction[c].next >= correction[c].reserved
AreBags(sh) == sh = [o \in Orders |-> sh[o]] /\ \A o \in Orders : IsShipmentBag(sh[o], o)
ShipmentsAreBags == AreBags(shipments)
SentAreBags == AreBags(sent)
NothingBegun ==
  \A o \in Orders : ~ Decided(o) => shipments[o] = EmptyBag /\ \A l \in LinesOf(o) : shipped[l] = 0

FulfillmentInv ==
  /\ TypeOK /\ CorrectionsFit /\ ShipmentsAreBags /\ SentAreBags /\ NothingBegun
  /\ LineConservation /\ StatusTellsTheTruth /\ SuggestionsAreOwed
  /\ DispatchedOnce /\ StockMatchesPlans /\ PlannedShipmentsCovered

(* StockMatchesPlans speaks of what the decided lines hold, before and     *)
(* after a step.                                                           *)
LEMMA HeldByDecided ==
  ASSUME NEW w, NEW p
  PROVE  /\ Held(w, p) = HeldIn(DecidedLines, alloc, w, p)
         /\ Held(w, p)' = HeldIn(DecidedLines', alloc', w, p)
<1>1. [l \in Lines |-> IF ProductOf[l] = p /\ Decided(OrderOf[l]) THEN alloc[l][w] ELSE 0]
        = [l \in Lines |-> IF ProductOf[l] = p /\ l \in DecidedLines THEN alloc[l][w] ELSE 0]
  BY DEF Decided, DecidedLines, DecidedStatuses
<1>2. [l \in Lines |-> IF ProductOf[l] = p /\ Decided(OrderOf[l])' THEN alloc'[l][w] ELSE 0]
        = [l \in Lines |-> IF ProductOf[l] = p /\ l \in DecidedLines' THEN alloc'[l][w] ELSE 0]
  BY DEF Decided, DecidedLines, DecidedStatuses
<1>3. Held(w, p) = HeldIn(DecidedLines, alloc, w, p)
  BY <1>1 DEF Held, HeldIn
<1>4. Held(w, p)' = HeldIn(DecidedLines', alloc', w, p)
  BY <1>2 DEF Held, HeldIn
<1> QED BY <1>3, <1>4

(* So it can be read as that. *)
LEMMA StockIsHeld ==
  /\ StockMatchesPlans <=> \A w \in Warehouses, p \in Products :
                             reserved[<<w, p>>] = HeldIn(DecidedLines, alloc, w, p)
  /\ StockMatchesPlans' <=> \A w \in Warehouses, p \in Products :
                              reserved'[<<w, p>>] = HeldIn(DecidedLines', alloc', w, p)
BY HeldByDecided DEF StockMatchesPlans

(* PlannedShipmentsCovered in the same way. *)
CoveredBy(pl, al, sh, ac) ==
  \A o \in Orders, w \in Warehouses : \A l \in LinesOf(o) :
    /\ UnitsIn(sh[o], l, w) = IF pl[o].status \in DecidedStatuses THEN al[l][w] ELSE 0
    /\ UnitsIn(sh[o], l, w) > 0 => ac[w]
LEMMA ShipmentsCover ==
  /\ PlannedShipmentsCovered <=> CoveredBy(plan, alloc, shipments, active)
  /\ PlannedShipmentsCovered' <=> CoveredBy(plan', alloc', shipments', active')
BY PlannedUnits DEF PlannedShipmentsCovered, CoveredBy, Decided, DecidedStatuses

(* DispatchedOnce speaks of the sent shipments of the order of a line. *)
SentBy(sh, sd, iv) ==
  \A l \in Lines : sh[l] = SentUnits(sd[OrderOf[l]], l) /\ iv[l] = SentUnits(sd[OrderOf[l]], l)
LEMMA OnceSent ==
  /\ DispatchedOnce <=> SentBy(shipped, sent, invoiced)
  /\ DispatchedOnce' <=> SentBy(shipped', sent', invoiced')
<1>1. \A l : Sent(l) = SentUnits(sent[OrderOf[l]], l) /\ Sent(l)' = SentUnits(sent'[OrderOf[l]], l)
  BY DEF Sent, SentUnits
<1> QED BY <1>1 DEF DispatchedOnce, SentBy

(* The state of a line and of an order, as the invariant gives it. *)
LEMMA LineState ==
  ASSUME FulfillmentInv, NEW l \in Lines
  PROVE  /\ OrderOf[l] \in Orders /\ l \in LinesOf(OrderOf[l]) /\ Qty[l] \in Nat \ {0}
         /\ backorder[l] \in Nat /\ shipped[l] \in Nat /\ invoiced[l] = shipped[l]
         /\ alloc[l] \in [Warehouses -> Nat] /\ Units(alloc, l) \in Nat
         /\ plan[OrderOf[l]].status # "NONE" => Qty[l] = shipped[l] + Units(alloc, l) + backorder[l]
         /\ ~ Decided(OrderOf[l]) => shipped[l] = 0 /\ suggestion[l] = NoSuggestion
         /\ suggestion[l] # NoSuggestion => /\ orderStatus[OrderOf[l]] = "OPEN"
                                            /\ suggestion[l].qty \in 1..backorder[l]
<1>1. OrderOf[l] \in Orders /\ l \in LinesOf(OrderOf[l]) /\ Qty[l] \in Nat \ {0}
  BY FulfillmentAssumption DEF LinesOf
<1>2. backorder[l] \in Nat /\ shipped[l] \in Nat /\ alloc[l] \in [Warehouses -> Nat]
  BY DEF FulfillmentInv, TypeOK
<1>3. Units(alloc, l) \in Nat
  BY <1>2, UnitsAreNumbers
<1>4. invoiced[l] = shipped[l]
  BY OnceSent DEF FulfillmentInv, SentBy
<1>5. plan[OrderOf[l]].status # "NONE" => Qty[l] = shipped[l] + Units(alloc, l) + backorder[l]
  BY DEF FulfillmentInv, LineConservation
<1>6. ~ Decided(OrderOf[l]) => shipped[l] = 0
  BY <1>1 DEF FulfillmentInv, NothingBegun
<1>7. suggestion[l] # NoSuggestion => /\ Decided(OrderOf[l]) /\ orderStatus[OrderOf[l]] = "OPEN"
                                      /\ suggestion[l].qty \in 1..backorder[l]
  BY DEF FulfillmentInv, SuggestionsAreOwed
<1> QED BY <1>1, <1>2, <1>3, <1>4, <1>5, <1>6, <1>7

PlanRows == [status : {"NONE", "SUGGESTED", "ACCEPTED", "OVERRIDDEN"}, manual : BOOLEAN]

(* A new row for the plan of one order. *)
LEMMA PlanReplaced ==
  ASSUME plan \in [Orders -> PlanRows], NEW o \in Orders, NEW row \in PlanRows,
         plan' = [plan EXCEPT ![o] = row]
  PROVE  /\ plan' \in [Orders -> PlanRows] /\ plan'[o] = row
         /\ \A k \in Orders : k # o => plan'[k] = plan[k]
OBVIOUS

LEMMA PlanRow ==
  ASSUME NEW status \in {"NONE", "SUGGESTED", "ACCEPTED", "OVERRIDDEN"}, NEW manual \in BOOLEAN
  PROVE  /\ [status |-> status, manual |-> manual] \in PlanRows
         /\ [status |-> status, manual |-> manual].status = status
BY DEF PlanRows

(* A proposal, new or recomputed or made by hand, leaves the books right. *)
LEMMA ReplanKeepsBooks ==
  ASSUME FulfillmentInv, NEW o \in Orders, ~ Decided(o), NEW a \in Splits(o), NEW manual \in BOOLEAN,
         Replan(o, a, manual), UNCHANGED <<stock, deliveries, orderStatus, handlers>>,
         suggestion' = suggestion \/ Retire(o),
         fulfillment' \in [Orders -> {"UNALLOCATED", "RESERVED", "BACKORDERED",
                                      "PARTIALLY_FULFILLED", "FULFILLED"}],
         \A k \in Orders : k # o => fulfillment'[k] = fulfillment[k],
         refused' \in [Orders -> BOOLEAN]
  PROVE  FulfillmentInv'
<1>1. /\ onHand' = onHand /\ reserved' = reserved /\ active' = active /\ stale' = stale
      /\ shipments' = shipments /\ sent' = sent /\ shipped' = shipped /\ invoiced' = invoiced
      /\ orderStatus' = orderStatus /\ events' = events /\ correction' = correction
  BY DEF stock, deliveries, handlers
<1>2. /\ plan' \in [Orders -> PlanRows] /\ plan'[o].status = "SUGGESTED"
      /\ \A k \in Orders : k # o => plan'[k] = plan[k]
  <2>1. plan \in [Orders -> PlanRows] /\ plan' = [plan EXCEPT ![o] = [status |-> "SUGGESTED", manual |-> manual]]
    BY DEF FulfillmentInv, TypeOK, Replan, PlanRows
  <2> DEFINE row == [status |-> "SUGGESTED", manual |-> manual]
  <2>2. row \in PlanRows /\ row.status = "SUGGESTED"
    BY PlanRow
  <2> HIDE DEF row
  <2>3. plan' = [plan EXCEPT ![o] = row]
    BY <2>1 DEF row
  <2> QED BY <2>1, <2>2, <2>3, PlanReplaced
<1>3. \A k \in Orders : Decided(k)' <=> Decided(k)
  BY <1>2 DEF Decided
<1>4. a \in [LinesOf(o) -> [Warehouses -> Nat]] /\ \A l \in LinesOf(o) : Units(a, l) <= Qty[l]
  BY SplitsAreAllocations
<1>5. ASSUME NEW l \in Lines, l \in LinesOf(o)
      PROVE  /\ alloc'[l] = a[l] /\ alloc'[l] \in [Warehouses -> Nat]
             /\ Units(alloc', l) = Units(a, l) /\ Units(a, l) \in Nat
             /\ backorder'[l] = Qty[l] - shipped[l] - Units(a, l) /\ backorder'[l] \in Nat
             /\ suggestion'[l] = NoSuggestion /\ OrderOf[l] = o
  <2>1. alloc'[l] = a[l] /\ a[l] \in [Warehouses -> Nat]
    BY <1>4, <1>5 DEF Replan
  <2>2. Units(alloc', l) = Units(a, l) /\ Units(a, l) \in Nat
    BY <2>1, UnitsAreNumbers DEF Units
  <2>3. OrderOf[l] = o
    BY <1>5, LinesOfOrder
  <2>4. shipped[l] = 0 /\ suggestion[l] = NoSuggestion /\ Qty[l] \in Nat
    BY <2>3, LineState
  <2>5. suggestion'[l] = NoSuggestion
    BY <1>5, <2>4 DEF Retire
  <2>6. backorder'[l] = Qty[l] - shipped[l] - Units(a, l)
    BY <1>5 DEF Replan
  <2> QED BY <1>4, <1>5, <2>1, <2>2, <2>3, <2>4, <2>5, <2>6
<1>6. ASSUME NEW l \in Lines, l \notin LinesOf(o)
      PROVE  alloc'[l] = alloc[l] /\ backorder'[l] = backorder[l] /\ suggestion'[l] = suggestion[l] /\ OrderOf[l] # o
  BY <1>6, LinesOfOrder DEF Replan, Retire
<1>7. TypeOK'
  <2>1. alloc' \in [Lines -> [Warehouses -> Nat]]
    <3>1. \A l \in Lines : alloc'[l] \in [Warehouses -> Nat]
      BY <1>5, <1>6, LineState
    <3> QED BY <3>1 DEF Replan
  <2>2. backorder' \in [Lines -> Nat]
    <3>1. \A l \in Lines : backorder'[l] \in Nat
      BY <1>5, <1>6, LineState
    <3> QED BY <3>1 DEF Replan
  <2>3. suggestion' \in [Lines -> [warehouse : Warehouses, qty : Nat] \cup {NoSuggestion}]
    BY DEF FulfillmentInv, TypeOK, Retire
  <2> QED BY <1>1, <1>2, <2>1, <2>2, <2>3 DEF FulfillmentInv, TypeOK, PlanRows
<1>8. CorrectionsFit' /\ ShipmentsAreBags' /\ SentAreBags' /\ DispatchedOnce'
  BY <1>1, OnceSent DEF FulfillmentInv, CorrectionsFit, ShipmentsAreBags, SentAreBags, AreBags, SentBy
<1>9. NothingBegun'
  BY <1>1, <1>3 DEF FulfillmentInv, NothingBegun
<1>10. LineConservation'
  <2> SUFFICES ASSUME NEW l \in Lines, plan'[OrderOf[l]].status # "NONE"
               PROVE  Qty[l] = shipped'[l] + Units(alloc', l) + backorder'[l]
    BY DEF LineConservation
  <2>1. CASE l \in LinesOf(o)
    BY <1>1, <1>5, <2>1, LineState
  <2>2. CASE l \notin LinesOf(o)
    <3>1. Units(alloc', l) = Units(alloc, l)
      BY <1>6, <2>2 DEF Units
    <3> QED BY <1>1, <1>2, <1>6, <2>2, <3>1, LineState
  <2> QED BY <2>1, <2>2
<1>11. StatusTellsTheTruth'
  <2> SUFFICES ASSUME NEW k \in Orders, Decided(k)', LinesOf(k) # {}
               PROVE  /\ fulfillment'[k] = "BACKORDERED" <=> OpenBackorders(k)'
                      /\ fulfillment'[k] = "FULFILLED" <=> \A l \in LinesOf(k) : shipped'[l] = Qty[l]
    BY DEF StatusTellsTheTruth
  <2>1. k # o /\ Decided(k) /\ fulfillment'[k] = fulfillment[k]
    BY <1>3
  <2>2. \A l \in LinesOf(k) : backorder'[l] = backorder[l]
    BY <1>6, <2>1, LinesOfOrder
  <2>3. OpenBackorders(k)' <=> OpenBackorders(k)
    BY <2>2 DEF OpenBackorders
  <2> QED BY <1>1, <2>1, <2>3 DEF FulfillmentInv, StatusTellsTheTruth
<1>12. SuggestionsAreOwed'
  <2> SUFFICES ASSUME NEW l \in Lines, suggestion'[l] # NoSuggestion
               PROVE  /\ Decided(OrderOf[l])' /\ orderStatus'[OrderOf[l]] = "OPEN"
                      /\ suggestion'[l].qty \in 1..backorder'[l]
    BY DEF SuggestionsAreOwed
  <2>1. l \notin LinesOf(o)
    BY <1>5
  <2> QED BY <1>1, <1>3, <1>6, <2>1, LineState
<1>13. StockMatchesPlans'
  <2>1. DecidedLines' = DecidedLines
    BY <1>2, <1>3, FulfillmentAssumption DEF DecidedLines, Decided, DecidedStatuses
  <2>2. \A l \in DecidedLines : alloc'[l] = alloc[l]
    BY <1>6, LinesOfOrder DEF DecidedLines, Decided, DecidedStatuses
  <2>3. \A w, p : HeldIn(DecidedLines, alloc', w, p) = HeldIn(DecidedLines, alloc, w, p)
    BY <2>2, HeldSame
  <2> QED BY <1>1, <2>1, <2>3, StockIsHeld DEF FulfillmentInv
<1>14. PlannedShipmentsCovered'
  <2>1. CoveredBy(plan, alloc, shipments, active)
    BY ShipmentsCover DEF FulfillmentInv
  <2>2. ASSUME NEW k \in Orders, NEW w \in Warehouses, NEW l \in LinesOf(k)
        PROVE  /\ UnitsIn(shipments'[k], l, w) = IF plan'[k].status \in DecidedStatuses THEN alloc'[l][w] ELSE 0
               /\ UnitsIn(shipments'[k], l, w) > 0 => active'[w]
    <3>1. /\ UnitsIn(shipments[k], l, w) = IF plan[k].status \in DecidedStatuses THEN alloc[l][w] ELSE 0
          /\ UnitsIn(shipments[k], l, w) > 0 => active[w]
      BY <2>1 DEF CoveredBy
    <3>2. CASE k = o
      BY <1>1, <1>2, <3>1, <3>2 DEF Decided, DecidedStatuses
    <3>3. CASE k # o
      <4>1. alloc'[l] = alloc[l]
        BY <1>6, <3>3, LinesOfOrder
      <4> QED BY <1>1, <1>2, <3>1, <3>3, <4>1
    <3> QED BY <3>2, <3>3
  <2> QED BY <2>2, ShipmentsCover DEF CoveredBy
<1> QED BY <1>7, <1>8, <1>9, <1>10, <1>11, <1>12, <1>13, <1>14 DEF FulfillmentInv

(* What a proposal takes from a row is a number, and nothing where it uses *)
(* no warehouse.                                                           *)
LEMMA TakenIsANumber ==
  ASSUME NEW o, NEW al \in Allocations, NEW a, a = [l \in LinesOf(o) |-> al[l]], NEW r \in Rows
  PROVE  Taken(a, r) \in Nat /\ (Taken(a, r) # 0 => r[1] \in Used(a))
<1> DEFINE t == [l \in LinesOf(o) |-> IF ProductOf[l] = r[2] THEN a[l][r[1]] ELSE 0]
<1>1. Taken(a, r) = SumFunctionOnSet(t, LinesOf(o))
  BY DEF Taken, SumFunction
<1>2. \A l \in LinesOf(o) : a[l][r[1]] \in Nat /\ t[l] \in {0, a[l][r[1]]}
  BY LinesOfOrder DEF Allocations, Rows
<1>3. r[1] \notin Used(a) => \A l \in LinesOf(o) : t[l] = 0
  BY <1>2 DEF Used, Rows
<1> HIDE DEF t
<1>4. SumFunctionOnSet(t, LinesOf(o)) \in Nat
  BY <1>2, LinesOfOrder, SumNat
<1>5. CASE r[1] \notin Used(a)
  <2>1. SumFunctionOnSet(t, LinesOf(o)) = SumFunctionOnSet(t, {})
    BY <1>2, <1>3, <1>5, LinesOfOrder, SumPart
  <2> QED BY <1>1, <1>4, <2>1, SumEmpty
<1> QED BY <1>1, <1>4, <1>5

(* Deciding a plan changes its status. *)
LEMMA PlanDecided ==
  ASSUME plan \in [Orders -> PlanRows], NEW o \in Orders, NEW status \in DecidedStatuses,
         plan' = [plan EXCEPT ![o].status = status]
  PROVE  /\ plan' \in [Orders -> PlanRows] /\ plan'[o].status = status
         /\ \A k \in Orders : k # o => plan'[k] = plan[k]
<1> DEFINE row == [plan[o] EXCEPT !.status = status]
<1>1. row \in PlanRows /\ row.status = status
  <2>1. plan[o] \in PlanRows
    OBVIOUS
  <2>2. \A r \in PlanRows : [r EXCEPT !.status = status] \in PlanRows
                            /\ [r EXCEPT !.status = status].status = status
    BY DEF PlanRows, DecidedStatuses
  <2> QED BY <2>1, <2>2
<1>2. plan' = [plan EXCEPT ![o] = row]
  OBVIOUS
<1> HIDE DEF row
<1> QED BY <1>1, <1>2, PlanReplaced

(* The step of an acceptance, spelled out. *)
LEMMA AcceptanceStep ==
  ASSUME FulfillmentInv, NEW o \in Orders, AcceptPlan(o)
  PROVE  /\ UNCHANGED <<onHand, active, stale, alloc, backorder, suggestion, refused,
                        sent, shipped, invoiced, orderStatus, events, correction>>
         /\ alloc \in Allocations /\ Proposed(o) = [l \in LinesOf(o) |-> alloc[l]]
         /\ plan' \in [Orders -> PlanRows]
         /\ ~ Decided(o) /\ plan[o].status = "SUGGESTED" /\ Decided(o)'
         /\ \A k \in Orders : k # o => plan'[k] = plan[k] /\ shipments'[k] = shipments[k]
                                       /\ fulfillment'[k] = fulfillment[k]
         /\ DecidedLines \cap LinesOf(o) = {} /\ DecidedLines' = DecidedLines \cup LinesOf(o)
         /\ \A r \in Rows : /\ reserved'[r] = reserved[r] + Taken(Proposed(o), r)
                            /\ reserved'[r] \in Nat /\ reserved[r] <= reserved'[r]
                            /\ reserved'[r] # reserved[r] => reserved'[r] <= onHand[r] /\ active[r[1]]
         /\ reserved' \in [Rows -> Nat]
<1>1. UNCHANGED <<onHand, active, stale, alloc, backorder, suggestion, refused, sent, shipped, invoiced,
                  orderStatus, events, correction>>
  BY DEF AcceptPlan, handlers
<1>2. alloc \in Allocations /\ Proposed(o) = [l \in LinesOf(o) |-> alloc[l]]
  BY DEF FulfillmentInv, TypeOK, Allocations, Proposed
<1>3. ~ Decided(o) /\ plan[o].status = "SUGGESTED"
  BY DEF AcceptPlan, Decided
<1>4. /\ plan' \in [Orders -> PlanRows] /\ Decided(o)'
      /\ \A k \in Orders : k # o => plan'[k] = plan[k]
  <2> DEFINE status == IF plan[o].manual THEN "OVERRIDDEN" ELSE "ACCEPTED"
  <2>1. plan \in [Orders -> PlanRows] /\ plan' = [plan EXCEPT ![o].status = status]
    BY DEF FulfillmentInv, TypeOK, PlanRows, AcceptPlan
  <2>2. status \in DecidedStatuses
    BY DEF DecidedStatuses
  <2> HIDE DEF status
  <2> QED BY <2>1, <2>2, PlanDecided DEF Decided, DecidedStatuses
<1>5. \A k \in Orders : k # o => shipments'[k] = shipments[k] /\ fulfillment'[k] = fulfillment[k]
  BY DEF AcceptPlan, FulfillmentInv, ShipmentsAreBags, AreBags, TypeOK
<1>6. DecidedLines \cap LinesOf(o) = {}
  BY <1>3, LinesOfOrder DEF DecidedLines, Decided, DecidedStatuses
<1>7. DecidedLines' = DecidedLines \cup LinesOf(o)
  <2>1. \A l \in Lines : plan'[OrderOf[l]].status \in DecidedStatuses
                           <=> plan[OrderOf[l]].status \in DecidedStatuses \/ OrderOf[l] = o
    BY <1>3, <1>4, FulfillmentAssumption DEF Decided, DecidedStatuses
  <2> QED BY <2>1, LinesOfOrder DEF DecidedLines
<1>8. ASSUME NEW r \in Rows
      PROVE  /\ reserved'[r] = reserved[r] + Taken(Proposed(o), r)
             /\ reserved'[r] \in Nat /\ reserved[r] <= reserved'[r]
             /\ reserved'[r] # reserved[r] => reserved'[r] <= onHand[r] /\ active[r[1]]
  <2>1. /\ reserved'[r] = reserved[r] + Taken(Proposed(o), r)
        /\ Taken(Proposed(o), r) > 0 => reserved[r] + Taken(Proposed(o), r) <= onHand[r]
        /\ \A w \in Used(Proposed(o)) : active[w]
    BY DEF AcceptPlan, CanReserve
  <2>2. Taken(Proposed(o), r) \in Nat /\ (Taken(Proposed(o), r) # 0 => r[1] \in Used(Proposed(o)))
    BY <1>2, TakenIsANumber
  <2>3. reserved[r] \in Nat /\ onHand[r] \in Int
    BY DEF FulfillmentInv, TypeOK
  <2> QED BY <2>1, <2>2, <2>3
<1>9. reserved' \in [Rows -> Nat]
  <2>1. reserved' = [r \in Rows |-> reserved[r] + Taken(Proposed(o), r)]
    BY DEF AcceptPlan
  <2>2. \A r \in Rows : reserved[r] + Taken(Proposed(o), r) \in Nat
    BY <1>8
  <2> QED BY <2>1, <2>2
<1> QED BY <1>1, <1>2, <1>3, <1>4, <1>5, <1>6, <1>7, <1>8, <1>9

(* Accepting a proposal leaves the books right. *)
LEMMA AcceptKeepsBooks ==
  ASSUME FulfillmentInv, NEW o \in Orders, AcceptPlan(o)
  PROVE  FulfillmentInv'
<1>1. UNCHANGED <<onHand, active, stale, alloc, backorder, suggestion, refused, sent, shipped, invoiced,
                  orderStatus, events, correction>>
  BY AcceptanceStep
<1>2. /\ plan' \in [Orders -> PlanRows]
      /\ ~ Decided(o) /\ plan[o].status = "SUGGESTED" /\ Decided(o)'
      /\ \A k \in Orders : k # o => plan'[k] = plan[k] /\ shipments'[k] = shipments[k]
                                    /\ fulfillment'[k] = fulfillment[k]
  BY AcceptanceStep
<1>3. \A k \in Orders : Decided(k)' <=> Decided(k) \/ k = o
  BY <1>2 DEF Decided
<1>4. shipments[o] = EmptyBag /\ \A l \in LinesOf(o) : shipped[l] = 0
  BY <1>2 DEF FulfillmentInv, NothingBegun
<1>5. /\ IsShipmentBag(shipments'[o], o)
      /\ \A l \in LinesOf(o), w \in Warehouses :
           /\ UnitsIn(shipments'[o], l, w) = alloc[l][w]
           /\ alloc[l][w] > 0 => w \in Used(Proposed(o))
  <2>1. alloc \in Allocations /\ Proposed(o) = [l \in LinesOf(o) |-> alloc[l]]
    BY AcceptanceStep
  <2>2. shipments'[o] = EmptyBag (+) SetToBag(PlanShipments(alloc, Proposed(o), o))
    BY <1>4 DEF AcceptPlan, FulfillmentInv, ShipmentsAreBags, AreBags, PlanShipments
  <2> QED BY <2>1, <2>2, ShipmentsOfPlan
<1>6. TypeOK'
  <2>1. fulfillment' \in [Orders -> {"UNALLOCATED", "RESERVED", "BACKORDERED",
                                     "PARTIALLY_FULFILLED", "FULFILLED"}]
    BY DEF AcceptPlan, FulfillmentInv, TypeOK
  <2>2. reserved' \in [Rows -> Nat]
    BY AcceptanceStep
  <2> QED BY <1>1, <1>2, <2>1, <2>2 DEF FulfillmentInv, TypeOK, PlanRows
<1>7. CorrectionsFit' /\ SentAreBags'
  BY <1>1 DEF FulfillmentInv, CorrectionsFit, SentAreBags, AreBags
<1>8. ShipmentsAreBags'
  <2>1. shipments' = [k \in Orders |-> shipments'[k]]
    BY DEF AcceptPlan, FulfillmentInv, ShipmentsAreBags, AreBags
  <2>2. \A k \in Orders : IsShipmentBag(shipments'[k], k)
    BY <1>2, <1>5 DEF FulfillmentInv, ShipmentsAreBags, AreBags
  <2> QED BY <2>1, <2>2 DEF ShipmentsAreBags, AreBags
<1>9. NothingBegun'
  BY <1>1, <1>2, <1>3 DEF FulfillmentInv, NothingBegun
<1>10. LineConservation'
  <2> SUFFICES ASSUME NEW l \in Lines PROVE Qty[l] = shipped[l] + Units(alloc, l) + backorder[l]
               \/ plan'[OrderOf[l]].status = "NONE"
    BY <1>1 DEF LineConservation
  <2> QED BY <1>2, LineState
<1>11. StatusTellsTheTruth'
  <2> SUFFICES ASSUME NEW k \in Orders, Decided(k)', LinesOf(k) # {}
               PROVE  /\ fulfillment'[k] = "BACKORDERED" <=> OpenBackorders(k)
                      /\ fulfillment'[k] = "FULFILLED" <=> \A l \in LinesOf(k) : shipped[l] = Qty[l]
    BY <1>1 DEF StatusTellsTheTruth, OpenBackorders
  <2>1. CASE k = o
    <3>1. fulfillment'[o] = IF OpenBackorders(o) THEN "BACKORDERED" ELSE "RESERVED"
      BY DEF AcceptPlan, FulfillmentInv, TypeOK
    <3>2. PICK l \in LinesOf(k) : TRUE
      OBVIOUS
    <3>3. shipped[l] # Qty[l]
      BY <1>4, <2>1, LinesOfOrder, FulfillmentAssumption
    <3> QED BY <2>1, <3>1, <3>3
  <2>2. CASE k # o
    BY <1>2, <1>3, <2>2 DEF FulfillmentInv, StatusTellsTheTruth
  <2> QED BY <2>1, <2>2
<1>12. SuggestionsAreOwed'
  BY <1>1, <1>3, FulfillmentAssumption DEF FulfillmentInv, SuggestionsAreOwed
<1>13. DispatchedOnce'
  BY <1>1, OnceSent DEF FulfillmentInv, SentBy
<1>14. StockMatchesPlans'
  <2>1. ASSUME NEW w \in Warehouses, NEW p \in Products
        PROVE  reserved'[<<w, p>>] = HeldIn(DecidedLines', alloc', w, p)
    <3>1. reserved[<<w, p>>] = HeldIn(DecidedLines, alloc, w, p)
      BY StockIsHeld DEF FulfillmentInv
    <3>2. <<w, p>> \in Rows
      BY DEF Rows
    <3>3. HeldIn(DecidedLines \cup LinesOf(o), alloc, w, p)
            = HeldIn(DecidedLines, alloc, w, p) + Taken(Proposed(o), <<w, p>>)
      BY AcceptanceStep, HeldByOrder
    <3>4. reserved'[<<w, p>>] = reserved[<<w, p>>] + Taken(Proposed(o), <<w, p>>)
      BY <3>2, AcceptanceStep
    <3>5. DecidedLines' = DecidedLines \cup LinesOf(o)
      BY AcceptanceStep
    <3> QED BY <1>1, <3>1, <3>3, <3>4, <3>5
  <2> QED BY <2>1, StockIsHeld
<1>15. PlannedShipmentsCovered'
  <2>1. CoveredBy(plan, alloc, shipments, active)
    BY ShipmentsCover DEF FulfillmentInv
  <2>2. \A w \in Used(Proposed(o)) : active[w]
    BY DEF AcceptPlan, CanReserve
  <2>3. ASSUME NEW k \in Orders, NEW w \in Warehouses, NEW l \in LinesOf(k)
        PROVE  /\ UnitsIn(shipments'[k], l, w) = IF plan'[k].status \in DecidedStatuses THEN alloc'[l][w] ELSE 0
               /\ UnitsIn(shipments'[k], l, w) > 0 => active'[w]
    <3>1. CASE k = o
      BY <1>1, <1>2, <1>5, <2>2, <3>1 DEF Decided, DecidedStatuses
    <3>2. CASE k # o
      BY <1>1, <1>2, <2>1, <3>2 DEF CoveredBy
    <3> QED BY <3>1, <3>2
  <2> QED BY <2>3, ShipmentsCover DEF CoveredBy
<1> QED BY <1>6, <1>7, <1>8, <1>9, <1>10, <1>11, <1>12, <1>13, <1>14, <1>15 DEF FulfillmentInv

(* The step of a dispatch, spelled out. *)
LEMMA DispatchStep ==
  ASSUME FulfillmentInv, NEW o \in Orders, NEW s \in DOMAIN shipments[o], MarkShipped(o, s)
  PROVE  /\ UNCHANGED <<active, stale, plan, backorder, suggestion, refused, orderStatus, events, correction>>
         /\ s \in ShipmentsFor(o) /\ DOMAIN s.items = LinesOf(o) /\ s.warehouse \in Warehouses
         /\ active[s.warehouse] /\ Decided(o) /\ LinesOf(o) \subseteq DecidedLines
         /\ alloc \in Allocations /\ alloc' \in Allocations
         /\ \A l \in Lines : /\ Items(s, l) \in Nat
                             /\ l \in LinesOf(o) => Items(s, l) = s.items[l]
                             /\ l \notin LinesOf(o) => Items(s, l) = 0
                             /\ shipped'[l] = shipped[l] + Items(s, l)
                             /\ invoiced'[l] = invoiced[l] + Items(s, l)
                             /\ Units(alloc', l) = Units(alloc, l) - Items(s, l)
         /\ \A l \in Lines, w \in Warehouses :
              alloc'[l][w] = IF l \in LinesOf(o) /\ w = s.warehouse THEN alloc[l][w] - s.items[l] ELSE alloc[l][w]
         /\ \A k \in Orders : k # o => shipments'[k] = shipments[k] /\ fulfillment'[k] = fulfillment[k]
<1>1. /\ UNCHANGED <<active, stale, plan, backorder, suggestion, refused, orderStatus, events, correction>>
      /\ active[s.warehouse]
  BY DEF MarkShipped, Leave, handlers
<1>2. s \in ShipmentsFor(o) /\ IsShipmentBag(shipments[o], o)
  BY DEF FulfillmentInv, ShipmentsAreBags, AreBags, IsShipmentBag
<1>3. DOMAIN s.items = LinesOf(o) /\ s.warehouse \in Warehouses /\ \A l \in LinesOf(o) : s.items[l] \in Nat
  BY <1>2 DEF ShipmentsFor
<1>4. Decided(o)
  <2>1. shipments[o] # EmptyBag
    <3>1. DOMAIN EmptyBag = {}
      BY DEF EmptyBag, SetToBag
    <3> QED BY <3>1
  <2> QED BY <2>1 DEF FulfillmentInv, NothingBegun
<1>5. LinesOf(o) \subseteq DecidedLines
  BY <1>4, LinesOfOrder DEF DecidedLines, Decided, DecidedStatuses
<1>6. alloc \in Allocations
  BY DEF FulfillmentInv, TypeOK, Allocations
<1>7. ASSUME NEW l \in Lines
      PROVE  /\ Items(s, l) \in Nat
             /\ l \in LinesOf(o) => Items(s, l) = s.items[l] /\ s.items[l] <= alloc[l][s.warehouse]
             /\ l \notin LinesOf(o) => Items(s, l) = 0
  BY <1>3 DEF Items, MarkShipped, Leave, Covered
<1>8. \A l \in Lines : shipped'[l] = shipped[l] + Items(s, l) /\ invoiced'[l] = invoiced[l] + Items(s, l)
  BY DEF MarkShipped, Leave, IssueShipmentInvoice
<1>9. ASSUME NEW l \in Lines
      PROVE  /\ alloc'[l] \in [Warehouses -> Nat]
             /\ alloc'[l][s.warehouse] = alloc[l][s.warehouse] - Items(s, l)
             /\ \A w \in Warehouses : w # s.warehouse => alloc'[l][w] = alloc[l][w]
  <2>1. alloc[l] \in [Warehouses -> Nat]
    BY <1>6 DEF Allocations
  <2>2. alloc'[l] = [alloc[l] EXCEPT ![s.warehouse] = @ - Items(s, l)]
    BY DEF MarkShipped, Leave
  <2>3. alloc[l][s.warehouse] - Items(s, l) \in Nat
    <3>1. Items(s, l) <= alloc[l][s.warehouse]
      BY <1>3, <1>7, <2>1
    <3>2. alloc[l][s.warehouse] \in Nat /\ Items(s, l) \in Nat
      BY <1>3, <1>7, <2>1
    <3> QED BY <3>1, <3>2
  <2> QED BY <1>3, <2>1, <2>2, <2>3
<1>10. alloc' \in Allocations
  <2>1. DOMAIN alloc' = Lines /\ alloc' = [l \in Lines |-> alloc'[l]]
    BY DEF MarkShipped, Leave
  <2> QED BY <1>9, <2>1 DEF Allocations
<1>11. ASSUME NEW l \in Lines PROVE Units(alloc', l) = Units(alloc, l) - Items(s, l)
  <2>1. alloc[l] \in [Warehouses -> Nat] /\ alloc'[l] \in [Warehouses -> Nat]
    BY <1>6, <1>9 DEF Allocations
  <2>2. Units(alloc', l) = Units(alloc, l) + alloc'[l][s.warehouse] - alloc[l][s.warehouse]
    <3>1. s.warehouse \in Warehouses
      BY <1>3
    <3>2. \A w \in Warehouses : w # s.warehouse => alloc'[l][w] = alloc[l][w]
      BY <1>9
    <3> QED BY <2>1, <3>1, <3>2, UnitsMove DEF Units
  <2>3. Units(alloc, l) \in Nat /\ alloc[l][s.warehouse] \in Nat /\ Items(s, l) \in Nat
    BY <1>3, <1>7, <2>1, UnitsAreNumbers
  <2>4. alloc'[l][s.warehouse] = alloc[l][s.warehouse] - Items(s, l)
    BY <1>9
  <2> QED BY <2>2, <2>3, <2>4
<1>12. ASSUME NEW l \in Lines, NEW w \in Warehouses
       PROVE  alloc'[l][w] = IF l \in LinesOf(o) /\ w = s.warehouse THEN alloc[l][w] - s.items[l] ELSE alloc[l][w]
  <2>1. alloc[l][w] \in Nat
    BY <1>6 DEF Allocations
  <2> QED BY <1>7, <1>9, <2>1
<1>13. \A k \in Orders : k # o => shipments'[k] = shipments[k] /\ fulfillment'[k] = fulfillment[k]
  BY DEF MarkShipped, Leave, FulfillmentInv, ShipmentsAreBags, AreBags, TypeOK
<1> QED BY <1>1, <1>2, <1>3, <1>4, <1>5, <1>6, <1>7, <1>8, <1>10, <1>11, <1>12, <1>13

(* What it takes from the stock rows. *)
LEMMA DispatchTakes ==
  ASSUME FulfillmentInv, NEW o \in Orders, NEW s \in DOMAIN shipments[o], MarkShipped(o, s)
  PROVE  /\ \A w \in Warehouses, p \in Products :
              reserved'[<<w, p>>] = HeldIn(DecidedLines, alloc', w, p)
         /\ \A r \in Rows : /\ onHand'[r] \in Int /\ reserved'[r] \in Nat
                            /\ reserved'[r] <= reserved[r]
                            /\ onHand'[r] = onHand[r] - (reserved[r] - reserved'[r])
                            /\ reserved'[r] # reserved[r] => r[1] = s.warehouse
         /\ onHand' \in [Rows -> Int] /\ reserved' \in [Rows -> Nat]
<1>1. ASSUME NEW r \in Rows
      PROVE  /\ onHand'[r] = onHand[r] - Leaving(s, r) /\ reserved'[r] = reserved[r] - Leaving(s, r)
             /\ Leaving(s, r) <= reserved[r]
             /\ onHand[r] \in Int /\ reserved[r] \in Nat
  BY DEF MarkShipped, Leave, FulfillmentInv, TypeOK
<1>2. ASSUME NEW w \in Warehouses, NEW p \in Products
      PROVE  /\ Leaving(s, <<w, p>>) \in Nat
             /\ HeldIn(DecidedLines, alloc', w, p) = HeldIn(DecidedLines, alloc, w, p) - Leaving(s, <<w, p>>)
  BY DispatchStep, HeldAfterDispatch
<1>3. ASSUME NEW r \in Rows PROVE Leaving(s, r) \in Nat /\ (Leaving(s, r) # 0 => r[1] = s.warehouse)
  <2>1. PICK w \in Warehouses, p \in Products : r = <<w, p>>
    BY DEF Rows
  <2>2. Leaving(s, r) \in Nat
    BY <1>2, <2>1
  <2>3. ASSUME r[1] # s.warehouse PROVE Leaving(s, r) = 0
    <3> DEFINE t == [l \in LinesOf(o) |-> IF RowOf(s.warehouse, l) = r THEN s.items[l] ELSE 0]
    <3>1. Leaving(s, r) = SumFunctionOnSet(t, LinesOf(o))
      BY DispatchStep DEF Leaving, SumFunction
    <3>2. \A l \in LinesOf(o) : t[l] = 0
      BY <2>3 DEF RowOf
    <3> HIDE DEF t
    <3>3. SumFunctionOnSet(t, LinesOf(o)) = SumFunctionOnSet(t, {})
      BY <3>2, LinesOfOrder, SumPart
    <3> QED BY <3>1, <3>3, SumEmpty
  <2> QED BY <2>2, <2>3
<1>4. ASSUME NEW w \in Warehouses, NEW p \in Products
      PROVE  reserved'[<<w, p>>] = HeldIn(DecidedLines, alloc', w, p)
  <2>1. reserved[<<w, p>>] = HeldIn(DecidedLines, alloc, w, p)
    BY StockIsHeld DEF FulfillmentInv
  <2>2. <<w, p>> \in Rows
    BY DEF Rows
  <2> QED BY <1>1, <1>2, <2>1, <2>2
<1>5. ASSUME NEW r \in Rows
      PROVE  /\ onHand'[r] \in Int /\ reserved'[r] \in Nat
             /\ reserved'[r] <= reserved[r]
             /\ onHand'[r] = onHand[r] - (reserved[r] - reserved'[r])
             /\ reserved'[r] # reserved[r] => r[1] = s.warehouse
  BY <1>1, <1>3
<1>6. onHand' \in [Rows -> Int] /\ reserved' \in [Rows -> Nat]
  <2>1. onHand' = [r \in Rows |-> onHand'[r]] /\ reserved' = [r \in Rows |-> reserved'[r]]
    BY DEF MarkShipped, Leave
  <2> QED BY <1>5, <2>1
<1> QED BY <1>4, <1>5, <1>6

(* Dispatching a shipment leaves the books right. *)
LEMMA DispatchKeepsBooks ==
  ASSUME FulfillmentInv, NEW o \in Orders, NEW s \in DOMAIN shipments[o], MarkShipped(o, s)
  PROVE  FulfillmentInv'
<1>1. UNCHANGED <<active, stale, plan, backorder, suggestion, refused, orderStatus, events, correction>>
  BY DispatchStep
<1>2. \A k : Decided(k)' <=> Decided(k)
  BY <1>1 DEF Decided
<1>3. \A l \in Lines : /\ Items(s, l) \in Nat
                       /\ l \in LinesOf(o) => Items(s, l) = s.items[l]
                       /\ l \notin LinesOf(o) => Items(s, l) = 0
                       /\ shipped'[l] = shipped[l] + Items(s, l)
                       /\ invoiced'[l] = invoiced[l] + Items(s, l)
                       /\ Units(alloc', l) = Units(alloc, l) - Items(s, l)
  BY DispatchStep
<1>4. Decided(o) /\ LinesOf(o) \subseteq Lines
  BY DispatchStep, LinesOfOrder
<1>5. TypeOK'
  <2>1. onHand' \in [Rows -> Int] /\ reserved' \in [Rows -> Nat]
    BY DispatchTakes
  <2>2. alloc' \in [Lines -> [Warehouses -> Nat]]
    BY DispatchStep DEF Allocations
  <2>3. shipped' \in [Lines -> Nat] /\ invoiced' \in [Lines -> Nat]
    <3>1. shipped' = [l \in Lines |-> shipped'[l]] /\ invoiced' = [l \in Lines |-> invoiced'[l]]
      BY DEF MarkShipped, Leave, IssueShipmentInvoice
    <3>2. \A l \in Lines : shipped'[l] \in Nat /\ invoiced'[l] \in Nat
      BY <1>3, LineState
    <3> QED BY <3>1, <3>2
  <2>4. fulfillment' \in [Orders -> {"UNALLOCATED", "RESERVED", "BACKORDERED",
                                     "PARTIALLY_FULFILLED", "FULFILLED"}]
    BY DEF MarkShipped, Leave, FulfillmentInv, TypeOK
  <2> QED BY <1>1, <2>1, <2>2, <2>3, <2>4 DEF FulfillmentInv, TypeOK
<1>6. CorrectionsFit'
  BY <1>1 DEF FulfillmentInv, CorrectionsFit
<1>7. /\ IsShipmentBag(shipments'[o], o)
      /\ \A l \in LinesOf(o) : \A w : UnitsIn(shipments'[o], l, w) = UnitsIn(shipments[o], l, w) - ItemsFrom(s, l, w)
  <2>1. IsShipmentBag(shipments[o], o) /\ shipments'[o] = shipments[o] (-) SetToBag({s})
    BY DEF MarkShipped, Leave, FulfillmentInv, ShipmentsAreBags, AreBags
  <2> QED BY <2>1, OneShipmentLess
<1>8. ShipmentsAreBags'
  <2>1. shipments' = [k \in Orders |-> shipments'[k]]
    BY DEF MarkShipped, Leave, FulfillmentInv, ShipmentsAreBags, AreBags
  <2>2. \A k \in Orders : IsShipmentBag(shipments'[k], k)
    BY <1>7, DispatchStep DEF FulfillmentInv, ShipmentsAreBags, AreBags
  <2> QED BY <2>1, <2>2 DEF ShipmentsAreBags, AreBags
<1>9. NothingBegun'
  <2> SUFFICES ASSUME NEW k \in Orders, ~ Decided(k)
               PROVE  shipments'[k] = EmptyBag /\ \A l \in LinesOf(k) : shipped'[l] = 0
    BY <1>2 DEF NothingBegun
  <2>1. k # o /\ shipments[k] = EmptyBag /\ \A l \in LinesOf(k) : shipped[l] = 0
    BY <1>4 DEF FulfillmentInv, NothingBegun
  <2>2. \A l \in LinesOf(k) : l \in Lines /\ l \notin LinesOf(o)
    BY <2>1, LinesOfOrder
  <2>3. \A l \in LinesOf(k) : shipped'[l] = 0
    BY <1>3, <2>1, <2>2
  <2> QED BY <2>1, <2>3, DispatchStep
<1>10. LineConservation'
  <2> SUFFICES ASSUME NEW l \in Lines, plan[OrderOf[l]].status # "NONE"
               PROVE  Qty[l] = shipped'[l] + Units(alloc', l) + backorder[l]
    BY <1>1 DEF LineConservation
  <2> QED BY <1>3, LineState
<1>11. StatusTellsTheTruth'
  <2> SUFFICES ASSUME NEW k \in Orders, Decided(k), LinesOf(k) # {}
               PROVE  /\ fulfillment'[k] = "BACKORDERED" <=> OpenBackorders(k)
                      /\ fulfillment'[k] = "FULFILLED" <=> \A l \in LinesOf(k) : shipped'[l] = Qty[l]
    BY <1>1, <1>2 DEF StatusTellsTheTruth, OpenBackorders
  <2>1. CASE k = o
    <3>1. fulfillment'[o] = IF \A l \in LinesOf(o) : shipped'[l] = Qty[l] THEN "FULFILLED"
                            ELSE IF OpenBackorders(o) THEN "BACKORDERED" ELSE "PARTIALLY_FULFILLED"
      BY DEF MarkShipped, Leave, FulfillmentInv, TypeOK
    <3>2. ASSUME NEW l \in LinesOf(o), shipped'[l] = Qty[l] PROVE ~ (backorder[l] > 0)
      <4>1. l \in Lines /\ OrderOf[l] = o /\ plan[o].status # "NONE"
        BY <1>4, LinesOfOrder DEF Decided
      <4>2. Qty[l] = shipped'[l] + Units(alloc', l) + backorder[l] /\ Units(alloc', l) \in Nat
        <5>1. alloc'[l] \in [Warehouses -> Nat]
          BY <1>5, <4>1 DEF TypeOK
        <5>2. Units(alloc', l) \in Nat
          BY <5>1, UnitsAreNumbers
        <5> QED BY <1>1, <1>10, <4>1, <5>2 DEF LineConservation
      <4>3. backorder[l] \in Nat /\ Qty[l] \in Nat
        BY <4>1, LineState
      <4> QED BY <3>2, <4>2, <4>3
    <3> QED BY <2>1, <3>1, <3>2 DEF OpenBackorders
  <2>2. CASE k # o
    <3>1. \A l \in LinesOf(k) : shipped'[l] = shipped[l]
      <4>1. \A l \in LinesOf(k) : l \in Lines /\ l \notin LinesOf(o)
        BY <2>2, LinesOfOrder
      <4> QED BY <1>3, <4>1, LineState
    <3>2. fulfillment'[k] = fulfillment[k]
      BY <2>2, DispatchStep
    <3> QED BY <3>1, <3>2 DEF FulfillmentInv, StatusTellsTheTruth
  <2> QED BY <2>1, <2>2
<1>12. SuggestionsAreOwed'
  BY <1>1, <1>2 DEF FulfillmentInv, SuggestionsAreOwed
<1>13. SentAreBags' /\ DispatchedOnce'
  <2>1. /\ IsShipmentBag(sent[o], o) /\ sent'[o] = sent[o] (+) SetToBag({s}) /\ s \in ShipmentsFor(o)
        /\ sent' = [k \in Orders |-> sent'[k]] /\ \A k \in Orders : k # o => sent'[k] = sent[k]
    BY DispatchStep DEF MarkShipped, FulfillmentInv, SentAreBags, AreBags
  <2>2. IsShipmentBag(sent'[o], o)
    BY <2>1, ShipmentAdded
  <2>3. SentAreBags'
    BY <2>1, <2>2 DEF FulfillmentInv, SentAreBags, AreBags
  <2>4. SentBy(shipped, sent, invoiced)
    BY OnceSent DEF FulfillmentInv
  <2>5. ASSUME NEW l \in Lines
        PROVE  /\ shipped'[l] = SentUnits(sent'[OrderOf[l]], l)
               /\ invoiced'[l] = SentUnits(sent'[OrderOf[l]], l)
    <3>1. /\ shipped[l] = SentUnits(sent[OrderOf[l]], l) /\ invoiced[l] = SentUnits(sent[OrderOf[l]], l)
          /\ shipped[l] \in Nat /\ OrderOf[l] \in Orders
      BY <2>4, LineState DEF SentBy
    <3>2. CASE OrderOf[l] = o
      <4>1. l \in LinesOf(o)
        BY <3>2, LinesOfOrder
      <4>2. SentUnits(sent'[o], l) = SentUnits(sent[o], l) + s.items[l]
        BY <2>1, <4>1, OneMoreSent
      <4> QED BY <1>3, <3>1, <3>2, <4>1, <4>2
    <3>3. CASE OrderOf[l] # o
      <4>1. l \notin LinesOf(o)
        BY <3>3, LinesOfOrder
      <4>2. shipped'[l] = shipped[l] /\ invoiced'[l] = shipped[l]
        BY <1>3, <3>1, <4>1
      <4> QED BY <2>1, <3>1, <3>3, <4>2
    <3> QED BY <3>2, <3>3
  <2>6. DispatchedOnce'
    BY <2>5, OnceSent DEF SentBy
  <2> QED BY <2>3, <2>6
<1>14. StockMatchesPlans'
  <2>1. DecidedLines' = DecidedLines
    BY <1>1 DEF DecidedLines
  <2> QED BY <2>1, DispatchTakes, StockIsHeld
<1>15. PlannedShipmentsCovered'
  <2>1. CoveredBy(plan, alloc, shipments, active)
    BY ShipmentsCover DEF FulfillmentInv
  <2>2. ASSUME NEW k \in Orders, NEW w \in Warehouses, NEW l \in LinesOf(k)
        PROVE  /\ UnitsIn(shipments'[k], l, w) = IF plan[k].status \in DecidedStatuses THEN alloc'[l][w] ELSE 0
               /\ UnitsIn(shipments'[k], l, w) > 0 => active[w]
    <3>1. /\ UnitsIn(shipments[k], l, w) = IF plan[k].status \in DecidedStatuses THEN alloc[l][w] ELSE 0
          /\ UnitsIn(shipments[k], l, w) > 0 => active[w]
      BY <2>1 DEF CoveredBy
    <3>2. l \in Lines
      BY LinesOfOrder
    <3>3. CASE k = o
      <4>1. plan[k].status \in DecidedStatuses
        BY <1>4, <3>3 DEF Decided, DecidedStatuses
      <4>2. alloc'[l][w] = alloc[l][w] - ItemsFrom(s, l, w)
        <5>1. alloc'[l][w] = IF w = s.warehouse THEN alloc[l][w] - s.items[l] ELSE alloc[l][w]
          BY <3>2, <3>3, DispatchStep
        <5>2. alloc[l][w] \in Nat
          BY <3>2, LineState
        <5> QED BY <5>1, <5>2 DEF ItemsFrom
      <4>3. ItemsFrom(s, l, w) \in Nat /\ UnitsIn(shipments[k], l, w) \in Nat
        <5>1. s \in ShipmentsFor(k) /\ IsShipmentBag(shipments[k], k)
          BY <3>3, DispatchStep DEF FulfillmentInv, ShipmentsAreBags, AreBags
        <5> QED BY <5>1, ShippedUnits, UnitsInAreNumbers
      <4>4. UnitsIn(shipments'[k], l, w) = UnitsIn(shipments[k], l, w) - ItemsFrom(s, l, w)
        BY <1>7, <3>3
      <4> QED BY <3>1, <4>1, <4>2, <4>3, <4>4
    <3>4. CASE k # o
      <4>1. shipments'[k] = shipments[k]
        BY <3>4, DispatchStep
      <4>2. l \notin LinesOf(o)
        BY <3>4, LinesOfOrder
      <4>3. alloc'[l][w] = alloc[l][w]
        BY <3>2, <4>2, DispatchStep
      <4> QED BY <3>1, <4>1, <4>3
    <3> QED BY <3>3, <3>4
  <2> QED BY <1>1, <2>2, ShipmentsCover DEF CoveredBy
<1> QED BY <1>5, <1>6, <1>8, <1>9, <1>10, <1>11, <1>12, <1>13, <1>14, <1>15 DEF FulfillmentInv

(* What a reservation of n units in warehouse v for the backorder of line  *)
(* l changes.                                                              *)
Reservation(l, v, n) ==
  /\ UNCHANGED <<onHand, active, stale, plan, refused, sent, shipped, invoiced, orderStatus, events, correction>>
  /\ OrderOf[l] \in Orders /\ l \in LinesOf(OrderOf[l]) /\ Decided(OrderOf[l]) /\ l \in DecidedLines
  /\ active[v] /\ n \in Nat \ {0}
  /\ alloc \in Allocations /\ alloc' \in Allocations
  /\ backorder'[l] = backorder[l] - n /\ backorder'[l] \in Nat
  /\ \A k \in Lines : k # l => backorder'[k] = backorder[k] /\ alloc'[k] = alloc[k]
                               /\ suggestion'[k] = suggestion[k]
  /\ suggestion'[l] = NoSuggestion
  /\ Units(alloc', l) = Units(alloc, l) + n
  /\ \A k \in Lines, w \in Warehouses :
       alloc'[k][w] = IF k = l /\ w = v THEN alloc[k][w] + n ELSE alloc[k][w]
  /\ RowOf(v, l) \in Rows /\ reserved[RowOf(v, l)] + n <= onHand[RowOf(v, l)]
  /\ \A r \in Rows : /\ reserved[r] \in Nat
                     /\ reserved'[r] = reserved[r] + (IF RowOf(v, l) = r THEN n ELSE 0)
  /\ reserved' \in [Rows -> Nat]
  /\ \A k \in Orders : k # OrderOf[l] => shipments'[k] = shipments[k] /\ fulfillment'[k] = fulfillment[k]

(* Consolidating a backorder makes such a reservation. *)
LEMMA ReservationStep ==
  ASSUME FulfillmentInv, NEW l \in Lines, NEW v \in Warehouses, NEW n \in 1..backorder[l],
         backorder' = [backorder EXCEPT ![l] = @ - n], ReserveForLine(l, v, n),
         suggestion' = [suggestion EXCEPT ![l] = NoSuggestion]
  PROVE  Reservation(l, v, n)
<1> DEFINE o == OrderOf[l]
<1>1. UNCHANGED <<onHand, active, stale, plan, refused, sent, shipped, invoiced, orderStatus, events, correction>>
  BY DEF ReserveForLine, handlers
<1>2. o \in Orders /\ l \in LinesOf(o) /\ backorder[l] \in Nat /\ n \in Nat \ {0}
  BY LineState
<1>3. Decided(o) /\ active[v] /\ reserved[RowOf(v, l)] + n <= onHand[RowOf(v, l)]
  BY DEF ReserveForLine
<1>4. l \in DecidedLines
  BY <1>3 DEF DecidedLines, Decided, DecidedStatuses
<1>5. alloc \in Allocations
  BY DEF FulfillmentInv, TypeOK, Allocations
<1>6. backorder'[l] = backorder[l] - n /\ backorder'[l] \in Nat
  BY <1>2 DEF FulfillmentInv, TypeOK
<1>7. \A k \in Lines : k # l => backorder'[k] = backorder[k] /\ suggestion'[k] = suggestion[k]
  BY DEF FulfillmentInv, TypeOK
<1>8. suggestion'[l] = NoSuggestion
  BY DEF FulfillmentInv, TypeOK
<1>9. alloc' = [alloc EXCEPT ![l] = [alloc[l] EXCEPT ![v] = alloc[l][v] + n]]
  BY DEF ReserveForLine
<1>10. /\ [alloc[l] EXCEPT ![v] = alloc[l][v] + n] \in [Warehouses -> Nat]
       /\ alloc[l] \in [Warehouses -> Nat] /\ alloc[l][v] \in Nat
  <2>1. alloc[l] \in [Warehouses -> Nat] /\ alloc[l][v] \in Nat
    BY <1>5 DEF Allocations
  <2>2. alloc[l][v] + n \in Nat
    BY <1>2, <2>1
  <2> QED BY <2>1, <2>2
<1>11. alloc'[l] = [alloc[l] EXCEPT ![v] = alloc[l][v] + n] /\ \A k \in Lines : k # l => alloc'[k] = alloc[k]
  BY <1>5, <1>9 DEF Allocations
<1>12. alloc' \in Allocations
  BY <1>5, <1>9, <1>10 DEF Allocations
<1>13. alloc'[l] \in [Warehouses -> Nat] /\ alloc'[l][v] = alloc[l][v] + n
       /\ \A w \in Warehouses : w # v => alloc'[l][w] = alloc[l][w]
  BY <1>10, <1>11
<1>14. Units(alloc', l) = Units(alloc, l) + n
  <2>1. Units(alloc', l) = Units(alloc, l) + alloc'[l][v] - alloc[l][v]
    BY <1>10, <1>13, UnitsMove DEF Units
  <2>2. Units(alloc, l) \in Nat
    BY LineState
  <2> QED BY <1>2, <1>10, <1>13, <2>1, <2>2
<1>15. \A k \in Lines, w \in Warehouses :
         alloc'[k][w] = IF k = l /\ w = v THEN alloc[k][w] + n ELSE alloc[k][w]
  BY <1>11, <1>13
<1>16. RowOf(v, l) \in Rows
  BY FulfillmentAssumption DEF RowOf, Rows
<1>17. ASSUME NEW r \in Rows
       PROVE  reserved[r] \in Nat /\ reserved'[r] = reserved[r] + (IF RowOf(v, l) = r THEN n ELSE 0)
  <2>1. reserved \in [Rows -> Nat] /\ reserved' = [reserved EXCEPT ![RowOf(v, l)] = @ + n]
    BY DEF FulfillmentInv, TypeOK, ReserveForLine
  <2> QED BY <1>16, <2>1
<1>18. reserved' \in [Rows -> Nat]
  <2>1. reserved \in [Rows -> Nat] /\ reserved' = [reserved EXCEPT ![RowOf(v, l)] = @ + n]
    BY DEF FulfillmentInv, TypeOK, ReserveForLine
  <2> QED BY <1>2, <1>16, <2>1
<1>19. \A k \in Orders : k # o => shipments'[k] = shipments[k] /\ fulfillment'[k] = fulfillment[k]
  BY DEF ReserveForLine, FulfillmentInv, ShipmentsAreBags, AreBags, TypeOK
<1> QED BY <1>1, <1>2, <1>3, <1>4, <1>5, <1>6, <1>7, <1>8, <1>11, <1>12, <1>14, <1>15, <1>16, <1>17, <1>18, <1>19 DEF Reservation

(* Reserving for a backorder leaves the books right. *)
LEMMA ConsolidationKeepsBooks ==
  ASSUME FulfillmentInv, NEW l \in Lines, NEW v \in Warehouses, NEW n \in 1..backorder[l],
         backorder' = [backorder EXCEPT ![l] = @ - n], ReserveForLine(l, v, n),
         suggestion' = [suggestion EXCEPT ![l] = NoSuggestion]
  PROVE  FulfillmentInv'
<1> DEFINE o == OrderOf[l]
           s == NewShipment(v, [k \in LinesOf(o) |-> IF k = l THEN n ELSE 0])
<1>0. Reservation(l, v, n)
  BY ReservationStep
<1>1. UNCHANGED <<onHand, active, stale, plan, refused, sent, shipped, invoiced, orderStatus, events, correction>>
  BY <1>0 DEF Reservation
<1>2. /\ o \in Orders /\ l \in LinesOf(o) /\ Decided(o) /\ l \in DecidedLines /\ active[v] /\ n \in Nat \ {0}
      /\ alloc \in Allocations /\ alloc' \in Allocations
  BY <1>0 DEF Reservation
<1>3. /\ backorder'[l] = backorder[l] - n /\ backorder'[l] \in Nat /\ suggestion'[l] = NoSuggestion
      /\ \A k \in Lines : k # l => backorder'[k] = backorder[k] /\ alloc'[k] = alloc[k]
                                   /\ suggestion'[k] = suggestion[k]
      /\ Units(alloc', l) = Units(alloc, l) + n
  BY <1>0 DEF Reservation
<1>4. \A k : Decided(k)' <=> Decided(k)
  BY <1>1 DEF Decided
<1>5. \A k \in Orders : k # o => shipments'[k] = shipments[k] /\ fulfillment'[k] = fulfillment[k]
  BY <1>0 DEF Reservation
<1>6. s \in ShipmentsFor(o) /\ s.warehouse = v /\ \A k \in LinesOf(o) : s.items[k] = IF k = l THEN n ELSE 0
  BY <1>2 DEF ShipmentsFor, NewShipment
<1>7. shipments'[o] = shipments[o] (+) SetToBag({s}) /\ IsShipmentBag(shipments[o], o)
  BY <1>2 DEF ReserveForLine, FulfillmentInv, ShipmentsAreBags, AreBags
<1> HIDE DEF s
<1>8. /\ IsShipmentBag(shipments'[o], o)
      /\ \A k \in LinesOf(o) : \A w : UnitsIn(shipments'[o], k, w) = UnitsIn(shipments[o], k, w) + ItemsFrom(s, k, w)
  BY <1>6, <1>7, ShipmentAdded, OneMoreShipment
<1>9. TypeOK'
  <2>1. backorder' \in [Lines -> Nat]
    <3>1. \A k \in Lines : backorder'[k] \in Nat
      BY <1>3, LineState
    <3>2. DOMAIN backorder' = Lines /\ backorder' = [k \in Lines |-> backorder'[k]]
      BY DEF FulfillmentInv, TypeOK
    <3> QED BY <3>1, <3>2
  <2>2. suggestion' \in [Lines -> [warehouse : Warehouses, qty : Nat] \cup {NoSuggestion}]
    BY DEF FulfillmentInv, TypeOK
  <2>3. alloc' \in [Lines -> [Warehouses -> Nat]]
    BY <1>2 DEF Allocations
  <2>4. fulfillment' \in [Orders -> {"UNALLOCATED", "RESERVED", "BACKORDERED",
                                     "PARTIALLY_FULFILLED", "FULFILLED"}]
    BY DEF ReserveForLine, StatusWhenReserved, FulfillmentInv, TypeOK
  <2>5. reserved' \in [Rows -> Nat]
    BY <1>0 DEF Reservation
  <2> QED BY <1>1, <2>1, <2>2, <2>3, <2>4, <2>5 DEF FulfillmentInv, TypeOK
<1>10. CorrectionsFit' /\ SentAreBags'
  BY <1>1 DEF FulfillmentInv, CorrectionsFit, SentAreBags, AreBags
<1>11. ShipmentsAreBags'
  <2>1. shipments' = [k \in Orders |-> shipments'[k]]
    BY DEF ReserveForLine, FulfillmentInv, ShipmentsAreBags, AreBags
  <2>2. \A k \in Orders : IsShipmentBag(shipments'[k], k)
    BY <1>5, <1>8 DEF FulfillmentInv, ShipmentsAreBags, AreBags
  <2> QED BY <2>1, <2>2 DEF ShipmentsAreBags, AreBags
<1>12. NothingBegun'
  BY <1>1, <1>2, <1>4, <1>5 DEF FulfillmentInv, NothingBegun
<1>13. LineConservation'
  <2> SUFFICES ASSUME NEW k \in Lines, plan[OrderOf[k]].status # "NONE"
               PROVE  Qty[k] = shipped[k] + Units(alloc', k) + backorder'[k]
    BY <1>1 DEF LineConservation
  <2>1. CASE k = l
    BY <1>2, <1>3, <2>1, LineState
  <2>2. CASE k # l
    <3>1. Units(alloc', k) = Units(alloc, k) /\ backorder'[k] = backorder[k]
      BY <1>3, <2>2 DEF Units
    <3> QED BY <3>1, LineState
  <2> QED BY <2>1, <2>2
<1>14. StatusTellsTheTruth'
  <2> SUFFICES ASSUME NEW k \in Orders, Decided(k), LinesOf(k) # {}
               PROVE  /\ fulfillment'[k] = "BACKORDERED" <=> OpenBackorders(k)'
                      /\ fulfillment'[k] = "FULFILLED" <=> \A x \in LinesOf(k) : shipped[x] = Qty[x]
    BY <1>1, <1>4 DEF StatusTellsTheTruth
  <2>1. CASE k = o
    <3>1. fulfillment'[o] = IF \E x \in LinesOf(o) : backorder'[x] > 0 THEN "BACKORDERED" ELSE "RESERVED"
      BY <1>2 DEF ReserveForLine, StatusWhenReserved, FulfillmentInv, TypeOK
    <3>2. shipped[l] # Qty[l]
      <4>1. Qty[l] = shipped[l] + Units(alloc, l) + backorder[l]
        BY <1>2, LineState DEF Decided
      <4>2. shipped[l] \in Nat /\ Units(alloc, l) \in Nat /\ backorder[l] \in Nat /\ backorder[l] >= n
        BY LineState
      <4> QED BY <1>2, <4>1, <4>2
    <3> QED BY <1>2, <2>1, <3>1, <3>2 DEF OpenBackorders
  <2>2. CASE k # o
    <3>1. \A x \in LinesOf(k) : backorder'[x] = backorder[x]
      BY <1>3, <2>2, LinesOfOrder
    <3>2. OpenBackorders(k)' <=> OpenBackorders(k)
      BY <3>1 DEF OpenBackorders
    <3> QED BY <1>5, <2>2, <3>2 DEF FulfillmentInv, StatusTellsTheTruth
  <2> QED BY <2>1, <2>2
<1>15. SuggestionsAreOwed'
  <2> SUFFICES ASSUME NEW k \in Lines, suggestion'[k] # NoSuggestion
               PROVE  /\ Decided(OrderOf[k]) /\ orderStatus[OrderOf[k]] = "OPEN"
                      /\ suggestion'[k].qty \in 1..backorder'[k]
    BY <1>1, <1>4 DEF SuggestionsAreOwed
  <2>1. k # l
    BY <1>3
  <2> QED BY <1>3, <2>1, LineState
<1>16. DispatchedOnce'
  BY <1>1, OnceSent DEF FulfillmentInv, SentBy
<1>17. StockMatchesPlans'
  <2>1. DecidedLines' = DecidedLines
    BY <1>1 DEF DecidedLines
  <2>2. ASSUME NEW w \in Warehouses, NEW p \in Products
        PROVE  reserved'[<<w, p>>] = HeldIn(DecidedLines, alloc', w, p)
    <3>1. HeldIn(DecidedLines, alloc', w, p)
            = HeldIn(DecidedLines, alloc, w, p) + (IF RowOf(v, l) = <<w, p>> THEN n ELSE 0)
      <4>1. \A k \in Lines, u \in Warehouses :
              alloc'[k][u] = IF k = l /\ u = v THEN alloc[k][u] + n ELSE alloc[k][u]
        BY <1>0 DEF Reservation
      <4> QED BY <1>2, <4>1, HeldAfterReserve
    <3>2. reserved[<<w, p>>] = HeldIn(DecidedLines, alloc, w, p)
      BY StockIsHeld DEF FulfillmentInv
    <3>3. reserved'[<<w, p>>] = reserved[<<w, p>>] + (IF RowOf(v, l) = <<w, p>> THEN n ELSE 0)
      <4>1. <<w, p>> \in Rows
        BY DEF Rows
      <4> QED BY <1>0, <4>1 DEF Reservation
    <3> QED BY <3>1, <3>2, <3>3
  <2> QED BY <2>1, <2>2, StockIsHeld
<1>18. PlannedShipmentsCovered'
  <2>1. CoveredBy(plan, alloc, shipments, active)
    BY ShipmentsCover DEF FulfillmentInv
  <2>2. ASSUME NEW k \in Orders, NEW w \in Warehouses, NEW x \in LinesOf(k)
        PROVE  /\ UnitsIn(shipments'[k], x, w) = IF plan[k].status \in DecidedStatuses THEN alloc'[x][w] ELSE 0
               /\ UnitsIn(shipments'[k], x, w) > 0 => active[w]
    <3>1. /\ UnitsIn(shipments[k], x, w) = IF plan[k].status \in DecidedStatuses THEN alloc[x][w] ELSE 0
          /\ UnitsIn(shipments[k], x, w) > 0 => active[w]
      BY <2>1 DEF CoveredBy
    <3>2. x \in Lines /\ alloc[x][w] \in Nat
      BY LinesOfOrder, LineState
    <3>3. alloc'[x][w] = IF x = l /\ w = v THEN alloc[x][w] + n ELSE alloc[x][w]
      BY <1>0, <3>2 DEF Reservation
    <3>4. CASE k = o
      <4>1. plan[k].status \in DecidedStatuses
        BY <1>2, <3>4 DEF Decided, DecidedStatuses
      <4>2. ItemsFrom(s, x, w) = IF x = l /\ w = v THEN n ELSE 0
        BY <1>6, <3>4 DEF ItemsFrom
      <4>3. UnitsIn(shipments'[k], x, w) = UnitsIn(shipments[k], x, w) + ItemsFrom(s, x, w)
        BY <1>8, <3>4
      <4> QED BY <1>2, <3>1, <3>2, <3>3, <4>1, <4>2, <4>3
    <3>5. CASE k # o
      <4>1. shipments'[k] = shipments[k] /\ x # l
        BY <1>5, <3>5, LinesOfOrder
      <4> QED BY <3>1, <3>3, <4>1
    <3> QED BY <3>4, <3>5
  <2> QED BY <1>1, <2>2, ShipmentsCover DEF CoveredBy
<1> QED BY <1>9, <1>10, <1>11, <1>12, <1>13, <1>14, <1>15, <1>16, <1>17, <1>18 DEF FulfillmentInv

-----------------------------------------------------------------------------
(* The steps that leave plans, reservations and shipments alone: stock     *)
(* moves under them, warehouses are switched where nothing is reserved,    *)
(* and suggestions come for what is owed, or go.                           *)
Reads == [row : Rows, onHand : Int, reserved : Nat, next : Nat]
Quiet ==
  /\ UNCHANGED <<reserved, plan, alloc, backorder, shipments, sent, shipped, invoiced, fulfillment>>
  /\ onHand' \in [Rows -> Int] /\ stale' \subseteq Rows
  /\ correction' \in [Corrections -> Reads \cup {NoRead}] /\ CorrectionsFit'
  /\ active' \in [Warehouses -> BOOLEAN]
  /\ \A r \in Rows : active[r[1]] /\ ~ active'[r[1]] => reserved[r] = 0
  /\ suggestion' \in [Lines -> [warehouse : Warehouses, qty : Nat] \cup {NoSuggestion}]
  /\ \A l \in Lines : suggestion'[l] # NoSuggestion =>
       /\ Decided(OrderOf[l]) /\ orderStatus'[OrderOf[l]] = "OPEN"
       /\ suggestion'[l].qty \in 1..backorder[l]
  /\ orderStatus' \in [Orders -> {"OPEN", "COMPLETED"}]
  /\ refused' \in [Orders -> BOOLEAN]
  /\ events' \subseteq Rows

(* Such a step leaves the books right. *)
LEMMA QuietKeepsBooks ==
  ASSUME FulfillmentInv, Quiet
  PROVE  FulfillmentInv'
<1>1. UNCHANGED <<reserved, plan, alloc, backorder, shipments, sent, shipped, invoiced, fulfillment>>
  BY DEF Quiet
<1>2. \A k : Decided(k)' <=> Decided(k)
  BY <1>1 DEF Decided
<1>3. TypeOK'
  BY <1>1 DEF Quiet, FulfillmentInv, TypeOK, Reads
<1>4. CorrectionsFit'
  BY DEF Quiet
<1>5. ShipmentsAreBags' /\ SentAreBags'
  BY <1>1 DEF FulfillmentInv, ShipmentsAreBags, SentAreBags, AreBags
<1>6. NothingBegun'
  BY <1>1, <1>2 DEF FulfillmentInv, NothingBegun
<1>7. LineConservation'
  BY <1>1 DEF FulfillmentInv, LineConservation, Units
<1>8. StatusTellsTheTruth'
  BY <1>1, <1>2 DEF FulfillmentInv, StatusTellsTheTruth, OpenBackorders
<1>9. SuggestionsAreOwed'
  BY <1>1, <1>2 DEF Quiet, SuggestionsAreOwed
<1>10. DispatchedOnce'
  BY <1>1, OnceSent DEF FulfillmentInv, SentBy
<1>11. StockMatchesPlans'
  <2>1. DecidedLines' = DecidedLines
    BY <1>1 DEF DecidedLines
  <2> QED BY <1>1, <2>1, StockIsHeld DEF FulfillmentInv
<1>12. PlannedShipmentsCovered'
  <2>1. CoveredBy(plan, alloc, shipments, active)
    BY ShipmentsCover DEF FulfillmentInv
  <2>2. ASSUME NEW k \in Orders, NEW w \in Warehouses, NEW l \in LinesOf(k)
        PROVE  /\ UnitsIn(shipments[k], l, w) = IF plan[k].status \in DecidedStatuses THEN alloc[l][w] ELSE 0
               /\ UnitsIn(shipments[k], l, w) > 0 => active'[w]
    <3>1. /\ UnitsIn(shipments[k], l, w) = IF plan[k].status \in DecidedStatuses THEN alloc[l][w] ELSE 0
          /\ UnitsIn(shipments[k], l, w) > 0 => active[w]
      BY <2>1 DEF CoveredBy
    <3>2. ASSUME UnitsIn(shipments[k], l, w) > 0 PROVE active'[w]
      <4>1. plan[k].status \in DecidedStatuses /\ alloc[l][w] > 0
        BY <3>1, <3>2
      <4>2. l \in Lines /\ OrderOf[l] = k /\ alloc \in Allocations /\ ProductOf[l] \in Products
        BY LinesOfOrder, FulfillmentAssumption DEF FulfillmentInv, TypeOK, Allocations
      <4>3. l \in DecidedLines
        BY <4>1, <4>2 DEF DecidedLines
      <4>4. alloc[l][w] <= HeldIn(DecidedLines, alloc, w, ProductOf[l])
        BY <4>2, <4>3, HeldByLine
      <4>5. reserved[<<w, ProductOf[l]>>] = HeldIn(DecidedLines, alloc, w, ProductOf[l])
        BY <4>2, StockIsHeld DEF FulfillmentInv
      <4>6. <<w, ProductOf[l]>> \in Rows /\ <<w, ProductOf[l]>>[1] = w
        BY <4>2 DEF Rows
      <4>7. reserved[<<w, ProductOf[l]>>] # 0
        <5>1. reserved[<<w, ProductOf[l]>>] \in Nat /\ alloc[l][w] \in Nat
          BY <4>2, <4>6 DEF FulfillmentInv, TypeOK, Allocations
        <5> QED BY <4>1, <4>4, <4>5, <5>1
      <4>8. active[w] /\ ~ active'[w] => reserved[<<w, ProductOf[l]>>] = 0
        BY <4>6 DEF Quiet
      <4>9. active'[w] \in BOOLEAN
        BY DEF Quiet
      <4> QED BY <3>1, <3>2, <4>7, <4>8, <4>9
    <3> QED BY <3>1, <3>2
  <2> QED BY <1>1, <2>2, ShipmentsCover DEF CoveredBy
<1> QED BY <1>3, <1>4, <1>5, <1>6, <1>7, <1>8, <1>9, <1>10, <1>11, <1>12 DEF FulfillmentInv

(* What is unchanged may be quiet. *)
LEMMA QuietState ==
  ASSUME FulfillmentInv
  PROVE  /\ onHand \in [Rows -> Int] /\ reserved \in [Rows -> Nat] /\ active \in [Warehouses -> BOOLEAN]
         /\ stale \subseteq Rows
         /\ correction \in [Corrections -> Reads \cup {NoRead}] /\ CorrectionsFit
         /\ suggestion \in [Lines -> [warehouse : Warehouses, qty : Nat] \cup {NoSuggestion}]
         /\ \A l \in Lines : suggestion[l] # NoSuggestion =>
              /\ Decided(OrderOf[l]) /\ orderStatus[OrderOf[l]] = "OPEN"
              /\ suggestion[l].qty \in 1..backorder[l]
         /\ orderStatus \in [Orders -> {"OPEN", "COMPLETED"}]
         /\ refused \in [Orders -> BOOLEAN]
         /\ events \subseteq Rows
BY DEF FulfillmentInv, TypeOK, SuggestionsAreOwed, Reads

(* A read that is left alone still fits. *)
LEMMA ReadsKept == ASSUME FulfillmentInv, correction' = correction PROVE CorrectionsFit'
BY DEF FulfillmentInv, CorrectionsFit

(* A refusal, and the refresh that another decision makes impossible. *)
LEMMA RefusalIsQuiet ==
  ASSUME FulfillmentInv, NEW o \in Orders, AcceptRefused(o) \/ RefreshConflict(o)
  PROVE  Quiet
<1>1. UNCHANGED <<stock, plan, alloc, backorder, suggestion, deliveries, fulfillment, orderStatus, handlers>>
  BY DEF AcceptRefused, RefreshConflict
<1>2. refused' \in [Orders -> BOOLEAN]
  BY QuietState DEF AcceptRefused, RefreshConflict
<1> QED BY <1>1, <1>2, QuietState, ReadsKept DEF Quiet, stock, deliveries, handlers

(* A completed order has nothing on backorder, so nothing is suggested for *)
(* it.                                                                     *)
LEMMA CompletionIsQuiet ==
  ASSUME FulfillmentInv, NEW o \in Orders, CompleteOrder(o)
  PROVE  Quiet
<1>1. UNCHANGED <<stock, decisions, deliveries, fulfillment, handlers>>
  BY DEF CompleteOrder
<1>2. orderStatus' \in [Orders -> {"OPEN", "COMPLETED"}] /\ \A k \in Orders : k # o => orderStatus'[k] = orderStatus[k]
  BY QuietState DEF CompleteOrder
<1>3. ASSUME NEW l \in Lines, suggestion[l] # NoSuggestion PROVE OrderOf[l] # o
  <2> SUFFICES ASSUME OrderOf[l] = o PROVE FALSE
    OBVIOUS
  <2>1. shipped[l] = Qty[l]
    BY LinesOfOrder DEF CompleteOrder
  <2>2. Decided(o) /\ suggestion[l].qty \in 1..backorder[l]
    BY <1>3, QuietState
  <2>3. Qty[l] = shipped[l] + Units(alloc, l) + backorder[l]
    BY <2>2, LineState DEF Decided
  <2>4. shipped[l] \in Nat /\ Units(alloc, l) \in Nat /\ backorder[l] \in Nat
    BY LineState
  <2> QED BY <2>1, <2>2, <2>3, <2>4
<1>4. \A l \in Lines : suggestion[l] # NoSuggestion =>
        /\ Decided(OrderOf[l]) /\ orderStatus'[OrderOf[l]] = "OPEN" /\ suggestion[l].qty \in 1..backorder[l]
  BY <1>2, <1>3, QuietState, FulfillmentAssumption
<1> QED BY <1>1, <1>2, <1>4, QuietState, ReadsKept DEF Quiet, stock, decisions, deliveries, handlers

(* Declining a suggestion removes it. *)
LEMMA DeclineIsQuiet ==
  ASSUME FulfillmentInv, NEW l \in Lines, DeclineConsolidation(l)
  PROVE  Quiet
<1>1. UNCHANGED <<stock, plan, alloc, backorder, refused, deliveries, fulfillment, orderStatus, handlers>>
  BY DEF DeclineConsolidation
<1>2. /\ suggestion' \in [Lines -> [warehouse : Warehouses, qty : Nat] \cup {NoSuggestion}]
      /\ \A k \in Lines : suggestion'[k] \in {NoSuggestion, suggestion[k]}
  BY QuietState DEF DeclineConsolidation
<1>3. \A k \in Lines : suggestion'[k] # NoSuggestion =>
        /\ Decided(OrderOf[k]) /\ orderStatus[OrderOf[k]] = "OPEN" /\ suggestion'[k].qty \in 1..backorder[k]
  BY <1>2, QuietState
<1> QED BY <1>1, <1>2, <1>3, QuietState, ReadsKept DEF Quiet, stock, deliveries, handlers

(* A receipt adds to its row. *)
LEMMA ReceiptIsQuiet ==
  ASSUME FulfillmentInv, NEW r \in Rows, ReceiveStock(r)
  PROVE  Quiet /\ Ledger!Receive
<1>1. /\ UNCHANGED <<reserved, active, stale, decisions, deliveries, fulfillment, orderStatus, correction>>
      /\ events' \subseteq Rows
  BY QuietState DEF ReceiveStock
<1>2. onHand \in [Rows -> Int] /\ onHand' = [onHand EXCEPT ![r] = @ + 1]
  BY QuietState DEF ReceiveStock
<1>3. onHand' \in [Rows -> Int] /\ \A q \in Rows : onHand'[q] >= onHand[q]
  BY <1>2
<1>4. Quiet
  BY <1>1, <1>3, QuietState, ReadsKept DEF Quiet, decisions, deliveries
<1> QED BY <1>1, <1>3, <1>4 DEF Ledger!Receive, Ledger!Rows, Rows

(* Reading a row for a correction changes nothing but what it will write. *)
LEMMA ReadIsQuiet ==
  ASSUME FulfillmentInv, NEW c \in Corrections, NEW r \in Rows, ReadStock(c, r)
  PROVE  Quiet
<1>1. UNCHANGED <<stock, decisions, deliveries, fulfillment, orderStatus, events, scan>>
  BY DEF ReadStock
<1>2. PICK d \in Deltas :
        /\ onHand[r] + d >= 0 /\ onHand[r] + d >= reserved[r]
        /\ correction' = [correction EXCEPT ![c] =
              [row |-> r, onHand |-> onHand[r], reserved |-> reserved[r], next |-> onHand[r] + d]]
  BY DEF ReadStock
<1> DEFINE read == [row |-> r, onHand |-> onHand[r], reserved |-> reserved[r], next |-> onHand[r] + d]
<1>3. onHand[r] \in Int /\ reserved[r] \in Nat /\ onHand[r] + d \in Nat
  <2>1. onHand[r] \in Int /\ reserved[r] \in Nat /\ d \in Int
    BY QuietState, FulfillmentAssumption
  <2> QED BY <1>2, <2>1
<1>4. read \in Reads /\ read.next >= read.reserved
  BY <1>2, <1>3 DEF Reads
<1> HIDE DEF read
<1>5. correction' = [correction EXCEPT ![c] = read]
  BY <1>2 DEF read
<1>6. correction' \in [Corrections -> Reads \cup {NoRead}] /\ CorrectionsFit'
  <2>1. correction \in [Corrections -> Reads \cup {NoRead}] /\ CorrectionsFit
    BY QuietState
  <2>2. correction'[c] = read /\ \A b \in Corrections : b # c => correction'[b] = correction[b]
    BY <1>5, <2>1
  <2> QED BY <1>4, <1>5, <2>1, <2>2 DEF CorrectionsFit
<1> QED BY <1>1, <1>6, QuietState DEF Quiet, stock, decisions, deliveries

(* Its write respects what is reserved, or the row is known to be outdated. *)
LEMMA WriteIsQuiet ==
  ASSUME FulfillmentInv, NEW c \in Corrections, AdjustStock(c)
  PROVE  Quiet /\ Ledger!Correct
<1> DEFINE r == correction[c].row
           next == correction[c].next
<1>1. /\ UNCHANGED <<reserved, active, decisions, deliveries, fulfillment, orderStatus, events, scan>>
      /\ onHand' = [onHand EXCEPT ![r] = next]
      /\ stale' = IF RowAsRead(c) THEN stale \ {r} ELSE stale \cup {r}
      /\ correction' = [correction EXCEPT ![c] = NoRead]
  BY DEF AdjustStock
<1>2. r \in Rows /\ next \in Nat /\ next >= correction[c].reserved
  <2>1. correction[c] \in Reads /\ correction[c].next >= correction[c].reserved
    BY QuietState DEF AdjustStock, CorrectionsFit
  <2> QED BY <2>1 DEF Reads
<1>3. RowAsRead(c) => reserved[r] = correction[c].reserved
  BY DEF RowAsRead
<1> HIDE DEF r, next
<1>4. /\ onHand' \in [Rows -> Int] /\ onHand'[r] = next /\ next >= 0
      /\ \A q \in Rows \ {r} : onHand'[q] = onHand[q]
  BY <1>1, <1>2, QuietState
<1>5. stale' \subseteq Rows
  BY <1>1, <1>2, QuietState
<1>6. correction' \in [Corrections -> Reads \cup {NoRead}] /\ CorrectionsFit'
  <2>1. correction \in [Corrections -> Reads \cup {NoRead}] /\ CorrectionsFit
    BY QuietState
  <2>2. correction'[c] = NoRead /\ \A b \in Corrections : b # c => correction'[b] = correction[b]
    BY <1>1, <2>1
  <2> QED BY <1>1, <2>1, <2>2 DEF CorrectionsFit
<1>7. Quiet
  BY <1>1, <1>4, <1>5, <1>6, QuietState DEF Quiet, decisions, deliveries
<1>8. \/ onHand'[r] >= reserved[r] /\ stale' = stale \ {r}
      \/ stale' = stale \cup {r}
  BY <1>1, <1>2, <1>3, <1>4
<1>9. Ledger!Correct
  BY <1>1, <1>2, <1>4, <1>8 DEF Ledger!Correct, Ledger!Rows, Rows
<1> QED BY <1>7, <1>9

(* A warehouse is switched off only when nothing in it is reserved. *)
LEMMA SwitchIsQuiet ==
  ASSUME FulfillmentInv, NEW w \in Warehouses, SetWarehouseActive(w)
  PROVE  Quiet
<1>1. UNCHANGED <<onHand, reserved, stale, decisions, deliveries, fulfillment, orderStatus, handlers>>
  BY DEF SetWarehouseActive
<1>2. /\ active' \in [Warehouses -> BOOLEAN] /\ \A v \in Warehouses : v # w => active'[v] = active[v]
      /\ active[w] => \A r \in Rows : r[1] = w => reserved[r] = 0
  BY QuietState DEF SetWarehouseActive
<1>3. \A r \in Rows : active[r[1]] /\ ~ active'[r[1]] => reserved[r] = 0
  BY <1>2 DEF Rows
<1> QED BY <1>1, <1>2, <1>3, QuietState, ReadsKept DEF Quiet, decisions, deliveries, handlers

(* The handler suggests what it has read again under the locks: what is    *)
(* owed.                                                                   *)
LEMMA HandlerIsQuiet ==
  ASSUME FulfillmentInv, NEW p \in Products, ProposeConsolidations(p) \/ LoseScan(p)
  PROVE  Quiet
<1>1. CASE LoseScan(p)
  BY <1>1, QuietState, ReadsKept DEF LoseScan, Quiet, stock, decisions, deliveries
<1>2. CASE ProposeConsolidations(p)
  <2> DEFINE b == Reread(p)
  <2>1. UNCHANGED <<stock, plan, alloc, refused, deliveries, fulfillment, orderStatus, events,
                    correction>>
    BY <1>2 DEF ProposeConsolidations
  <2>2. PICK s \in Sweeps(p, b) :
          /\ backorder' = [l \in Lines |-> IF l \in DOMAIN b THEN b[l] ELSE backorder[l]]
          /\ suggestion' = [l \in Lines |-> IF l \in DOMAIN b THEN s[l] ELSE suggestion[l]]
    BY <1>2 DEF ProposeConsolidations
  <2>3. \A l \in DOMAIN b : b[l] = backorder[l] /\ Eligible(l, p)
    BY DEF Reread
  <2>4. backorder' = backorder
    BY <2>2, <2>3 DEF FulfillmentInv, TypeOK
  <2>5. \A l \in DOMAIN b : s[l] \in {NoSuggestion} \cup [warehouse : Warehouses, qty : 1..b[l]]
    BY <2>2 DEF Sweeps
  <2> HIDE DEF b
  <2>6. ASSUME NEW l \in Lines
        PROVE  /\ suggestion'[l] \in [warehouse : Warehouses, qty : Nat] \cup {NoSuggestion}
               /\ suggestion'[l] # NoSuggestion =>
                    /\ Decided(OrderOf[l]) /\ orderStatus[OrderOf[l]] = "OPEN"
                    /\ suggestion'[l].qty \in 1..backorder[l]
    <3>1. CASE l \in DOMAIN b
      <4>1. suggestion'[l] = s[l] /\ b[l] = backorder[l] /\ Eligible(l, p) /\ backorder[l] \in Nat
        BY <2>2, <2>3, <3>1, LineState
      <4> QED BY <2>5, <3>1, <4>1 DEF Eligible
    <3>2. CASE l \notin DOMAIN b
      BY <2>2, <3>2, QuietState
    <3> QED BY <3>1, <3>2
  <2>7. suggestion' \in [Lines -> [warehouse : Warehouses, qty : Nat] \cup {NoSuggestion}]
    <3>1. suggestion' = [l \in Lines |-> suggestion'[l]]
      BY <2>2
    <3> QED BY <2>6, <3>1
  <2> QED BY <2>1, <2>4, <2>6, <2>7, QuietState, ReadsKept DEF Quiet, stock, deliveries
<1> QED BY <1>1, <1>2

-----------------------------------------------------------------------------
(* A proposed order is left with a proposal: as ReplanKeepsBooks has it.   *)
LEMMA ProposalKeepsBooks ==
  ASSUME FulfillmentInv, NEW o \in Orders,
         ProposePlan(o) \/ RecomputePlan(o) \/ RefreshPlan(o) \/ OverridePlan(o)
  PROVE  /\ FulfillmentInv' /\ ~ Decided(o)
         /\ \E a, manual : Replan(o, a, manual)
         /\ UNCHANGED <<stock, deliveries>>
<1>1. PICK a \in Splits(o), manual \in BOOLEAN : Replan(o, a, manual)
  BY DEF ProposePlan, RecomputePlan, RefreshPlan, OverridePlan, Recompute, BestSplits
<1>2. ~ Decided(o)
  BY DEF ProposePlan, RecomputePlan, RefreshPlan, OverridePlan, Recompute, Recomputable, Decided
<1>3. UNCHANGED <<stock, deliveries, orderStatus, handlers>> /\ (suggestion' = suggestion \/ Retire(o))
  BY DEF ProposePlan, RecomputePlan, RefreshPlan, OverridePlan, Recompute
<1>4. refused' \in [Orders -> BOOLEAN]
  BY QuietState DEF ProposePlan, RecomputePlan, RefreshPlan, OverridePlan
<1>5. /\ fulfillment' \in [Orders -> {"UNALLOCATED", "RESERVED", "BACKORDERED",
                                      "PARTIALLY_FULFILLED", "FULFILLED"}]
      /\ \A k \in Orders : k # o => fulfillment'[k] = fulfillment[k]
  <2>1. StatusWhenProposed(o) \in {"UNALLOCATED", "BACKORDERED"}
    BY DEF StatusWhenProposed
  <2>2. fulfillment' = fulfillment \/ fulfillment' = [fulfillment EXCEPT ![o] = StatusWhenProposed(o)]
    BY DEF ProposePlan, RecomputePlan, RefreshPlan, OverridePlan, Recompute
  <2> QED BY <2>1, <2>2 DEF FulfillmentInv, TypeOK
<1>6. FulfillmentInv'
  BY <1>1, <1>2, <1>3, <1>4, <1>5, ReplanKeepsBooks
<1> QED BY <1>1, <1>2, <1>3, <1>6

(* Reading the backorders changes nothing that the books are about. *)
LEMMA ScanIsQuiet ==
  ASSUME FulfillmentInv, NEW r \in Rows, ScanBackorders(r)
  PROVE  Quiet
BY QuietState, ReadsKept DEF ScanBackorders, Quiet, stock, decisions, deliveries

(* What a step of the system is. *)
LEMMA Steps ==
  ASSUME FulfillmentInv, [Next]_vars
  PROVE  \/ \E o \in Orders : ProposePlan(o) \/ RecomputePlan(o) \/ RefreshPlan(o) \/ OverridePlan(o)
         \/ \E o \in Orders : AcceptPlan(o)
         \/ \E o \in Orders : \E s \in DOMAIN shipments[o] : MarkShipped(o, s)
         \/ \E l \in Lines, w \in Warehouses : ConsolidateBackorder(l, w)
         \/ Quiet
<1>1. ASSUME UNCHANGED vars PROVE Quiet
  BY <1>1, QuietState, ReadsKept DEF Quiet, vars, stock, decisions, deliveries, handlers
<1>2. ASSUME NEW o \in Orders, AcceptRefused(o) \/ RefreshConflict(o) \/ CompleteOrder(o) PROVE Quiet
  BY <1>2, RefusalIsQuiet, CompletionIsQuiet
<1>3. ASSUME NEW l \in Lines, DeclineConsolidation(l) PROVE Quiet
  BY <1>3, DeclineIsQuiet
<1>4. ASSUME NEW r \in Rows, ReceiveStock(r) \/ ScanBackorders(r) PROVE Quiet
  BY <1>4, ReceiptIsQuiet, ScanIsQuiet
<1>5. ASSUME NEW w \in Warehouses, SetWarehouseActive(w) PROVE Quiet
  BY <1>5, SwitchIsQuiet
<1>6. ASSUME NEW p \in Products, ProposeConsolidations(p) \/ LoseScan(p) PROVE Quiet
  BY <1>6, HandlerIsQuiet
<1>7. \A o \in Orders : BagToSet(shipments[o]) = DOMAIN shipments[o]
  BY DEF BagToSet
<1>8. ASSUME NEW c \in Corrections, AdjustStock(c) \/ \E r \in Rows : ReadStock(c, r) PROVE Quiet
  BY <1>8, ReadIsQuiet, WriteIsQuiet
<1>9. ASSUME NEW o, NEW s, MarkShippedAgain(o, s) PROVE Quiet
  <2>1. UNCHANGED vars
    BY <1>9 DEF MarkShippedAgain
  <2> QED BY <1>1, <2>1
<1> QED BY <1>1, <1>2, <1>3, <1>4, <1>5, <1>6, <1>7, <1>8, <1>9 DEF Next

(* Every step keeps the invariant. *)
LEMMA StepKeepsBooks ==
  ASSUME FulfillmentInv, [Next]_vars
  PROVE  FulfillmentInv'
<1>1. ASSUME NEW o \in Orders, ProposePlan(o) \/ RecomputePlan(o) \/ RefreshPlan(o) \/ OverridePlan(o)
      PROVE  FulfillmentInv'
  BY <1>1, ProposalKeepsBooks
<1>2. ASSUME NEW o \in Orders, AcceptPlan(o) PROVE FulfillmentInv'
  BY <1>2, AcceptKeepsBooks
<1>3. ASSUME NEW o \in Orders, NEW s \in DOMAIN shipments[o], MarkShipped(o, s) PROVE FulfillmentInv'
  BY <1>3, DispatchKeepsBooks
<1>4. ASSUME NEW l \in Lines, NEW w \in Warehouses, ConsolidateBackorder(l, w) PROVE FulfillmentInv'
  <2>1. PICK n \in 1..backorder[l] :
          backorder' = [backorder EXCEPT ![l] = @ - n] /\ ReserveForLine(l, w, n)
    BY <1>4 DEF ConsolidateBackorder
  <2>2. suggestion' = [suggestion EXCEPT ![l] = NoSuggestion]
    BY <1>4 DEF ConsolidateBackorder
  <2> QED BY <2>1, <2>2, ConsolidationKeepsBooks
<1>5. ASSUME Quiet PROVE FulfillmentInv'
  BY <1>5, QuietKeepsBooks
<1> QED BY <1>1, <1>2, <1>3, <1>4, <1>5, Steps

(* The books are right before anything is planned. *)
LEMMA BooksBegin == ASSUME Init PROVE FulfillmentInv
<1>1. TypeOK
  <2>1. plan \in [Orders -> PlanRows]
    BY DEF Init, PlanRows
  <2>2. \A r \in Rows : r \in Warehouses \X Products
    BY DEF Rows
  <2> QED BY <2>1, FulfillmentAssumption DEF Init, TypeOK, PlanRows
<1>2. CorrectionsFit /\ DispatchedOnce /\ SuggestionsAreOwed
  <2>1. SentBy(shipped, sent, invoiced)
    BY NothingSent, FulfillmentAssumption DEF Init, SentBy
  <2> QED BY <2>1, OnceSent, FulfillmentAssumption DEF Init, CorrectionsFit, SuggestionsAreOwed
<1>3. \A o \in Orders : plan[o].status = "NONE" /\ shipments[o] = EmptyBag /\ ~ Decided(o)
  BY DEF Init, Decided
<1>4. ShipmentsAreBags /\ SentAreBags
  <2>1. \A o \in Orders : IsShipmentBag(EmptyBag, o)
    BY NoShipments
  <2> QED BY <2>1 DEF Init, ShipmentsAreBags, SentAreBags, AreBags
<1>5. NothingBegun
  BY <1>3, LinesOfOrder DEF Init, NothingBegun
<1>6. LineConservation /\ StatusTellsTheTruth
  BY <1>3, FulfillmentAssumption DEF LineConservation, StatusTellsTheTruth
<1>7. StockMatchesPlans
  <2> SUFFICES ASSUME NEW w \in Warehouses, NEW p \in Products
               PROVE  reserved[<<w, p>>] = HeldIn(DecidedLines, alloc, w, p)
    BY StockIsHeld
  <2> DEFINE f == [l \in Lines |-> IF ProductOf[l] = p /\ l \in DecidedLines THEN alloc[l][w] ELSE 0]
  <2>1. HeldIn(DecidedLines, alloc, w, p) = SumFunctionOnSet(f, Lines)
    BY DEF HeldIn, SumFunction
  <2>2. \A l \in Lines : f[l] = 0
    BY DEF Init
  <2> HIDE DEF f
  <2>3. SumFunctionOnSet(f, Lines) = SumFunctionOnSet(f, {})
    BY <2>2, FulfillmentAssumption, SumPart
  <2>4. reserved[<<w, p>>] = 0
    BY DEF Init, Rows
  <2> QED BY <2>1, <2>3, <2>4, SumEmpty
<1>8. PlannedShipmentsCovered
  <2>1. ASSUME NEW o \in Orders, NEW w \in Warehouses, NEW l \in LinesOf(o)
        PROVE  /\ UnitsIn(shipments[o], l, w) = IF plan[o].status \in DecidedStatuses THEN alloc[l][w] ELSE 0
               /\ UnitsIn(shipments[o], l, w) > 0 => active[w]
    BY <1>3, NoShipments DEF Decided, DecidedStatuses
  <2> QED BY <2>1, ShipmentsCover DEF CoveredBy
<1> QED BY <1>1, <1>2, <1>4, <1>5, <1>6, <1>7, <1>8 DEF FulfillmentInv

(* They stay right, whatever happens to the orders. *)
THEOREM FulfillmentInvariant == Spec => []FulfillmentInv
<1>1. Init => FulfillmentInv
  BY BooksBegin
<1>2. FulfillmentInv /\ [Next]_vars => FulfillmentInv'
  BY StepKeepsBooks
<1> QED BY <1>1, <1>2, PTL DEF Spec

(* The tables keep their types: no reservation, allocation or backorder    *)
(* goes below zero.  The units on hand may, after an outdated correction.  *)
THEOREM FulfillmentTypeCorrect == Spec => []TypeOK
<1>1. FulfillmentInv => TypeOK
  BY DEF FulfillmentInv
<1> QED BY <1>1, FulfillmentInvariant, PTL

(* Every unit of a planned line is dispatched, allocated or on backorder,  *)
(* and counted once.                                                       *)
THEOREM LinesConserved == Spec => []LineConservation
<1>1. FulfillmentInv => LineConservation
  BY DEF FulfillmentInv
<1> QED BY <1>1, FulfillmentInvariant, PTL

(* What a stock row has reserved is what decided plans hold in it.         *)
THEOREM ReservationsArePlans == Spec => []StockMatchesPlans
<1>1. FulfillmentInv => StockMatchesPlans
  BY DEF FulfillmentInv
<1> QED BY <1>1, FulfillmentInvariant, PTL

(* A dispatch that is planned can be made: its warehouse is active and     *)
(* holds what it takes.                                                    *)
THEOREM ShipmentsCovered == Spec => []PlannedShipmentsCovered
<1>1. FulfillmentInv => PlannedShipmentsCovered
  BY DEF FulfillmentInv
<1> QED BY <1>1, FulfillmentInvariant, PTL

(* The status of an order says whether something is owed or all has left.  *)
THEOREM StatusTruthful == Spec => []StatusTellsTheTruth
<1>1. FulfillmentInv => StatusTellsTheTruth
  BY DEF FulfillmentInv
<1> QED BY <1>1, FulfillmentInvariant, PTL

(* Nothing is suggested that is not owed.                                  *)
THEOREM SuggestionsOwed == Spec => []SuggestionsAreOwed
<1>1. FulfillmentInv => SuggestionsAreOwed
  BY DEF FulfillmentInv
<1> QED BY <1>1, FulfillmentInvariant, PTL

(* A shipment leaves once and is billed once, however often it is called.  *)
THEOREM ShipmentsLeaveOnce == Spec => []DispatchedOnce
<1>1. FulfillmentInv => DispatchedOnce
  BY DEF FulfillmentInv
<1> QED BY <1>1, FulfillmentInvariant, PTL

-----------------------------------------------------------------------------
(* The steps implement StockLedger: an acceptance or a consolidation       *)
(* reserves,                                                               *)
LEMMA AcceptanceReserves ==
  ASSUME FulfillmentInv, NEW o \in Orders, AcceptPlan(o)
  PROVE  Ledger!Reserve
<1>1. reserved' \in [Rows -> Nat] /\ UNCHANGED <<onHand, active, stale>>
  BY AcceptanceStep
<1>2. ASSUME NEW r \in Rows, reserved'[r] # reserved[r]
      PROVE  reserved'[r] > reserved[r] /\ reserved'[r] <= onHand[r] /\ active[r[1]]
  <2>1. /\ reserved'[r] \in Nat /\ reserved[r] <= reserved'[r] /\ reserved'[r] <= onHand[r]
        /\ active[r[1]]
    BY <1>2, AcceptanceStep
  <2>2. reserved[r] \in Nat
    BY QuietState
  <2> QED BY <1>2, <2>1, <2>2
<1> QED BY <1>1, <1>2 DEF Ledger!Reserve, Ledger!Rows, Ledger!WarehouseOf, Rows

LEMMA ConsolidationReserves ==
  ASSUME FulfillmentInv, NEW l \in Lines, NEW v \in Warehouses, NEW n, Reservation(l, v, n)
  PROVE  Ledger!Reserve
<1>1. reserved' \in [Rows -> Nat] /\ UNCHANGED <<onHand, active, stale>> /\ active[v] /\ n \in Nat \ {0}
  BY DEF Reservation
<1>2. ASSUME NEW r \in Rows, reserved'[r] # reserved[r]
      PROVE  reserved'[r] > reserved[r] /\ reserved'[r] <= onHand[r] /\ active[r[1]]
  <2>1. reserved[r] \in Nat /\ reserved'[r] = reserved[r] + (IF RowOf(v, l) = r THEN n ELSE 0)
    BY DEF Reservation
  <2>2. RowOf(v, l) = r /\ r[1] = v
    BY <1>2, <2>1 DEF RowOf
  <2>3. reserved[r] + n <= onHand[r]
    BY <2>2 DEF Reservation
  <2> QED BY <1>1, <2>1, <2>2, <2>3
<1> QED BY <1>1, <1>2 DEF Ledger!Reserve, Ledger!Rows, Ledger!WarehouseOf, Rows

(* a dispatch dispatches,                                                  *)
LEMMA DispatchDispatches ==
  ASSUME FulfillmentInv, NEW o \in Orders, NEW s \in DOMAIN shipments[o], MarkShipped(o, s)
  PROVE  Ledger!Dispatch
<1>1. reserved' \in [Rows -> Nat] /\ onHand' \in [Rows -> Int]
  BY DispatchTakes
<1>2. \A r \in Rows : /\ reserved'[r] <= reserved[r]
                      /\ onHand'[r] = onHand[r] - (reserved[r] - reserved'[r])
                      /\ reserved'[r] # reserved[r] => r[1] = s.warehouse
  BY DispatchTakes
<1>3. active' = active /\ active[s.warehouse] /\ stale' = stale
  BY DispatchStep
<1>4. onHand' = [r \in Rows |-> onHand[r] - (reserved[r] - reserved'[r])]
  BY <1>1, <1>2
<1> QED BY <1>1, <1>2, <1>3, <1>4 DEF Ledger!Dispatch, Ledger!Rows, Ledger!WarehouseOf, Rows

(* and a quiet step receives, corrects or switches a warehouse, or does    *)
(* nothing.                                                                *)
LEMMA LedgerSteps ==
  ASSUME FulfillmentInv, [Next]_vars
  PROVE  Ledger!Next \/ UNCHANGED Ledger!vars
<1>1. ASSUME NEW o \in Orders, ProposePlan(o) \/ RecomputePlan(o) \/ RefreshPlan(o) \/ OverridePlan(o)
      PROVE  UNCHANGED stock
  BY <1>1, ProposalKeepsBooks
<1>2. ASSUME NEW o \in Orders, AcceptPlan(o) PROVE Ledger!Reserve
  BY <1>2, AcceptanceReserves
<1>3. ASSUME NEW o \in Orders, NEW s \in DOMAIN shipments[o], MarkShipped(o, s) PROVE Ledger!Dispatch
  BY <1>3, DispatchDispatches
<1>4. ASSUME NEW l \in Lines, NEW w \in Warehouses, ConsolidateBackorder(l, w) PROVE Ledger!Reserve
  <2>1. PICK n \in 1..backorder[l] :
          backorder' = [backorder EXCEPT ![l] = @ - n] /\ ReserveForLine(l, w, n)
    BY <1>4 DEF ConsolidateBackorder
  <2>2. suggestion' = [suggestion EXCEPT ![l] = NoSuggestion]
    BY <1>4 DEF ConsolidateBackorder
  <2>3. Reservation(l, w, n)
    BY <2>1, <2>2, ReservationStep
  <2> QED BY <2>3, ConsolidationReserves
<1>5. /\ \A r \in Rows : ReceiveStock(r) => Ledger!Receive
      /\ \A c \in Corrections : AdjustStock(c) => Ledger!Correct
  BY ReceiptIsQuiet, WriteIsQuiet
<1>6. ASSUME NEW w \in Warehouses, SetWarehouseActive(w) PROVE Ledger!SetActive
  <2>1. Quiet /\ UNCHANGED <<onHand, reserved, stale>>
    BY <1>6, SwitchIsQuiet DEF SetWarehouseActive
  <2>2. active' \in [Warehouses -> BOOLEAN] /\ \A r \in Rows : active[r[1]] /\ ~ active'[r[1]] => reserved[r] = 0
    BY <2>1 DEF Quiet
  <2> QED BY <2>1, <2>2 DEF Ledger!SetActive, Ledger!Rows, Ledger!WarehouseOf, Rows
<1>7. ASSUME NEW o \in Orders, AcceptRefused(o) \/ RefreshConflict(o) \/ CompleteOrder(o) PROVE UNCHANGED stock
  BY <1>7 DEF AcceptRefused, RefreshConflict, CompleteOrder
<1>8. ASSUME NEW l \in Lines, DeclineConsolidation(l) PROVE UNCHANGED stock
  BY <1>8 DEF DeclineConsolidation
<1>9. /\ \A r \in Rows : ScanBackorders(r) => UNCHANGED stock
      /\ \A c \in Corrections, r \in Rows : ReadStock(c, r) => UNCHANGED stock
      /\ \A o, s : MarkShippedAgain(o, s) => UNCHANGED stock
  BY DEF ScanBackorders, ReadStock, MarkShippedAgain, vars, stock
<1>10. ASSUME NEW p \in Products, ProposeConsolidations(p) \/ LoseScan(p) PROVE UNCHANGED stock
  BY <1>10 DEF ProposeConsolidations, LoseScan
<1>11. CASE UNCHANGED vars
  BY <1>11 DEF vars, stock, Ledger!vars
<1>12. CASE Next
  <2>1. \A o \in Orders : BagToSet(shipments[o]) = DOMAIN shipments[o]
    BY DEF BagToSet
  <2>2. Ledger!Next \/ UNCHANGED stock
    BY <1>1, <1>2, <1>3, <1>4, <1>5, <1>6, <1>7, <1>8, <1>9, <1>10, <1>12, <2>1 DEF Next, Ledger!Next
  <2> QED BY <2>2 DEF stock, Ledger!vars
<1> QED BY <1>11, <1>12

(* Whatever becomes of the orders, a unit is reserved only while it is     *)
(* free, leaves only against a reservation, no warehouse is switched off   *)
(* under one, and only an outdated correction leaves less than is          *)
(* reserved.                                                               *)
THEOREM LedgerImplemented == Spec => ImplementsLedger
<1>1. Init => Ledger!Init
  BY FulfillmentAssumption DEF Init, Ledger!Init, Ledger!Rows, Rows
<1>2. FulfillmentInv /\ [Next]_vars => [Ledger!Next]_(Ledger!vars)
  BY LedgerSteps
<1> QED BY <1>1, <1>2, FulfillmentInvariant, PTL DEF Spec, ImplementsLedger, Ledger!Spec

-----------------------------------------------------------------------------
(* The steps implement LineFlow: what a line is short of and what is held  *)
(* for it,                                                                 *)
Short == [l \in Lines |-> IF Decided(OrderOf[l]) THEN backorder[l] ELSE Qty[l]]
HeldFor == [l \in Lines |-> IF Decided(OrderOf[l]) THEN Units(alloc, l) ELSE 0]

(* by lines,                                                               *)
LEMMA FlowState ==
  ASSUME FulfillmentInv, NEW l \in Lines
  PROVE  /\ Short[l] \in Nat /\ HeldFor[l] \in Nat
         /\ Decided(OrderOf[l]) => Short[l] = backorder[l] /\ HeldFor[l] = Units(alloc, l)
         /\ ~ Decided(OrderOf[l]) => Short[l] = Qty[l] /\ HeldFor[l] = 0
BY LineState DEF Short, HeldFor

(* and after the step.                                                     *)
LEMMA FlowAfter ==
  ASSUME FulfillmentInv', NEW l \in Lines
  PROVE  /\ Short'[l] \in Nat /\ HeldFor'[l] \in Nat
         /\ Decided(OrderOf[l])' => Short'[l] = backorder'[l] /\ HeldFor'[l] = Units(alloc', l)
         /\ ~ Decided(OrderOf[l])' => Short'[l] = Qty[l] /\ HeldFor'[l] = 0
<1>1. backorder'[l] \in Nat /\ alloc'[l] \in [Warehouses -> Nat] /\ Qty[l] \in Nat
  BY FulfillmentAssumption DEF FulfillmentInv, TypeOK
<1>2. Units(alloc', l) \in Nat
  BY <1>1, UnitsAreNumbers
<1> QED BY <1>1, <1>2 DEF Short, HeldFor

(* Units that a line is short of are reserved, or units held for it leave. *)
LEMMA FlowHold ==
  ASSUME FulfillmentInv', shipped' = shipped,
         \A l \in Lines : Short'[l] <= Short[l] /\ HeldFor'[l] = HeldFor[l] + Short[l] - Short'[l]
  PROVE  Flow!Hold
<1>1. Short' \in [Lines -> Nat]
  <2>1. \A l \in Lines : Short'[l] \in Nat
    BY FlowAfter
  <2> QED BY <2>1 DEF Short
<1>2. HeldFor' = [l \in Lines |-> HeldFor[l] + Short[l] - Short'[l]]
  BY DEF HeldFor
<1> QED BY <1>1, <1>2 DEF Flow!Hold, Short, HeldFor

LEMMA FlowSend ==
  ASSUME FulfillmentInv', Short' = Short,
         \A l \in Lines : HeldFor'[l] <= HeldFor[l],
         shipped' = [l \in Lines |-> shipped[l] + HeldFor[l] - HeldFor'[l]]
  PROVE  Flow!Send
<1>1. HeldFor' \in [Lines -> Nat]
  <2>1. \A l \in Lines : HeldFor'[l] \in Nat
    BY FlowAfter
  <2> QED BY <2>1 DEF HeldFor
<1> QED BY <1>1 DEF Flow!Send, Short, HeldFor

(* Each step does one of them, or neither.                                 *)
LEMMA FlowSteps ==
  ASSUME FulfillmentInv, [Next]_vars
  PROVE  Flow!Hold \/ Flow!Send \/ (UNCHANGED <<Short, HeldFor, shipped>>)
<1>0. FulfillmentInv'
  BY StepKeepsBooks
<1>1. ASSUME NEW o \in Orders, ProposePlan(o) \/ RecomputePlan(o) \/ RefreshPlan(o) \/ OverridePlan(o)
      PROVE  UNCHANGED <<Short, HeldFor, shipped>>
  <2>1. ~ Decided(o) /\ UNCHANGED <<stock, deliveries>>
    BY <1>1, ProposalKeepsBooks
  <2>2. PICK a, manual : Replan(o, a, manual)
    BY <1>1, ProposalKeepsBooks
  <2>3. plan \in [Orders -> PlanRows]
    BY DEF FulfillmentInv, TypeOK, PlanRows
  <2>4. plan'[o].status = "SUGGESTED" /\ \A k \in Orders : k # o => plan'[k] = plan[k]
    BY <2>2, <2>3 DEF Replan
  <2>5. \A k \in Orders : Decided(k)' <=> Decided(k)
    BY <2>1, <2>4 DEF Decided
  <2>6. ASSUME NEW l \in Lines PROVE Short'[l] = Short[l] /\ HeldFor'[l] = HeldFor[l]
    <3>1. CASE l \in LinesOf(o)
      <4>1. OrderOf[l] = o
        BY <3>1, LinesOfOrder
      <4> QED BY <1>0, <2>1, <2>5, <4>1, FlowState, FlowAfter
    <3>2. CASE l \notin LinesOf(o)
      <4>1. alloc'[l] = alloc[l] /\ backorder'[l] = backorder[l] /\ OrderOf[l] \in Orders
        BY <2>2, <3>2, FulfillmentAssumption DEF Replan
      <4>2. Units(alloc', l) = Units(alloc, l)
        BY <4>1 DEF Units
      <4> QED BY <1>0, <2>5, <4>1, <4>2, FlowState, FlowAfter
    <3> QED BY <3>1, <3>2
  <2>7. Short' = Short /\ HeldFor' = HeldFor
    BY <2>6 DEF Short, HeldFor
  <2> QED BY <2>1, <2>7 DEF deliveries
<1>2. ASSUME NEW o \in Orders, AcceptPlan(o) PROVE Flow!Hold
  <2>1. UNCHANGED <<alloc, backorder, shipped>>
    BY <1>2, AcceptanceStep
  <2>2. /\ ~ Decided(o) /\ plan[o].status = "SUGGESTED" /\ Decided(o)'
        /\ \A k \in Orders : k # o => plan'[k] = plan[k]
    BY <1>2, AcceptanceStep
  <2>3. ASSUME NEW l \in Lines
        PROVE  Short'[l] <= Short[l] /\ HeldFor'[l] = HeldFor[l] + Short[l] - Short'[l]
    <3>1. Short[l] \in Nat /\ HeldFor[l] \in Nat /\ OrderOf[l] \in Orders
      BY FlowState, FulfillmentAssumption
    <3>2. CASE OrderOf[l] = o
      <4>1. Qty[l] = shipped[l] + Units(alloc, l) + backorder[l] /\ shipped[l] = 0
        BY <2>2, <3>2, LineState
      <4>2. Short[l] = Qty[l] /\ HeldFor[l] = 0
        BY <2>2, <3>2, FlowState
      <4>3. Short'[l] = backorder[l] /\ HeldFor'[l] = Units(alloc, l)
        BY <1>0, <2>1, <2>2, <3>2, FlowAfter
      <4>4. Units(alloc, l) \in Nat /\ backorder[l] \in Nat /\ Qty[l] \in Nat
        BY LineState
      <4> QED BY <4>1, <4>2, <4>3, <4>4
    <3>3. CASE OrderOf[l] # o
      <4>1. Decided(OrderOf[l])' <=> Decided(OrderOf[l])
        BY <2>2, <3>1, <3>3 DEF Decided
      <4>2. Short'[l] = Short[l] /\ HeldFor'[l] = HeldFor[l]
        BY <1>0, <2>1, <4>1, FlowState, FlowAfter
      <4> QED BY <3>1, <4>2
    <3> QED BY <3>2, <3>3
  <2> QED BY <1>0, <2>1, <2>3, FlowHold
<1>3. ASSUME NEW o \in Orders, NEW s \in DOMAIN shipments[o], MarkShipped(o, s) PROVE Flow!Send
  <2>1. UNCHANGED <<plan, backorder>>
    BY <1>3, DispatchStep
  <2>2. \A l : Decided(OrderOf[l])' <=> Decided(OrderOf[l])
    BY <2>1 DEF Decided
  <2>3. Short' = Short
    BY <2>1, <2>2 DEF Short
  <2>4. ASSUME NEW l \in Lines
        PROVE  HeldFor'[l] <= HeldFor[l] /\ shipped'[l] = shipped[l] + HeldFor[l] - HeldFor'[l]
    <3>1. /\ Items(s, l) \in Nat /\ (l \notin LinesOf(o) => Items(s, l) = 0)
          /\ shipped'[l] = shipped[l] + Items(s, l) /\ Units(alloc', l) = Units(alloc, l) - Items(s, l)
      BY <1>3, DispatchStep
    <3>2. HeldFor[l] \in Nat /\ shipped[l] \in Nat
      BY FlowState, LineState
    <3>3. CASE Decided(OrderOf[l])
      <4>1. HeldFor[l] = Units(alloc, l) /\ HeldFor'[l] = Units(alloc', l)
        BY <1>0, <2>2, <3>3, FlowState, FlowAfter
      <4> QED BY <3>1, <3>2, <4>1
    <3>4. CASE ~ Decided(OrderOf[l])
      <4>1. l \notin LinesOf(o)
        BY <1>3, <3>4, LinesOfOrder, DispatchStep
      <4>2. HeldFor[l] = 0 /\ HeldFor'[l] = 0
        BY <1>0, <2>2, <3>4, FlowState, FlowAfter
      <4> QED BY <3>1, <3>2, <4>1, <4>2
    <3> QED BY <3>3, <3>4
  <2>5. shipped' = [l \in Lines |-> shipped'[l]]
    BY <1>3 DEF MarkShipped, Leave
  <2>6. shipped' = [l \in Lines |-> shipped[l] + HeldFor[l] - HeldFor'[l]]
    BY <2>4, <2>5
  <2> QED BY <1>0, <2>3, <2>4, <2>6, FlowSend
<1>4. ASSUME NEW l \in Lines, NEW w \in Warehouses, ConsolidateBackorder(l, w) PROVE Flow!Hold
  <2>1. PICK n \in 1..backorder[l] :
          backorder' = [backorder EXCEPT ![l] = @ - n] /\ ReserveForLine(l, w, n)
    BY <1>4 DEF ConsolidateBackorder
  <2>2. suggestion' = [suggestion EXCEPT ![l] = NoSuggestion]
    BY <1>4 DEF ConsolidateBackorder
  <2>3. Reservation(l, w, n)
    BY <2>1, <2>2, ReservationStep
  <2>4. plan' = plan /\ shipped' = shipped
    BY <2>3 DEF Reservation
  <2>5. \A k : Decided(OrderOf[k])' <=> Decided(OrderOf[k])
    BY <2>4 DEF Decided
  <2>6. ASSUME NEW k \in Lines
        PROVE  Short'[k] <= Short[k] /\ HeldFor'[k] = HeldFor[k] + Short[k] - Short'[k]
    <3>1. Short[k] \in Nat /\ HeldFor[k] \in Nat /\ Short'[k] \in Nat
      BY <1>0, FlowState, FlowAfter
    <3>2. CASE k = l
      <4>1. /\ Decided(OrderOf[l]) /\ backorder'[l] = backorder[l] - n /\ n \in Nat
            /\ Units(alloc', l) = Units(alloc, l) + n
        BY <2>3 DEF Reservation
      <4>2. /\ Short[k] = backorder[l] /\ HeldFor[k] = Units(alloc, l)
            /\ Short'[k] = backorder'[l] /\ HeldFor'[k] = Units(alloc', l)
        BY <1>0, <2>5, <3>2, <4>1, FlowState, FlowAfter
      <4> QED BY <3>1, <4>1, <4>2
    <3>3. CASE k # l
      <4>1. backorder'[k] = backorder[k] /\ alloc'[k] = alloc[k]
        BY <2>3, <3>3 DEF Reservation
      <4>2. Units(alloc', k) = Units(alloc, k)
        BY <4>1 DEF Units
      <4>3. Short'[k] = Short[k] /\ HeldFor'[k] = HeldFor[k]
        BY <1>0, <2>5, <4>1, <4>2, FlowState, FlowAfter
      <4> QED BY <3>1, <4>3
    <3> QED BY <3>2, <3>3
  <2> QED BY <1>0, <2>4, <2>6, FlowHold
<1>5. ASSUME Quiet PROVE UNCHANGED <<Short, HeldFor, shipped>>
  <2>1. UNCHANGED <<plan, alloc, backorder, shipped>>
    BY <1>5 DEF Quiet
  <2> QED BY <2>1 DEF Short, HeldFor, Decided, Units
<1> QED BY <1>1, <1>2, <1>3, <1>4, <1>5, Steps

(* Whatever plans, receipts and dispatches an order goes through, the      *)
(* units of its lines only move forward.                                   *)
THEOREM LineFlowImplemented == Spec => ImplementsLineFlow
<1>1. Init => Flow!Init
  BY FulfillmentAssumption DEF Init, Flow!Init, Decided
<1>2. FulfillmentInv /\ [Next]_vars => [Flow!Next]_(Flow!vars)
  <2> SUFFICES ASSUME FulfillmentInv, [Next]_vars PROVE Flow!Next \/ UNCHANGED Flow!vars
    OBVIOUS
  <2>1. CASE Flow!Hold \/ Flow!Send
    BY <2>1 DEF Flow!Next
  <2>2. CASE UNCHANGED <<Short, HeldFor, shipped>>
    BY <2>2 DEF Short, HeldFor, Flow!vars
  <2> QED BY <2>1, <2>2, FlowSteps
<1> QED BY <1>1, <1>2, FulfillmentInvariant, PTL DEF Spec, ImplementsLineFlow, Flow!Spec
================================================================================
