CONSTANTS
  Orders = {1}
  Lines = {1, 2}
  Warehouses = {1, 2}
  Products = {1}
  OrderOf <- SharedOrderOf
  ProductOf <- OneProduct
  Qty <- SharedQty
  InitialOnHand <- OneEach
  MaxOnHand <- TwoAndOne
  MaxWarehouses = 2
  ExhaustiveWarehouses = 1
  Corrections = {}
  Deltas <- OneLost
SPECIFICATION Spec
INVARIANTS PlannedShipmentsCovered DispatchedOnce StockMatchesPlans
PROPERTIES ImplementsLineFlow
