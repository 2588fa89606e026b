CONSTANTS
  Orders = {1, 2}
  Lines = {1, 2}
  Warehouses = {1}
  Products = {1}
  OrderOf <- CompetingOrderOf
  ProductOf <- OneProduct
  Qty <- CompetingQty
  InitialOnHand <- OneEach
  MaxOnHand <- TwoEach
  MaxWarehouses = 1
  ExhaustiveWarehouses = 8
  Corrections = {1}
  Deltas <- OneLost
SPECIFICATION Spec
INVARIANTS TypeOK LineConservation StatusTellsTheTruth SuggestionsAreOwed
PROPERTIES ImplementsLedger
