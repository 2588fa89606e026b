CONSTANTS
  Warehouses = {1, 2}
  Products = {1}
  Txs = {t1, t2, t3}
  NoTx = NoTx
  Jobs <- HierarchyJobs
  InitialOnHand <- MCOnHand
  MaxOnHand = 3
SPECIFICATION FairSpec
INVARIANTS InactiveHoldsNothing NoDeadlock
PROPERTY Terminates
