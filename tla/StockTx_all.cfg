CONSTANTS
  Warehouses = {1, 2}
  Products = {1}
  Txs = {t1, t2}
  NoTx = NoTx
  Jobs <- AllJobs
  InitialOnHand <- MCOnHand
  MaxOnHand = 2
SPECIFICATION Spec
INVARIANTS CoveredUnlessStale TxInv
PROPERTY ImplementsLedger
