CONSTANTS
  Warehouses = {1, 2}
  Products = {1}
  Txs = {t1, t2}
  NoTx = NoTx
  Jobs <- RaceJobs
  InitialOnHand <- MCOnHand
  MaxOnHand = 3
SPECIFICATION Spec
INVARIANT NeverOversold
