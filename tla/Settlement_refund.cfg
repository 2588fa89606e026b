SPECIFICATION Spec
SYMMETRY Interchangeable
CONSTANTS
  d1 = d1  d2 = d2  p1 = p1  x1 = x1
  o1 = o1  o2 = o2  s1 = s1  k1 = k1  k2 = k2  k3 = k3
  Txs = {t1}
  Orders = {o1, o2}
  Subs = {s1}
  Keys = {k1, k2, k3}
  Invoices = {d1, d2, p1, x1}
  NoInvoice = NoInvoice
  Total <- MCTotal
  OrderOf <- MCOrderOf
  SubOf <- MCSubOf
  Jobs <- RefundJobs
  MaxNotes = 3
  MaxRuns = 6
INVARIANT RefundsWithinCash
CHECK_DEADLOCK FALSE
