\* A borrow request with two clerks writing any status, a batch, a return in flight.
SPECIFICATION SystemSpec
CONSTANTS
  c1 = c1
  c2 = c2
  Items = {i1}
  Campuses = {c1, c2}
  Home <- MCHome
  MaxOnHand = 2
  TxIds <- MCTxIds
  DirectTx = {}
  BorrowTx = {t1, t2, t3}
  Amounts = {1}
  Workers = {w1}
  Desks = {}
  Requests = {r1}
  Clerks = {k1, k2}
  EditStatuses = {"PENDING", "APPROVED", "REJECTED", "RETURNED"}
  Batches = {b1}
  NoTx = NoTx
  NoCampus = NoCampus
SYMMETRY MCSymmetry
INVARIANTS
  SystemTypeOK
  ReservedForApproved
  RequestAccounted
  StockRestoredOnce
CHECK_DEADLOCK FALSE
