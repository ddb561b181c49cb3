\* Two desks on an item, two returns in flight, a transaction and a batch.
SPECIFICATION SystemSpec
CONSTANTS
  c1 = c1
  c2 = c2
  Items = {i1}
  Campuses = {c1, c2}
  Home <- MCHome
  MaxOnHand = 2
  TxIds <- MCTxIds
  DirectTx = {t0}
  BorrowTx = {}
  Amounts = {1}
  Workers = {w1, w2}
  Desks = {d1, d2}
  Requests = {}
  Clerks = {}
  EditStatuses = {}
  Batches = {b1}
  NoTx = NoTx
  NoCampus = NoCampus
SYMMETRY MCSymmetry
INVARIANTS
  LedgerBalanced
  RestoredOnce
  DisposedIsInactive
PROPERTIES
  ArchivedOnlyTransferred
CHECK_DEADLOCK FALSE
