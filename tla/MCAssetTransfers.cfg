\* Two batches over two items: single- and two-line batches in both directions,
\* beside manual movements, retired balances and one return in flight.
SPECIFICATION TransferSpec
CONSTANTS
  c1 = c1
  c2 = c2
  Items = {i1, i2}
  Campuses = {c1, c2}
  Home <- MCHome
  MaxOnHand = 2
  Batches = {b1, b2}
  DirectTx = {}
  TxIds <- MCTxIds
  Amounts = {1, 2}
  Workers = {w1}
  NoTx = NoTx
  NoCampus = NoCampus
INVARIANTS
  TransfersTypeOK
  ReservationsCovered
  LedgerBalanced
  ApprovedCanBeReceived
PROPERTIES
  ImplementsCustody
CHECK_DEADLOCK FALSE
