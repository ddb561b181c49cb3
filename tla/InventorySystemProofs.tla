------------------------ MODULE InventorySystemProofs ------------------------
(***************************************************************************)
(* The whole inventory keeps its books: what AssetTransfersProofs shows of *)
(* transactions and transfers survives the item handlers and the borrow    *)
(* requests running beside them, and so do the promises of those two, for  *)
(* any number of items, campuses, batches, requests and clerks.            *)
(***************************************************************************)
EXTENDS InventorySystem, AssetTransfersProofs

\* An item that has not been created has no balance rows.
AbsentHasNoBalance ==
  \A i \in Items, c \in Campuses : itemState[i] = "absent" => balance[<<i, c>>] = "absent"

\* Disposal has a path of its own: no other status change in flight writes it.
NeverToDisposed ==
  \A d \in Desks : desk[d].op = "status" => desk[d].to # "DISPOSED"

DesksTyped ==
  /\ itemStatus \in [Items -> ItemStatuses]
  /\ desk \in [Desks -> DeskJobs]

ItemsOK == DesksTyped /\ AbsentHasNoBalance /\ NeverToDisposed /\ DisposedIsInactive

InventoryInv == BooksOK /\ ItemsOK

RequestsTyped ==
  /\ request \in [Requests -> BorrowRows]
  /\ requestMoves \in [Requests -> MoveCounts]
  /\ edited \subseteq Requests
  /\ clerk \in [Clerks -> ClerkJobs]

\* The transaction linked to a request is one of its own, and took stock out.
LinkedRows ==
  \A r \in Requests : request[r].tx # NoTx =>
     request[r].tx \in BorrowTx /\ itemTx[request[r].tx].type \in OutTypes

RequestsOK == RequestsTyped /\ LinkedRows

SystemInv == InventoryInv /\ HoldingOK /\ RequestsOK

-----------------------------------------------------------------------------
(* What a desk holds.                                                      *)

LEMMA DeskJob ==
  ASSUME DesksTyped, NEW d \in Desks
  PROVE  /\ desk[d] # Idle => desk[d].item \in Items
         /\ desk[d].op \in {"idle", "adjust", "archive", "dispose", "status"}
         /\ desk[d].op # "idle" => desk[d] # Idle
         /\ desk[d].op = "adjust" => desk[d].change \in Int
         /\ desk[d].op = "status" => desk[d].to \in ItemStatuses
BY DEF DesksTyped, DeskJobs, Idle

LEMMA OpenKeeps ==
  ASSUME DesksTyped, NeverToDisposed, NEW d \in Desks, NEW job \in DeskJobs,
         job.op = "status" => job.to # "DISPOSED", Open(d, job), UNCHANGED itemStatus
  PROVE  DesksTyped' /\ NeverToDisposed'
BY DEF DesksTyped, NeverToDisposed, Open

LEMMA CloseKeeps ==
  ASSUME DesksTyped, NeverToDisposed, NEW d \in Desks, Close(d),
         itemStatus' \in [Items -> ItemStatuses]
  PROVE  DesksTyped' /\ NeverToDisposed'
<1>1. Idle \in DeskJobs /\ Idle.op = "idle"
  BY DEF DeskJobs, Idle
<1> QED BY <1>1 DEF DesksTyped, NeverToDisposed, Close

LEMMA AbsentUntouched ==
  ASSUME AbsentHasNoBalance, UNCHANGED <<itemState, balance>>
  PROVE  AbsentHasNoBalance'
BY DEF AbsentHasNoBalance

LEMMA DisposedUntouched ==
  ASSUME DisposedIsInactive, UNCHANGED <<itemState, itemStatus>>
  PROVE  DisposedIsInactive'
BY DEF DisposedIsInactive

(* Creating an item opens its home balance and nothing else.               *)
LEMMA CreateItemInv ==
  ASSUME InventoryInv, NEW i \in Items, NEW q \in 0..MaxOnHand, CreateItem(i, q)
  PROVE  InventoryInv' /\ UNCHANGED reserved
<1> USE DEF InventoryInv, BooksOK, ItemsOK, LedgerOK, LedgerTypeOK
<1> DEFINE home == <<i, Home[i]>>
<1>1. /\ itemState[i] = "absent"
      /\ itemState' = [itemState EXCEPT ![i] = "active"]
      /\ balance' = [balance EXCEPT ![home] = "active"]
      /\ quantity' = [quantity EXCEPT ![home] = q]
      /\ moved' = [moved EXCEPT ![home] = q]
      /\ UNCHANGED <<reserved, itemTx, txMoved, returning, itemStatus, desk>>
  BY DEF CreateItem, txVars
<1>2. home \in Accounts /\ q \in Nat
  BY LedgerAssumption DEF Accounts
<1>3. balance[home] = "absent"
  BY <1>1, LedgerAssumption DEF AbsentHasNoBalance
<1>4. reserved[home] = 0
  BY <1>2, <1>3 DEF LedgerSafe, AbsentIsEmpty
<1>5. AbsentHasNoBalance'
  <2> SUFFICES ASSUME NEW j \in Items, NEW c \in Campuses, itemState'[j] = "absent"
               PROVE  balance'[<<j, c>>] = "absent"
    BY DEF AbsentHasNoBalance
  <2>1. j # i /\ itemState[j] = "absent"
    BY <1>1
  <2>2. <<j, c>> # home
    BY <2>1
  <2> QED BY <1>1, <2>1, <2>2 DEF AbsentHasNoBalance, Accounts
<1> HIDE DEF home
<1>6. LedgerTypeOK'
  BY <1>1, <1>2
<1>7. ReservationsCovered' /\ LedgerBalanced' /\ AbsentIsEmpty'
  BY <1>1, <1>2, <1>4
     DEF LedgerSafe, ReservationsCovered, LedgerBalanced, AbsentIsEmpty
<1>8. TxOK'
  BY <1>1, TxUntouched DEF txVars
<1>9. DesksTyped' /\ NeverToDisposed'
  BY <1>1 DEF DesksTyped, NeverToDisposed
<1>10. DisposedIsInactive'
  BY <1>1 DEF DisposedIsInactive
<1> QED BY <1>1, <1>5, <1>6, <1>7, <1>8, <1>9, <1>10 DEF LedgerSafe

(* A request that takes a desk has only read.                              *)
LEMMA OpenInv ==
  ASSUME InventoryInv, NEW d \in Desks, NEW job \in DeskJobs,
         job.op = "status" => job.to # "DISPOSED",
         Open(d, job), UNCHANGED <<itemTxVars, itemStatus>>
  PROVE  InventoryInv' /\ UNCHANGED reserved
<1> USE DEF InventoryInv, ItemsOK
<1>1. UNCHANGED <<itemState, balance, reserved>>
  BY DEF itemTxVars, ledgerVars
<1> QED BY <1>1, BooksUntouched, OpenKeeps, AbsentUntouched, DisposedUntouched

LEMMA AbandonJobInv ==
  ASSUME InventoryInv, NEW d \in Desks, AbandonJob(d)
  PROVE  InventoryInv' /\ UNCHANGED reserved
<1> USE DEF InventoryInv, ItemsOK
<1>1. UNCHANGED <<itemTxVars, itemStatus>> /\ Close(d)
  BY DEF AbandonJob
<1>2. UNCHANGED <<itemState, balance, reserved>>
  BY <1>1 DEF itemTxVars, ledgerVars
<1>3. itemStatus' \in [Items -> ItemStatuses]
  BY <1>1 DEF DesksTyped
<1> QED BY <1>1, <1>2, <1>3, BooksUntouched, CloseKeeps, AbsentUntouched, DisposedUntouched

LEMMA CommitAdjustInv ==
  ASSUME InventoryInv, NEW d \in Desks, CommitAdjust(d)
  PROVE  InventoryInv' /\ UNCHANGED reserved
<1> USE DEF InventoryInv, BooksOK, ItemsOK
<1> DEFINE i == desk[d].item
           change == desk[d].change
<1>1. /\ desk[d].op = "adjust"
      /\ Apply(i, Home[i], change) /\ UNCHANGED itemState /\ Close(d)
      /\ UNCHANGED <<txVars, itemStatus>>
  BY DEF CommitAdjust
<1>2. i \in Items /\ change \in Int /\ Home[i] \in Campuses
  BY <1>1, DeskJob, LedgerAssumption
<1> HIDE DEF i, change
<1>3. LedgerOK'
  BY <1>1, <1>2, ApplyPreserves
<1>4. UNCHANGED <<balance, reserved>>
  BY <1>1 DEF Apply
<1>5. itemStatus' \in [Items -> ItemStatuses]
  BY <1>1 DEF DesksTyped
<1> QED BY <1>1, <1>3, <1>4, <1>5, TxUntouched, CloseKeeps, AbsentUntouched, DisposedUntouched

(* A desk that writes its item leaves the stock alone, makes no item       *)
(* absent, and disposes of it only by archiving it as well.                *)
LEMMA CommitItemInv ==
  ASSUME InventoryInv, NEW d \in Desks, desk[d] # Idle,
         NEW state \in {"active", "archived"}, NEW status \in ItemStatuses,
         itemState' = [itemState EXCEPT ![desk[d].item] = state],
         itemStatus' = [itemStatus EXCEPT ![desk[d].item] = status],
         status = "DISPOSED" => state = "archived",
         Close(d), UNCHANGED <<stockVars, txVars>>
  PROVE  InventoryInv' /\ UNCHANGED reserved
<1> USE DEF InventoryInv, BooksOK, ItemsOK
<1> DEFINE i == desk[d].item
<1>1. i \in Items
  BY DeskJob
<1>2. /\ itemState' = [itemState EXCEPT ![i] = state]
      /\ itemStatus' = [itemStatus EXCEPT ![i] = status]
  OBVIOUS
<1>3. /\ itemState \in [Items -> {"absent", "active", "archived"}]
      /\ itemStatus \in [Items -> ItemStatuses]
  BY DEF LedgerOK, LedgerTypeOK, DesksTyped
<1> HIDE DEF i
<1>4. /\ itemState' \in [Items -> {"absent", "active", "archived"}]
      /\ itemStatus' \in [Items -> ItemStatuses]
  BY <1>1, <1>2, <1>3
<1>5. LedgerOK' /\ TxOK'
  BY <1>4, UntouchedPreserves, TxUntouched
<1>6. AbsentHasNoBalance'
  BY <1>1, <1>2, <1>3 DEF AbsentHasNoBalance, stockVars
<1>7. DisposedIsInactive'
  BY <1>1, <1>2, <1>3 DEF DisposedIsInactive
<1> QED BY <1>4, <1>5, <1>6, <1>7, CloseKeeps DEF stockVars

LEMMA ItemsNextInv ==
  ASSUME InventoryInv, ItemsNext
  PROVE  InventoryInv' /\ UNCHANGED reserved
<1> USE DEF InventoryInv, ItemsOK
<1>1. ASSUME NEW i \in Items, NEW q \in 0..MaxOnHand, CreateItem(i, q)
      PROVE  InventoryInv' /\ UNCHANGED reserved
  BY <1>1, CreateItemInv
<1>2. ASSUME NEW d \in Desks, NEW i \in Items, NEW n \in 0..MaxOnHand, BeginAdjust(d, i, n)
      PROVE  InventoryInv' /\ UNCHANGED reserved
  <2> DEFINE job == [op |-> "adjust", item |-> i, change |-> n - quantity[<<i, Home[i]>>]]
  <2>1. quantity[<<i, Home[i]>>] \in Nat
    BY LedgerAssumption DEF BooksOK, LedgerOK, LedgerTypeOK, Accounts
  <2>2. job \in DeskJobs /\ job.op # "status"
    BY <2>1 DEF DeskJobs
  <2>3. Open(d, job) /\ UNCHANGED <<itemTxVars, itemStatus>>
    BY <1>2 DEF BeginAdjust
  <2> HIDE DEF job
  <2> QED BY <2>2, <2>3, OpenInv
<1>3. ASSUME NEW d \in Desks, CommitAdjust(d)
      PROVE  InventoryInv' /\ UNCHANGED reserved
  BY <1>3, CommitAdjustInv
<1>4. ASSUME NEW d \in Desks, NEW i \in Items, BeginArchive(d, i)
      PROVE  InventoryInv' /\ UNCHANGED reserved
  <2> DEFINE job == [op |-> "archive", item |-> i]
  <2>1. job \in DeskJobs /\ job.op # "status"
    BY DEF DeskJobs
  <2>2. Open(d, job) /\ UNCHANGED <<itemTxVars, itemStatus>>
    BY <1>4 DEF BeginArchive
  <2> HIDE DEF job
  <2> QED BY <2>1, <2>2, OpenInv
<1>5. ASSUME NEW d \in Desks, CommitArchive(d)
      PROVE  InventoryInv' /\ UNCHANGED reserved
  <2> DEFINE i == desk[d].item
  <2>1. /\ desk[d] # Idle
        /\ itemState' = [itemState EXCEPT ![i] = "archived"]
        /\ UNCHANGED <<stockVars, txVars, itemStatus>> /\ Close(d)
    BY <1>5, DeskJob DEF CommitArchive
  <2>2. i \in Items
    BY <2>1, DeskJob
  <2>3. itemStatus[i] \in ItemStatuses /\ itemStatus' = [itemStatus EXCEPT ![i] = itemStatus[i]]
    BY <2>1, <2>2 DEF DesksTyped
  <2> QED BY <2>1, <2>3, CommitItemInv
<1>6. ASSUME NEW d \in Desks, NEW i \in Items, BeginDispose(d, i)
      PROVE  InventoryInv' /\ UNCHANGED reserved
  <2> DEFINE job == [op |-> "dispose", item |-> i]
  <2>1. job \in DeskJobs /\ job.op # "status"
    BY DEF DeskJobs
  <2>2. Open(d, job) /\ UNCHANGED <<itemTxVars, itemStatus>>
    BY <1>6 DEF BeginDispose
  <2> HIDE DEF job
  <2> QED BY <2>1, <2>2, OpenInv
<1>7. ASSUME NEW d \in Desks, CommitDispose(d)
      PROVE  InventoryInv' /\ UNCHANGED reserved
  <2>1. /\ desk[d] # Idle
        /\ itemState' = [itemState EXCEPT ![desk[d].item] = "archived"]
        /\ itemStatus' = [itemStatus EXCEPT ![desk[d].item] = "DISPOSED"]
        /\ UNCHANGED <<stockVars, txVars>> /\ Close(d)
    BY <1>7, DeskJob DEF CommitDispose
  <2>2. "DISPOSED" \in ItemStatuses
    BY DEF ItemStatuses
  <2> QED BY <2>1, <2>2, CommitItemInv
<1>8. ASSUME NEW d \in Desks, NEW i \in Items, NEW s \in ItemStatuses \ {"DISPOSED"},
             BeginStatus(d, i, s)
      PROVE  InventoryInv' /\ UNCHANGED reserved
  <2> DEFINE job == [op |-> "status", item |-> i, to |-> s, active |-> itemState[i] = "active"]
  <2>1. (itemState[i] = "active") \in BOOLEAN
    OBVIOUS
  <2>2. job \in DeskJobs /\ job.to # "DISPOSED"
    BY <2>1 DEF DeskJobs
  <2>3. Open(d, job) /\ UNCHANGED <<itemTxVars, itemStatus>>
    BY <1>8 DEF BeginStatus
  <2> HIDE DEF job
  <2> QED BY <2>2, <2>3, OpenInv
<1>9. ASSUME NEW d \in Desks, CommitStatus(d)
      PROVE  InventoryInv' /\ UNCHANGED reserved
  <2> DEFINE state == IF desk[d].active THEN "active" ELSE "archived"
  <2>1. /\ desk[d].op = "status" /\ desk[d] # Idle
        /\ itemState' = [itemState EXCEPT ![desk[d].item] = state]
        /\ itemStatus' = [itemStatus EXCEPT ![desk[d].item] = desk[d].to]
        /\ UNCHANGED <<stockVars, txVars>> /\ Close(d)
    BY <1>9, DeskJob DEF CommitStatus
  <2>2. desk[d].to \in ItemStatuses /\ desk[d].to # "DISPOSED"
    BY <2>1, DeskJob DEF NeverToDisposed
  <2>3. state \in {"active", "archived"}
    OBVIOUS
  <2> HIDE DEF state
  <2> QED BY <2>1, <2>2, <2>3, CommitItemInv
<1>10. ASSUME NEW d \in Desks, AbandonJob(d)
       PROVE  InventoryInv' /\ UNCHANGED reserved
  BY <1>10, AbandonJobInv
<1> QED BY <1>1, <1>2, <1>3, <1>4, <1>5, <1>6, <1>7, <1>8, <1>9, <1>10 DEF ItemsNext

-----------------------------------------------------------------------------
(* The other callers of the ledger.                                        *)

LEMMA ItemTxNextItems ==
  ASSUME BooksOK, ItemsOK, ItemTxNext, UNCHANGED <<itemStatus, desk>>
  PROVE  ItemsOK'
<1> USE DEF ItemsOK, BooksOK
<1> DEFINE Retired == \E i \in Items, c \in Campuses : DeactivateBalance(i, c)
<1>1. UNCHANGED itemState /\ (UNCHANGED balance \/ Retired)
  <2>1. CASE TransactionsNext
    <3>1. ASSUME NEW t \in DirectTx, NEW ty \in OutTypes \cup {"RETURN"}, NEW i \in Items,
                 NEW c \in Campuses, NEW n \in Amounts, CreateTransaction(t, ty, i, c, n)
          PROVE  UNCHANGED <<itemState, balance>>
      BY <3>1 DEF CreateTransaction, Apply
    <3>2. ASSUME NEW w \in Workers, CommitReturn(w)
          PROVE  UNCHANGED <<itemState, balance>>
      BY <3>2 DEF CommitReturn, Apply
    <3>3. ASSUME NEW w \in Workers, AbortReturn(w) \/ \E t \in TxIds : BeginReturn(w, t)
          PROVE  UNCHANGED <<itemState, balance>>
      BY <3>3 DEF AbortReturn, BeginReturn, ledgerVars
    <3> QED BY <2>1, <3>1, <3>2, <3>3 DEF TransactionsNext
  <2>2. CASE LedgerNext
    BY <2>2 DEF LedgerNext, RecordMovement, Apply, DeactivateBalance
  <2> QED BY <2>1, <2>2 DEF ItemTxNext
<1>2. AbsentHasNoBalance'
  <2>1. CASE UNCHANGED balance
    BY <1>1, <2>1, AbsentUntouched
  <2>2. CASE Retired
    <3> PICK i \in Items, c \in Campuses : DeactivateBalance(i, c)
      BY <2>2
    <3>1. \A a \in Accounts : balance[a] = "absent" => balance'[a] = "absent"
      BY DEF DeactivateBalance, LedgerOK, LedgerTypeOK
    <3> QED BY <1>1, <3>1 DEF AbsentHasNoBalance, Accounts
  <2> QED BY <1>1, <2>1, <2>2
<1>3. DesksTyped' /\ NeverToDisposed'
  BY DEF DesksTyped, NeverToDisposed
<1> QED BY <1>1, <1>2, <1>3, DisposedUntouched

LEMMA InventoryNextInv ==
  ASSUME InventoryInv, InventoryNext
  PROVE  InventoryInv' /\ UNCHANGED reserved
<1>1. CASE ItemsNext
  BY <1>1, ItemsNextInv
<1>2. CASE ItemTxNext /\ UNCHANGED <<itemStatus, desk>>
  BY <1>2, ItemTxNextItems, TransactionsNextBooks, LedgerNextBooks
     DEF InventoryInv, ItemTxNext
<1> QED BY <1>1, <1>2 DEF InventoryNext

LEMMA InventoryUntouched ==
  ASSUME InventoryInv, UNCHANGED itemVars
  PROVE  InventoryInv'
<1>1. UNCHANGED <<itemTxVars, itemState, balance, itemStatus, desk>>
  BY DEF itemVars, itemTxVars, ledgerVars
<1> QED BY <1>1, BooksUntouched, AbsentUntouched, DisposedUntouched
        DEF InventoryInv, ItemsOK, DesksTyped, NeverToDisposed

LEMMA InitInventory == InventoryInit => InventoryInv
<1> SUFFICES ASSUME InventoryInit PROVE InventoryInv
  OBVIOUS
<1>1. BooksOK
  BY InitBooks DEF InventoryInit
<1>2. AbsentHasNoBalance
  BY DEF InventoryInit, ItemTxInit, LedgerInit, AbsentHasNoBalance, Accounts
<1>3. DesksTyped /\ NeverToDisposed /\ DisposedIsInactive
  BY DEF InventoryInit, DesksTyped, NeverToDisposed, DisposedIsInactive, DeskJobs, Idle,
         ItemStatuses
<1> QED BY <1>1, <1>2, <1>3 DEF InventoryInv, ItemsOK

(* A receipt opens destination balances only of items that exist: their    *)
(* reserved stock at the source shows it.                                  *)
LEMMA BatchNextItems ==
  ASSUME TransferInv, ItemsOK, BatchNext, UNCHANGED <<itemStatus, desk>>
  PROVE  ItemsOK'
<1> USE DEF ItemsOK, TransferInv, BooksOK
<1>1. UNCHANGED itemState
  BY DEF BatchNext, CreateBatch, ApproveBatch, RejectBatch, ReceiveBatch, itemTxVars, ledgerVars
<1>2. CASE \E b \in Batches : ReceiveBatch(b)
  <2> PICK b \in Batches : ReceiveBatch(b)
    BY <1>2
  <2> DEFINE src == batch[b].source
             dst == batch[b].destination
             lines == batch[b].lines
  <2>1. src \in Campuses /\ dst \in Campuses /\ lines \in Lines
    BY DEF HoldingOK, TransferTypeOK, BatchRows
  <2>2. TransferReserved(lines, Kept(b), src, dst)
    BY DEF ReceiveBatch
  <2> HIDE DEF src, dst, lines
  <2>3. ASSUME NEW i \in Items, i \in Named(lines)
        PROVE  itemState[i] # "absent"
    <3>1. <<i, src>> \in Accounts /\ lines[i] \in Nat /\ lines[i] > 0
      BY <2>1, <2>3 DEF Accounts, Lines, Named
    <3>2. reserved[<<i, src>>] >= lines[i] /\ reserved[<<i, src>>] \in Nat
      BY <2>2, <2>3, <3>1 DEF TransferReserved, CanConsume, LedgerOK, LedgerTypeOK
    <3>3. balance[<<i, src>>] # "absent"
      BY <3>1, <3>2 DEF LedgerOK, LedgerSafe, AbsentIsEmpty
    <3> QED BY <2>1, <3>3 DEF AbsentHasNoBalance
  <2>4. \A a \in Accounts : balance'[a] = IF a[2] = dst /\ a[1] \in Named(lines)
                                          THEN "active" ELSE balance[a]
    BY <2>2 DEF TransferReserved
  <2> QED BY <1>1, <2>3, <2>4 DEF AbsentHasNoBalance, Accounts, DesksTyped,
             NeverToDisposed, DisposedIsInactive
<1>3. CASE UNCHANGED balance
  BY <1>1, <1>3, AbsentUntouched, DisposedUntouched DEF DesksTyped, NeverToDisposed
<1>4. UNCHANGED balance \/ \E b \in Batches : ReceiveBatch(b)
  BY DEF BatchNext, CreateBatch, ApproveBatch, RejectBatch, Reserve, ReleaseReservation,
         stockVars, itemTxVars, ledgerVars
<1> QED BY <1>2, <1>3, <1>4

-----------------------------------------------------------------------------
(* The borrow requests.                                                    *)

\* A step leaves the type of every transaction row of a request.
RowsKept ==
  \A t \in BorrowTx : itemTx[t].type # "none" => itemTx'[t].type = itemTx[t].type

LEMMA ClerkJob ==
  ASSUME RequestsTyped, NEW k \in Clerks
  PROVE  /\ clerk[k] # Idle => clerk[k].on \in Requests
         /\ clerk[k].op \in {"idle", "reject", "return", "update"}
         /\ clerk[k].op # "idle" => clerk[k] # Idle
         /\ clerk[k].op = "update" => clerk[k].to \in EditStatuses
BY DEF RequestsTyped, ClerkJobs, Idle

LEMMA RequestRow ==
  ASSUME RequestsTyped, NEW r \in Requests
  PROVE  /\ request[r].item \in Items /\ request[r].campus \in Campuses
         /\ request[r].quantity \in Nat /\ request[r].returned \in BOOLEAN
         /\ request[r].tx \in TxIds \cup {NoTx}
         /\ request[r].status \in {"none", "PENDING", "APPROVED", "REJECTED", "RETURNED"}
         /\ requestMoves[r] \in MoveCounts
BY DEF RequestsTyped, BorrowRows

LEMMA FinishTyped ==
  ASSUME RequestsTyped, NEW k \in Clerks, Finish(k)
  PROVE  clerk' \in [Clerks -> ClerkJobs]
BY DEF RequestsTyped, Finish, ClerkJobs

(* No caller of the ledger other than the requests touches their rows.     *)
LEMMA InventoryKeepsRows ==
  ASSUME InventoryInv, InventoryNext
  PROVE  RowsKept
<1> USE DEF InventoryInv, BooksOK, TxOK, TxTypeOK
<1>1. CASE UNCHANGED itemTx
  BY <1>1 DEF RowsKept
<1>2. ASSUME NEW t \in DirectTx, NEW ty \in OutTypes \cup {"RETURN"}, NEW i \in Items,
             NEW c \in Campuses, NEW n \in Amounts, CreateTransaction(t, ty, i, c, n)
      PROVE  RowsKept
  BY <1>2, BorrowAssumption DEF CreateTransaction, RowsKept
<1>3. ASSUME NEW w \in Workers, CommitReturn(w)
      PROVE  RowsKept
  BY <1>3, BorrowAssumption DEF CommitReturn, RowsKept, ItemTransactionRows
<1>4. CASE ItemsNext
  BY <1>1, <1>4 DEF ItemsNext, CreateItem, BeginAdjust, CommitAdjust, BeginArchive, CommitArchive,
     BeginDispose, CommitDispose, BeginStatus, CommitStatus, AbandonJob, itemTxVars, txVars
<1>5. CASE LedgerNext
  BY <1>1, <1>5 DEF LedgerNext, txVars
<1>6. CASE TransactionsNext
  BY <1>1, <1>2, <1>3, <1>6 DEF TransactionsNext, BeginReturn, AbortReturn
<1> QED BY <1>4, <1>5, <1>6 DEF InventoryNext, ItemTxNext

LEMMA BatchKeepsRows ==
  ASSUME TransferInv, BatchNext
  PROVE  RowsKept
<1>1. CASE UNCHANGED itemTx
  BY <1>1 DEF RowsKept
<1>2. ASSUME NEW b \in Batches, ReceiveBatch(b)
      PROVE  RowsKept
  <2>1. \A i \in Issued(b) : i \in Items
    BY DEF Issued, Named
  <2> QED BY <1>2, <2>1, SystemAssumption, BorrowAssumption DEF ReceiveBatch, RowsKept
<1> QED BY <1>1, <1>2 DEF BatchNext, CreateBatch, ApproveBatch, RejectBatch, itemTxVars, txVars

LEMMA LinkedKept ==
  ASSUME LinkedRows, RowsKept, \A r \in Requests : request'[r].tx = request[r].tx
  PROVE  LinkedRows'
BY DEF LinkedRows, RowsKept, OutTypes

LEMMA RequestsUntouched ==
  ASSUME RequestsOK, RowsKept, UNCHANGED <<request, requestMoves, edited, clerk>>
  PROVE  RequestsOK'
BY LinkedKept DEF RequestsOK, RequestsTyped

(* What moving stock for a request does to the books.                      *)
LEMMA MoveForBooks ==
  ASSUME BooksOK, RequestsTyped, NEW r \in Requests, NEW t \in BorrowTx,
         NEW ty \in OutTypes \cup {"RETURN"}, NEW d \in Int, MoveFor(r, t, ty, d)
  PROVE  /\ BooksOK' /\ RowsKept
         /\ UNCHANGED <<itemState, balance, reserved, desk>>
         /\ itemTx'[t].type = ty
<1> USE DEF BooksOK
<1> DEFINE row == TxRow(ty, request[r].item, NoCampus, request[r].quantity)
<1>1. /\ itemTx[t].type = "none"
      /\ Apply(request[r].item, request[r].campus, d)
      /\ itemTx' = [itemTx EXCEPT ![t] = row]
      /\ UNCHANGED <<itemState, txMoved, returning, desk>>
  BY DEF MoveFor
<1>2. t \in TxIds
  BY BorrowAssumption
<1>3. LedgerOK'
  BY <1>1, RequestRow, ApplyPreserves
<1>4. row \in ItemTransactionRows /\ row.type = ty /\ row.campus = NoCampus
  BY RequestRow DEF TxRow, ItemTransactionRows
<1> HIDE DEF row
<1>5. TxTypeOK'
  BY <1>1, <1>2, <1>4 DEF TxOK, TxTypeOK
<1>6. ReturningOut'
  BY <1>1, <1>2, <1>4 DEF TxOK, TxTypeOK, ReturningOut, OutTypes
<1>7. RestoredOnce'
  BY <1>1, <1>2, <1>4 DEF TxOK, TxTypeOK, RestoredOnce, NetMovement, OutTypes
<1>8. RowsKept /\ itemTx'[t].type = ty
  BY <1>1, <1>2, <1>4, BorrowAssumption DEF RowsKept, TxOK, TxTypeOK
<1> QED BY <1>1, <1>3, <1>5, <1>6, <1>7, <1>8 DEF TxOK, Apply

\* The one movement an approval or a return counts.
LEMMA CountTyped ==
  ASSUME RequestsTyped, NEW r \in Requests,
         \/ requestMoves' = [requestMoves EXCEPT ![r].issued = @ + 1]
         \/ requestMoves' = [requestMoves EXCEPT ![r].received = @ + 1]
         \/ requestMoves' = [requestMoves EXCEPT ![r].restored = @ + 1]
  PROVE  requestMoves' \in [Requests -> MoveCounts]
BY DEF RequestsTyped, MoveCounts

(* The status a request writes on its item is never DISPOSED.              *)
LEMMA StatusForRequest ==
  ASSUME ItemsOK, NEW i \in Items, NEW s \in {"BORROWED", "GOOD_CONDITION"},
         SetStatus(i, s) \/ UNCHANGED itemStatus, UNCHANGED <<itemState, balance, desk>>
  PROVE  ItemsOK'
<1> USE DEF ItemsOK
<1>1. DesksTyped' /\ NeverToDisposed'
  BY DEF DesksTyped, NeverToDisposed, SetStatus, ItemStatuses
<1>2. DisposedIsInactive'
  BY DEF DisposedIsInactive, SetStatus, DesksTyped
<1> QED BY <1>1, <1>2, AbsentUntouched

(* A clerk that takes a request has only read; one that gives up, too.     *)
LEMMA TakeInv ==
  ASSUME InventoryInv, RequestsOK, NEW k \in Clerks, NEW job \in ClerkJobs, Take(k, job)
  PROVE  InventoryInv' /\ UNCHANGED reserved /\ RowsKept /\ RequestsOK'
<1>1. UNCHANGED <<itemVars, itemTx, reserved, request, requestMoves, edited>>
  BY DEF Take, itemVars, itemTxVars, txVars, ledgerVars
<1>2. clerk' \in [Clerks -> ClerkJobs]
  BY DEF Take, RequestsOK, RequestsTyped
<1>3. RowsKept
  BY <1>1 DEF RowsKept
<1> QED BY <1>1, <1>2, <1>3, InventoryUntouched, LinkedKept DEF RequestsOK, RequestsTyped

(* A clerk that only writes the request leaves the inventory alone.        *)
LEMMA WriteRequestInv ==
  ASSUME InventoryInv, RequestsOK, NEW k \in Clerks, Finish(k),
         UNCHANGED <<itemVars, requestMoves>>, edited' \subseteq Requests,
         request' \in [Requests -> BorrowRows],
         \A r \in Requests : request'[r].tx = request[r].tx
  PROVE  InventoryInv' /\ UNCHANGED reserved /\ RowsKept /\ RequestsOK'
<1>1. UNCHANGED <<itemTx, reserved>>
  BY DEF itemVars, itemTxVars, txVars, ledgerVars
<1>2. RowsKept
  BY <1>1 DEF RowsKept
<1> QED BY <1>1, <1>2, InventoryUntouched, LinkedKept, FinishTyped DEF RequestsOK, RequestsTyped

LEMMA CreateRequestInv ==
  ASSUME InventoryInv, RequestsOK, NEW r \in Requests, NEW i \in Items, NEW c \in Campuses,
         NEW n \in Amounts, CreateRequest(r, i, c, n)
  PROVE  InventoryInv' /\ UNCHANGED reserved /\ RowsKept /\ RequestsOK'
<1> DEFINE row == [status |-> "PENDING", item |-> i, campus |-> c, quantity |-> n,
                   returned |-> FALSE, tx |-> NoTx]
<1>1. request' = [request EXCEPT ![r] = row] /\ UNCHANGED <<itemVars, requestMoves, edited, clerk>>
  BY DEF CreateRequest
<1>2. UNCHANGED <<itemTx, reserved>>
  BY <1>1 DEF itemVars, itemTxVars, txVars, ledgerVars
<1>3. row \in BorrowRows /\ row.tx = NoTx
  BY TransactionAssumption DEF BorrowRows
<1> HIDE DEF row
<1>4. RequestsTyped'
  BY <1>1, <1>3 DEF RequestsOK, RequestsTyped
<1>5. LinkedRows'
  BY <1>1, <1>2, <1>3 DEF RequestsOK, RequestsTyped, LinkedRows
<1> QED BY <1>1, <1>2, <1>4, <1>5, InventoryUntouched DEF RowsKept, RequestsOK

LEMMA ApproveOutInv ==
  ASSUME InventoryInv, RequestsOK, NEW r \in Requests, NEW ty \in OutTypes, NEW t \in BorrowTx,
         ApproveOut(r, ty, t)
  PROVE  InventoryInv' /\ UNCHANGED reserved /\ RowsKept /\ RequestsOK'
<1> USE DEF InventoryInv, RequestsOK
<1>1. /\ MoveFor(r, t, ty, -request[r].quantity)
      /\ SetStatus(request[r].item, "BORROWED") \/ UNCHANGED itemStatus
      /\ request' = [request EXCEPT ![r].status = "APPROVED", ![r].tx = t]
      /\ requestMoves' = [requestMoves EXCEPT ![r].issued = @ + 1]
      /\ UNCHANGED <<edited, clerk>>
  BY DEF ApproveOut, ClaimPending
<1>2. -request[r].quantity \in Int /\ request[r].item \in Items /\ t \in TxIds
  BY RequestRow, BorrowAssumption
<1>3. /\ BooksOK' /\ RowsKept /\ UNCHANGED <<itemState, balance, reserved, desk>>
      /\ itemTx'[t].type = ty /\ requestMoves' \in [Requests -> MoveCounts]
  BY <1>1, <1>2, MoveForBooks, CountTyped
<1>4. ItemsOK'
  BY <1>1, <1>2, <1>3, StatusForRequest
<1>5. RequestsTyped'
  <2> DEFINE row == [request[r] EXCEPT !.status = "APPROVED", !.tx = t]
  <2>1. row \in BorrowRows
    BY <1>2 DEF RequestsTyped, BorrowRows
  <2>2. request' = [request EXCEPT ![r] = row]
    BY <1>1, <1>2 DEF RequestsTyped
  <2> HIDE DEF row
  <2> QED BY <1>1, <1>3, <2>1, <2>2 DEF RequestsTyped
<1>6. LinkedRows'
  BY <1>1, <1>2, <1>3 DEF LinkedRows, RowsKept, RequestsTyped, BorrowRows, OutTypes
<1> QED BY <1>3, <1>4, <1>5, <1>6

\* A request that is closed keeps its transaction.
LEMMA CloseTyped ==
  ASSUME RequestsTyped, NEW r \in Requests,
         request' = [request EXCEPT ![r].status = "RETURNED", ![r].returned = TRUE]
  PROVE  /\ request' \in [Requests -> BorrowRows]
         /\ \A x \in Requests : request'[x].tx = request[x].tx
BY DEF RequestsTyped, BorrowRows

LEMMA ApproveReturnInv ==
  ASSUME InventoryInv, RequestsOK, NEW r \in Requests, NEW t \in BorrowTx, ApproveReturn(r, t)
  PROVE  InventoryInv' /\ UNCHANGED reserved /\ RowsKept /\ RequestsOK'
<1> USE DEF InventoryInv, RequestsOK
<1>1. /\ MoveFor(r, t, "RETURN", request[r].quantity)
      /\ request' = [request EXCEPT ![r].status = "RETURNED", ![r].returned = TRUE]
      /\ requestMoves' = [requestMoves EXCEPT ![r].received = @ + 1]
      /\ UNCHANGED <<itemStatus, edited, clerk>>
  BY DEF ApproveReturn, ClaimPending
<1>2. request[r].quantity \in Int /\ request[r].item \in Items
  BY RequestRow
<1>3. /\ BooksOK' /\ RowsKept /\ UNCHANGED <<itemState, balance, reserved, desk>>
      /\ requestMoves' \in [Requests -> MoveCounts]
  BY <1>1, <1>2, MoveForBooks, CountTyped
<1>4. ItemsOK'
  BY <1>1, <1>2, <1>3, StatusForRequest
<1>5. RequestsTyped' /\ \A x \in Requests : request'[x].tx = request[x].tx
  BY <1>1, <1>3, CloseTyped DEF RequestsTyped
<1> QED BY <1>3, <1>4, <1>5, LinkedKept

LEMMA CommitReturnIssueInv ==
  ASSUME InventoryInv, RequestsOK, NEW k \in Clerks, NEW t \in BorrowTx, CommitReturnIssue(k, t)
  PROVE  InventoryInv' /\ UNCHANGED reserved /\ RowsKept /\ RequestsOK'
<1> USE DEF InventoryInv, RequestsOK
<1> DEFINE r == clerk[k].on
<1>1. /\ clerk[k].op = "return" /\ Finish(k)
      /\ MoveFor(r, t, "RETURN", request[r].quantity)
      /\ request' = [request EXCEPT ![r].status = "RETURNED", ![r].returned = TRUE]
      /\ requestMoves' = [requestMoves EXCEPT ![r].restored = @ + 1]
      /\ SetStatus(request[r].item, "GOOD_CONDITION") /\ UNCHANGED edited
  BY DEF CommitReturnIssue, ClaimReturn
<1>2. r \in Requests
  BY <1>1, ClerkJob
<1> HIDE DEF r
<1>3. request[r].quantity \in Int /\ request[r].item \in Items
  BY <1>2, RequestRow
<1>4. /\ BooksOK' /\ RowsKept /\ UNCHANGED <<itemState, balance, reserved, desk>>
      /\ requestMoves' \in [Requests -> MoveCounts]
  BY <1>1, <1>2, <1>3, MoveForBooks, CountTyped
<1>5. ItemsOK'
  BY <1>1, <1>3, <1>4, StatusForRequest
<1>6. RequestsTyped' /\ \A x \in Requests : request'[x].tx = request[x].tx
  BY <1>1, <1>2, <1>4, FinishTyped, CloseTyped DEF RequestsTyped
<1> QED BY <1>4, <1>5, <1>6, LinkedKept

LEMMA RequestsNextInv ==
  ASSUME InventoryInv, RequestsOK, RequestsNext
  PROVE  InventoryInv' /\ UNCHANGED reserved /\ RowsKept /\ RequestsOK'
<1> DEFINE Goal == InventoryInv' /\ UNCHANGED reserved /\ RowsKept /\ RequestsOK'
<1> USE DEF RequestsOK
<1>1. ASSUME NEW k \in Clerks, NEW r \in Requests, BeginReject(k, r)
      PROVE  Goal
  <2>1. [op |-> "reject", on |-> r] \in ClerkJobs
    BY DEF ClerkJobs
  <2> QED BY <1>1, <2>1, TakeInv DEF BeginReject
<1>2. ASSUME NEW k \in Clerks, NEW r \in Requests, BeginMarkReturned(k, r)
      PROVE  Goal
  <2> DEFINE ty == IF request[r].tx = NoTx THEN "ISSUANCE" ELSE itemTx[request[r].tx].type
  <2>1. ty \in OutTypes
    BY DEF LinkedRows, OutTypes
  <2>2. [op |-> "return", on |-> r, type |-> ty] \in ClerkJobs
    BY <2>1 DEF ClerkJobs
  <2> QED BY <1>2, <2>2, TakeInv DEF BeginMarkReturned
<1>3. ASSUME NEW k \in Clerks, NEW r \in Requests, NEW s \in EditStatuses, BeginUpdate(k, r, s)
      PROVE  Goal
  <2>1. [op |-> "update", on |-> r, to |-> s] \in ClerkJobs
    BY DEF ClerkJobs
  <2> QED BY <1>3, <2>1, TakeInv DEF BeginUpdate
<1>4. ASSUME NEW k \in Clerks, NEW s \in {"REJECTED"} \cup EditStatuses, clerk[k] # Idle,
             request' = [request EXCEPT ![clerk[k].on].status = s],
             Finish(k), UNCHANGED <<itemVars, requestMoves>>, edited' \subseteq Requests
      PROVE  Goal
  <2>1. s \in {"none", "PENDING", "APPROVED", "REJECTED", "RETURNED"}
    BY BorrowAssumption
  <2>2. /\ request' \in [Requests -> BorrowRows]
        /\ \A r \in Requests : request'[r].tx = request[r].tx
    BY <1>4, <2>1, ClerkJob DEF RequestsTyped, BorrowRows
  <2> QED BY <1>4, <2>2, WriteRequestInv
<1>5. ASSUME NEW k \in Clerks, CommitCloseWithdrawal(k)
      PROVE  Goal
  <2>1. /\ clerk[k] # Idle
        /\ request' = [request EXCEPT ![clerk[k].on].status = "RETURNED",
                                      ![clerk[k].on].returned = TRUE]
        /\ Finish(k) /\ UNCHANGED <<itemVars, requestMoves>> /\ edited' \subseteq Requests
    BY <1>5, ClerkJob DEF RequestsTyped, CommitCloseWithdrawal, ClaimReturn
  <2>2. /\ request' \in [Requests -> BorrowRows]
        /\ \A r \in Requests : request'[r].tx = request[r].tx
    BY <2>1, ClerkJob DEF RequestsTyped, BorrowRows
  <2> QED BY <2>1, <2>2, WriteRequestInv
<1>6. ASSUME NEW k \in Clerks, AbandonClerk(k)
      PROVE  Goal
  BY <1>6, WriteRequestInv DEF AbandonClerk, RequestsTyped
<1>7. ASSUME NEW k \in Clerks, CommitReject(k) \/ CommitUpdate(k)
      PROVE  Goal
  <2>1. clerk[k] # Idle /\ clerk[k].on \in Requests
    BY <1>7, ClerkJob DEF CommitReject, CommitUpdate
  <2>2. Finish(k) /\ UNCHANGED <<itemVars, requestMoves>> /\ edited' \subseteq Requests
    BY <1>7, <2>1 DEF RequestsTyped, CommitReject, CommitUpdate
  <2>3. \E s \in {"REJECTED"} \cup EditStatuses :
           request' = [request EXCEPT ![clerk[k].on].status = s]
    BY <1>7, ClerkJob DEF CommitReject, CommitUpdate
  <2> QED BY <1>4, <2>1, <2>2, <2>3
<1>8. ASSUME NEW r \in Requests, NEW i \in Items, NEW c \in Campuses, NEW n \in Amounts,
             CreateRequest(r, i, c, n)
      PROVE  Goal
  BY <1>8, CreateRequestInv
<1>9. ASSUME NEW r \in Requests, NEW ty \in OutTypes, NEW t \in BorrowTx, ApproveOut(r, ty, t)
      PROVE  Goal
  BY <1>9, ApproveOutInv
<1>10. ASSUME NEW r \in Requests, NEW t \in BorrowTx, ApproveReturn(r, t)
       PROVE  Goal
  BY <1>10, ApproveReturnInv
<1>11. ASSUME NEW k \in Clerks, NEW t \in BorrowTx, CommitReturnIssue(k, t)
       PROVE  Goal
  BY <1>11, CommitReturnIssueInv
<1> QED BY <1>1, <1>2, <1>3, <1>5, <1>6, <1>7, <1>8, <1>9, <1>10, <1>11 DEF RequestsNext

-----------------------------------------------------------------------------
(* The invariant holds in every reachable state.                           *)

LEMMA SystemNextInv ==
  ASSUME SystemInv, SystemNext
  PROVE  SystemInv' /\ RowsKept
<1> USE DEF SystemInv
<1>1. CASE RequestsNext /\ UNCHANGED batch
  BY <1>1, RequestsNextInv, HoldingUntouched
<1>2. CASE InventoryNext /\ UNCHANGED <<request, requestMoves, edited, clerk, batch>>
  BY <1>2, InventoryNextInv, InventoryKeepsRows, RequestsUntouched, HoldingUntouched
<1>3. CASE BatchNext /\ UNCHANGED <<itemStatus, desk, request, requestMoves, edited, clerk>>
  BY <1>3, BatchNextInv, BatchNextItems, BatchKeepsRows, RequestsUntouched
     DEF InventoryInv, TransferInv
<1> QED BY <1>1, <1>2, <1>3 DEF SystemNext, BorrowNext

LEMMA SystemUntouched ==
  ASSUME SystemInv, UNCHANGED systemVars
  PROVE  SystemInv' /\ RowsKept
<1>1. UNCHANGED <<itemVars, batch, request, requestMoves, edited, clerk, reserved, itemTx>>
  BY DEF systemVars, borrowVars, itemVars, itemTxVars, ledgerVars, txVars
<1>2. RowsKept
  BY <1>1 DEF RowsKept
<1> QED BY <1>1, <1>2, InventoryUntouched, HoldingUntouched, RequestsUntouched DEF SystemInv

LEMMA InitSystem == SystemInit => SystemInv
<1> SUFFICES ASSUME SystemInit PROVE SystemInv
  OBVIOUS
<1>1. InventoryInv /\ HoldingOK
  BY InitInventory, InitHolding DEF SystemInit, BorrowInit, InventoryInit, ItemTxInit
<1>2. AbsentRequest \in BorrowRows /\ AbsentRequest.tx = NoTx
  BY LedgerAssumption DEF AbsentRequest, BorrowRows
<1>3. RequestsOK
  BY <1>2 DEF SystemInit, BorrowInit, RequestsOK, RequestsTyped, LinkedRows, ClerkJobs,
         MoveCounts, NoMoves
<1> QED BY <1>1, <1>3 DEF SystemInv

THEOREM SystemInvariance == SystemSpec => []SystemInv
<1>1. SystemInv /\ [SystemNext]_systemVars => SystemInv'
  BY SystemNextInv, SystemUntouched
<1> QED BY InitSystem, <1>1, PTL DEF SystemSpec

(* The same of the items and the transactions without transfers.           *)
THEOREM InventoryInvariance == InventorySpec => []InventoryInv
<1>1. InventoryInv /\ [InventoryNext]_itemVars => InventoryInv'
  BY InventoryNextInv, InventoryUntouched
<1> QED BY InitInventory, <1>1, PTL DEF InventorySpec

(* Every table of the inventory keeps its type, whatever runs beside it.   *)
THEOREM SystemTypes == SystemSpec => []SystemTypeOK
<1>1. SystemInv => SystemTypeOK
  BY DEF SystemInv, InventoryInv, BooksOK, LedgerOK, TxOK, ItemsOK, DesksTyped, HoldingOK,
         RequestsOK, RequestsTyped, SystemTypeOK, BorrowTypeOK, ItemsTypeOK
<1> QED BY <1>1, SystemInvariance, PTL

(* Reservations stay exact while borrow requests move the same stock and   *)
(* items are archived under the batches.                                   *)
THEOREM SystemReservations == SystemSpec => []ReservedForApproved
<1>1. SystemInv => ReservedForApproved
  BY DEF SystemInv, HoldingOK
<1> QED BY <1>1, SystemInvariance, PTL

(* Stock equals its recorded movements, and is never less than what is     *)
(* reserved, with every caller of the ledger running.                      *)
THEOREM SystemBooks == SystemSpec => [](LedgerBalanced /\ ReservationsCovered)
<1>1. SystemInv => LedgerBalanced /\ ReservationsCovered
  BY DEF SystemInv, InventoryInv, BooksOK, LedgerOK, LedgerSafe
<1> QED BY <1>1, SystemInvariance, PTL

(* What approval promised is there at receipt also when items are adjusted *)
(* and archived, and borrow requests take stock, in between.               *)
THEOREM SystemPromises == SystemSpec => []ApprovedCanBeReceived
<1>1. SystemInv => ApprovedCanBeReceived
  BY HeldCanBeReceived DEF SystemInv, InventoryInv, TransferInv
<1> QED BY <1>1, SystemInvariance, PTL

(* No interleaving of the item handlers leaves a disposed item in use, nor *)
(* does a borrow request that writes the item's status.                    *)
THEOREM DisposedStaysOut == SystemSpec => []DisposedIsInactive
<1>1. SystemInv => DisposedIsInactive
  BY DEF SystemInv, InventoryInv, ItemsOK
<1> QED BY <1>1, SystemInvariance, PTL

(* The books stay balanced under the item handlers, which decide on what   *)
(* they read earlier, and a return in flight restores stock at most once   *)
(* whatever happened to its item meanwhile.                                *)
THEOREM ItemBooks == InventorySpec => [](LedgerBalanced /\ RestoredOnce)
<1>1. InventoryInv => LedgerBalanced /\ RestoredOnce
  BY DEF InventoryInv, BooksOK, LedgerOK, LedgerSafe, TxOK
<1> QED BY <1>1, InventoryInvariance, PTL

-----------------------------------------------------------------------------
(* The stock of archived items.                                            *)

\* What the ledger's update refuses to touch.
Frozen(i) == \A c \in Campuses : UNCHANGED <<quantity[<<i, c>>], moved[<<i, c>>]>>

LEMMA ApplyFreezes ==
  ASSUME LedgerTypeOK, NEW i \in Items, itemState[i] = "archived",
         NEW j, NEW c, NEW d, Apply(j, c, d)
  PROVE  Frozen(i)
<1>1. j # i
  BY DEF Apply, Usable
<1>2. \A k \in Campuses : <<i, k>> # <<j, c>> /\ <<i, k>> \in Accounts
  BY <1>1 DEF Accounts
<1> QED BY <1>2 DEF Apply, Frozen, LedgerTypeOK

LEMMA InventoryFreezes ==
  ASSUME InventoryInv, InventoryNext, NEW i \in Items, itemState[i] = "archived"
  PROVE  Frozen(i)
<1>0. LedgerTypeOK
  BY DEF InventoryInv, BooksOK, LedgerOK
<1>1. CASE UNCHANGED <<quantity, moved>>
  BY <1>1 DEF Frozen
<1>2. CASE \E j, c, d : Apply(j, c, d)
  BY <1>0, <1>2, ApplyFreezes
<1>3. CASE ItemsNext
  <2>1. ASSUME NEW j \in Items, NEW q \in 0..MaxOnHand, CreateItem(j, q)
        PROVE  Frozen(i)
    <3>1. j # i
      BY <2>1 DEF CreateItem
    <3>2. \A k \in Campuses : <<i, k>> # <<j, Home[j]>> /\ <<i, k>> \in Accounts
      BY <3>1 DEF Accounts
    <3> QED BY <1>0, <2>1, <3>2 DEF CreateItem, Frozen, LedgerTypeOK
  <2>2. ASSUME NEW d \in Desks, CommitAdjust(d)
        PROVE  Frozen(i)
    BY <1>2, <2>2 DEF CommitAdjust
  <2> QED BY <1>1, <1>3, <2>1, <2>2 DEF ItemsNext, BeginAdjust, BeginArchive, CommitArchive,
     BeginDispose, CommitDispose, BeginStatus, CommitStatus, AbandonJob, itemTxVars, ledgerVars,
     stockVars
<1>4. CASE TransactionsNext
  <2>1. ASSUME NEW t \in DirectTx, NEW ty \in OutTypes \cup {"RETURN"}, NEW j \in Items,
               NEW c \in Campuses, NEW n \in Amounts, CreateTransaction(t, ty, j, c, n)
        PROVE  Frozen(i)
    BY <1>2, <2>1 DEF CreateTransaction
  <2>2. ASSUME NEW w \in Workers, CommitReturn(w)
        PROVE  Frozen(i)
    BY <1>2, <2>2 DEF CommitReturn
  <2> QED BY <1>1, <1>4, <2>1, <2>2 DEF TransactionsNext, BeginReturn, AbortReturn, ledgerVars
<1>5. CASE LedgerNext
  BY <1>1, <1>2, <1>5 DEF LedgerNext, RecordMovement, DeactivateBalance
<1> QED BY <1>3, <1>4, <1>5 DEF InventoryNext, ItemTxNext

(* Without transfers, no step moves stock of an archived item: what began  *)
(* while the item was active is refused when it commits after.             *)
THEOREM ArchivedStaysFrozen == InventorySpec => ArchivedFrozen
<1> DEFINE Step == \A i \in Items : itemState[i] = "archived" =>
             \A c \in Campuses : UNCHANGED <<quantity[<<i, c>>], moved[<<i, c>>]>>
<1>1. InventoryInv /\ [InventoryNext]_itemVars => [Step]_itemVars
  BY InventoryFreezes DEF Frozen
<1> QED BY <1>1, InventoryInvariance, PTL DEF InventorySpec, ArchivedFrozen

(* Neither the clerks nor the desks get past the ledger's check.           *)
LEMMA RequestsFreeze ==
  ASSUME SystemInv, RequestsNext, NEW i \in Items, itemState[i] = "archived"
  PROVE  Frozen(i)
<1>1. LedgerTypeOK
  BY DEF SystemInv, InventoryInv, BooksOK, LedgerOK
<1>2. CASE UNCHANGED <<quantity, moved>>
  BY <1>2 DEF Frozen
<1>3. ASSUME NEW r, NEW t, NEW ty, NEW d, MoveFor(r, t, ty, d)
      PROVE  Frozen(i)
  BY <1>1, <1>3, ApplyFreezes DEF MoveFor
<1> QED BY <1>2, <1>3 DEF RequestsNext, CreateRequest, ApproveOut, ApproveReturn, BeginReject,
     CommitReject, BeginMarkReturned, CommitReturnIssue, CommitCloseWithdrawal, BeginUpdate,
     CommitUpdate, AbandonClerk, Take, itemVars, itemTxVars, ledgerVars, stockVars

\* What ArchivedOnlyTransferred allows a step to do to item i.
OnlyMoved(i) ==
  /\ OnHand(i)' = OnHand(i)
  /\ \A c \in Campuses :
       quantity'[<<i, c>>] # quantity[<<i, c>>] =>
         \E b \in Batches : /\ batch[b].status = "APPROVED"
                            /\ batch'[b].status = "COMPLETED"
                            /\ c \in {batch[b].source, batch[b].destination}

\* The stock of the items, now and after a step, as sums of balances.
OnHandIsStock == \A i \in Items : OnHand(i) = StockOf(quantity, i)

LEMMA OnHandBoth == OnHandIsStock /\ OnHandIsStock'
<1>1. OnHandIsStock
  BY DEF OnHandIsStock, OnHand, StockOf
<1> QED BY <1>1, PTL

LEMMA FrozenOnlyMoved ==
  ASSUME SystemInv, SystemInv', NEW i \in Items, Frozen(i)
  PROVE  OnlyMoved(i)
<1>1. quantity \in [Accounts -> Int] /\ quantity' \in [Accounts -> Int]
  BY DEF SystemInv, InventoryInv, BooksOK, LedgerOK, LedgerTypeOK
<1>2. StockOf(quantity', i) = StockOf(quantity, i)
  BY <1>1, StockSame DEF Frozen
<1>3. OnHand(i) = StockOf(quantity, i) /\ OnHand(i)' = StockOf(quantity', i)
  BY OnHandBoth DEF OnHandIsStock
<1> QED BY <1>2, <1>3 DEF OnlyMoved, Frozen

(* The receipt of a batch issues no archived item, so what leaves the      *)
(* source arrives at the destination.                                      *)
LEMMA ReceiptOnlyMoves ==
  ASSUME SystemInv, SystemInv', NEW i \in Items, itemState[i] = "archived",
         NEW b \in Batches, ReceiveBatch(b)
  PROVE  OnlyMoved(i)
<1>1. /\ batch \in [Batches -> BatchRows] /\ batch[b].lines \in Lines
      /\ batch[b].source \in Campuses /\ batch[b].destination \in Campuses
  BY DEF SystemInv, HoldingOK, TransferTypeOK, BatchRows
<1>2. /\ quantity \in [Accounts -> Int] /\ quantity' \in [Accounts -> Int]
      /\ \A c \in Campuses : <<i, c>> \in Accounts
  BY DEF SystemInv, InventoryInv, BooksOK, LedgerOK, LedgerTypeOK, Accounts
<1>3. i \notin Issued(b)
  BY DEF ReceiveBatch, CanIssueOnArrival
<1>4. PICK n \in Int : n = batch[b].lines[i] /\ n = Kept(b)[i]
  BY <1>1, <1>3 DEF Lines, Kept
<1>5. /\ batch[b].source # batch[b].destination
      /\ \A c \in Campuses : quantity'[<<i, c>>] = quantity[<<i, c>>]
           + (IF c = batch[b].source THEN -n ELSE IF c = batch[b].destination THEN n ELSE 0)
  BY <1>2, <1>4 DEF ReceiveBatch, TransferReserved
<1>6. StockOf(quantity', i) = StockOf(quantity, i) - n + n /\ StockOf(quantity, i) \in Nat
  <2>1. quantity \in [Accounts -> Nat]
    BY DEF SystemInv, InventoryInv, BooksOK, LedgerOK, LedgerTypeOK
  <2> QED BY <1>1, <1>2, <1>5, <2>1, StockMoved, StockType
<1>7. OnHand(i)' = OnHand(i)
  <2>1. OnHand(i) = StockOf(quantity, i) /\ OnHand(i)' = StockOf(quantity', i)
    BY OnHandBoth DEF OnHandIsStock
  <2> QED BY <1>6, <2>1
<1>8. batch[b].status = "APPROVED" /\ batch'[b].status = "COMPLETED"
  BY <1>1 DEF ReceiveBatch, BatchRows
<1>9. \A c \in Campuses : quantity'[<<i, c>>] # quantity[<<i, c>>] =>
        c \in {batch[b].source, batch[b].destination}
  BY <1>2, <1>5
<1> QED BY <1>7, <1>8, <1>9 DEF OnlyMoved

LEMMA SystemOnlyMoves ==
  ASSUME SystemInv, SystemInv', [SystemNext]_systemVars, moved' # moved, NEW i \in Items,
         itemState[i] = "archived"
  PROVE  OnlyMoved(i)
<1>1. CASE BorrowNext
  BY <1>1, RequestsFreeze, InventoryFreezes, FrozenOnlyMoved DEF BorrowNext, SystemInv
<1>2. CASE BatchNext
  BY <1>2, ReceiptOnlyMoves DEF BatchNext, CreateBatch, ApproveBatch, RejectBatch, Reserve,
     ReleaseReservation, itemTxVars, ledgerVars, stockVars
<1>3. CASE UNCHANGED systemVars
  BY <1>3 DEF systemVars, borrowVars, itemVars, itemTxVars, ledgerVars, stockVars
<1> QED BY <1>1, <1>2, <1>3 DEF SystemNext

(* In the whole inventory the stock of an archived item still only moves   *)
(* between the campuses of a batch that was approved while it was active,  *)
(* and none of it is gained or lost.                                       *)
THEOREM ArchivedStockOnlyMoves == SystemSpec => ArchivedOnlyTransferred
<1> DEFINE Step == \A i \in Items : itemState[i] = "archived" /\ moved' # moved =>
             /\ OnHand(i)' = OnHand(i)
             /\ \A c \in Campuses :
                  quantity'[<<i, c>>] # quantity[<<i, c>>] =>
                    \E b \in Batches : /\ batch[b].status = "APPROVED"
                                       /\ batch'[b].status = "COMPLETED"
                                       /\ c \in {batch[b].source, batch[b].destination}
<1>1. SystemInv /\ SystemInv' /\ [SystemNext]_systemVars => [Step]_systemVars
  BY SystemOnlyMoves DEF OnlyMoved
<1> QED BY <1>1, SystemInvariance, PTL DEF SystemSpec, ArchivedOnlyTransferred

-----------------------------------------------------------------------------
(* The stock moved in the name of a request.                               *)

\* The type markReturned goes by.
ReturnType(r) == IF request[r].tx = NoTx THEN "ISSUANCE" ELSE itemTx[request[r].tx].type

(* The movements of a request, its status aside: the approval that linked  *)
(* a transaction took its quantity out, and the claim of its return        *)
(* brought it back unless it was withdrawn for good, or in for the first   *)
(* time when there was no such approval.                                   *)
MovedByClaims(r) ==
  LET linked == request[r].tx # NoTx
      closed == request[r].returned IN
  /\ requestMoves[r].issued = IF linked THEN 1 ELSE 0
  /\ requestMoves[r].received = IF closed /\ ~linked THEN 1 ELSE 0
  /\ requestMoves[r].restored = IF closed /\ linked /\ ReturnType(r) # "WITHDRAWAL" THEN 1 ELSE 0

\* A request that no one wrote over is open, approved or closed by a claim.
RequestBooks(r) ==
  /\ request[r].status \in {"none", "PENDING"} => request[r].tx = NoTx /\ ~request[r].returned
  /\ request[r].status = "APPROVED" => request[r].tx # NoTx
  /\ request[r].status # "REJECTED" => (request[r].status = "RETURNED" <=> request[r].returned)
  /\ MovedByClaims(r)

\* What a clerk read of a request it returns still holds: approvals are not redone.
ClerkRead ==
  \A k \in Clerks : clerk[k].op = "return" /\ clerk[k].on \notin edited =>
     /\ request[clerk[k].on].status \notin {"none", "PENDING"}
     /\ clerk[k].type = ReturnType(clerk[k].on)

\* Of any request, written over or not: only the claim of its return restores its stock.
RestoredByClaim ==
  \A r \in Requests :
     /\ requestMoves[r].restored = 0 \/ (requestMoves[r].restored = 1 /\ request[r].returned)
     /\ request[r].status = "none" => requestMoves[r].restored = 0

ClaimsOK == (\A r \in Requests \ edited : RequestBooks(r)) /\ ClerkRead /\ RestoredByClaim

LEMMA ReturnTypeKept ==
  ASSUME RequestsOK, RowsKept, NEW r \in Requests, request'[r].tx = request[r].tx
  PROVE  ReturnType(r)' = ReturnType(r)
BY DEF RequestsOK, LinkedRows, RowsKept, ReturnType, OutTypes

LEMMA BooksKept ==
  ASSUME RequestsOK, RowsKept, NEW r \in Requests, RequestBooks(r),
         request'[r] = request[r], requestMoves'[r] = requestMoves[r]
  PROVE  RequestBooks(r)'
<1>1. ReturnType(r)' = ReturnType(r)
  BY ReturnTypeKept
<1> QED BY <1>1 DEF RequestBooks, MovedByClaims

(* A clerk that takes a request has read it, one that gives up forgets.    *)
LEMMA ClerkClaims ==
  ASSUME RequestsOK, ClaimsOK, RowsKept, UNCHANGED <<request, requestMoves, edited>>,
         NEW k \in Clerks, NEW job \in ClerkJobs, clerk' = [clerk EXCEPT ![k] = job],
         job.op = "return" => /\ request[job.on].status \notin {"none", "PENDING"}
                              /\ job.type = ReturnType(job.on)
  PROVE  ClaimsOK'
<1>1. \A r \in Requests : ReturnType(r)' = ReturnType(r)
  BY ReturnTypeKept
<1>2. \A x \in Clerks : clerk[x].op = "return" => clerk[x].on \in Requests
  BY ClerkJob DEF RequestsOK, Idle
<1>3. job.op = "return" => job.on \in Requests
  BY DEF ClerkJobs, Idle
<1>4. ClerkRead'
  BY <1>1, <1>2, <1>3 DEF ClaimsOK, ClerkRead, RequestsOK, RequestsTyped
<1>5. (\A r \in Requests \ edited : RequestBooks(r))'
  BY BooksKept DEF ClaimsOK
<1> QED BY <1>4, <1>5 DEF ClaimsOK, RestoredByClaim

LEMMA ClaimsUntouched ==
  ASSUME RequestsOK, ClaimsOK, RowsKept, UNCHANGED <<request, requestMoves, edited, clerk>>
  PROVE  ClaimsOK'
<1>1. \A r \in Requests : ReturnType(r)' = ReturnType(r)
  BY ReturnTypeKept
<1>2. \A k \in Clerks : clerk[k].op = "return" => clerk[k].on \in Requests
  BY ClerkJob DEF RequestsOK, Idle
<1>3. ClerkRead'
  BY <1>1, <1>2 DEF ClaimsOK, ClerkRead
<1>4. (\A r \in Requests \ edited : RequestBooks(r))'
  BY BooksKept DEF ClaimsOK
<1> QED BY <1>3, <1>4 DEF ClaimsOK, RestoredByClaim

(* A step that writes one request, and ends the work of at most one clerk. *)
LEMMA WriteClaims ==
  ASSUME RequestsOK, RequestsOK', ClaimsOK, RowsKept, NEW r \in Requests,
         \A x \in Requests \ {r} : request'[x] = request[x] /\ requestMoves'[x] = requestMoves[x],
         \A k \in Clerks : clerk'[k] = clerk[k] \/ clerk'[k] = Idle,
         edited' = edited \/ edited' = edited \cup {r},
         r \notin edited' =>
            /\ RequestBooks(r)'
            /\ request[r].status \notin {"none", "PENDING"} =>
                 /\ request'[r].tx = request[r].tx
                 /\ request'[r].status \notin {"none", "PENDING"},
         request'[r].status # "none",
         requestMoves'[r].restored = 0 \/ (requestMoves'[r].restored = 1 /\ request'[r].returned)
  PROVE  ClaimsOK'
<1>1. \A x \in Requests \ {r} : ReturnType(x)' = ReturnType(x)
  BY ReturnTypeKept
<1>2. request'[r].tx = request[r].tx => ReturnType(r)' = ReturnType(r)
  BY ReturnTypeKept
<1>3. \A k \in Clerks : clerk[k].op = "return" => clerk[k].on \in Requests
  BY ClerkJob DEF RequestsOK, Idle
<1>4. Idle.op # "return"
  BY DEF Idle
<1>5. (\A x \in Requests \ edited : RequestBooks(x))'
  <2> SUFFICES ASSUME NEW x \in Requests, x \notin edited' PROVE RequestBooks(x)'
    OBVIOUS
  <2>1. CASE x = r
    BY <2>1
  <2>2. CASE x # r
    BY <2>2, BooksKept DEF ClaimsOK
  <2> QED BY <2>1, <2>2
<1>6. RestoredByClaim'
  BY DEF ClaimsOK, RestoredByClaim
<1>7. ClerkRead'
  <2> SUFFICES ASSUME NEW k \in Clerks, clerk'[k].op = "return", clerk'[k].on \notin edited'
               PROVE  (/\ request[clerk[k].on].status \notin {"none", "PENDING"}
                       /\ clerk[k].type = ReturnType(clerk[k].on))'
    BY DEF ClerkRead
  <2>1. clerk'[k] = clerk[k]
    BY <1>4
  <2> PICK x \in Requests : x = clerk[k].on
    BY <1>3, <2>1
  <2>2. request[x].status \notin {"none", "PENDING"} /\ clerk[k].type = ReturnType(x)
    BY <2>1 DEF ClaimsOK, ClerkRead, ReturnType
  <2>3. /\ request'[x].status \notin {"none", "PENDING"}
        /\ clerk[k].type = ReturnType(x)'
    <3>1. CASE x = r
      BY <1>2, <2>1, <2>2, <3>1 DEF ReturnType
    <3>2. CASE x # r
      BY <1>1, <2>2, <3>2 DEF ReturnType
    <3> QED BY <3>1, <3>2
  <2> QED BY <2>1, <2>3 DEF ReturnType
<1> QED BY <1>5, <1>6, <1>7 DEF ClaimsOK

(* A request that does not exist yet has moved nothing.                    *)
LEMMA CreateRequestClaims ==
  ASSUME RequestsOK, RequestsOK', ClaimsOK, RowsKept, NEW r \in Requests, NEW i \in Items,
         NEW c \in Campuses, NEW n \in Amounts, CreateRequest(r, i, c, n)
  PROVE  ClaimsOK'
<1> USE DEF RequestsOK, RequestsTyped
<1>1. /\ request[r].status = "none" /\ request'[r].status = "PENDING"
      /\ request'[r].tx = NoTx /\ request'[r].returned = FALSE
      /\ \A x \in Requests \ {r} : request'[x] = request[x]
      /\ UNCHANGED <<requestMoves, edited, clerk>>
  BY DEF CreateRequest
<1>2. r \notin edited => /\ requestMoves'[r].issued = 0 /\ requestMoves'[r].received = 0
                         /\ requestMoves'[r].restored = 0
  BY <1>1 DEF ClaimsOK, RequestBooks, MovedByClaims
<1>3. r \notin edited => RequestBooks(r)'
  <2> SUFFICES ASSUME r \notin edited PROVE RequestBooks(r)'
    OBVIOUS
  <2>1. MovedByClaims(r)'
    BY <1>1, <1>2 DEF MovedByClaims
  <2> QED BY <1>1, <2>1 DEF RequestBooks
<1>4. requestMoves'[r].restored = 0
  BY <1>1 DEF ClaimsOK, RestoredByClaim
<1> QED BY <1>1, <1>3, <1>4, WriteClaims

LEMMA ApproveOutClaims ==
  ASSUME InventoryInv, RequestsOK, RequestsOK', ClaimsOK, RowsKept, NEW r \in Requests,
         NEW ty \in OutTypes, NEW t \in BorrowTx, ApproveOut(r, ty, t)
  PROVE  ClaimsOK'
<1> USE DEF RequestsOK, RequestsTyped
<1>1. /\ request[r].status = "PENDING"
      /\ requestMoves' = [requestMoves EXCEPT ![r] = [requestMoves[r] EXCEPT !.issued = @ + 1]]
      /\ request' = [request EXCEPT ![r] = [request[r] EXCEPT !.status = "APPROVED", !.tx = t]]
      /\ UNCHANGED <<edited, clerk>>
  BY DEF ApproveOut, ClaimPending
<1>2. /\ t # NoTx
      /\ request'[r].status = "APPROVED" /\ request'[r].tx = t
      /\ request'[r].returned = request[r].returned
  BY <1>1, BorrowAssumption, TransactionAssumption DEF BorrowRows
<1>3. /\ requestMoves'[r].issued = requestMoves[r].issued + 1
      /\ requestMoves'[r].received = requestMoves[r].received
      /\ requestMoves'[r].restored = requestMoves[r].restored
  BY <1>1 DEF MoveCounts
<1>4. r \notin edited => RequestBooks(r)'
  BY <1>1, <1>2, <1>3 DEF ClaimsOK, RequestBooks, MovedByClaims
<1>5. \A x \in Requests \ {r} : request'[x] = request[x] /\ requestMoves'[x] = requestMoves[x]
  BY <1>1
<1>6. requestMoves'[r].restored = 0 \/ (requestMoves'[r].restored = 1 /\ request'[r].returned)
  BY <1>2, <1>3 DEF ClaimsOK, RestoredByClaim
<1> QED BY <1>1, <1>2, <1>4, <1>5, <1>6, WriteClaims

(* A rejection leaves what was claimed; after an edit only the restoring   *)
(* of stock is still known.                                                *)
LEMMA StatusClaims ==
  ASSUME RequestsOK, RequestsOK', ClaimsOK, RowsKept, NEW k \in Clerks, NEW r \in Requests,
         NEW s, s # "none", UNCHANGED requestMoves, Finish(k),
         request' = [request EXCEPT ![r].status = s],
         \/ s = "REJECTED" /\ UNCHANGED edited
         \/ edited' = edited \cup {r}
  PROVE  ClaimsOK'
<1> USE DEF RequestsOK, RequestsTyped
<1>1. /\ request'[r].status = s /\ request'[r].tx = request[r].tx
      /\ request'[r].returned = request[r].returned
  BY DEF BorrowRows
<1>2. ReturnType(r)' = ReturnType(r)
  BY <1>1, ReturnTypeKept
<1>3. r \notin edited' => s = "REJECTED" /\ RequestBooks(r)'
  BY <1>1, <1>2 DEF ClaimsOK, RequestBooks, MovedByClaims
<1>4. \A x \in Clerks : clerk'[x] = clerk[x] \/ clerk'[x] = Idle
  BY DEF Finish
<1>5. \A x \in Requests \ {r} : request'[x] = request[x] /\ requestMoves'[x] = requestMoves[x]
  OBVIOUS
<1>6. requestMoves'[r].restored = 0 \/ (requestMoves'[r].restored = 1 /\ request'[r].returned)
  BY <1>1 DEF ClaimsOK, RestoredByClaim
<1> QED BY <1>1, <1>3, <1>4, <1>5, <1>6, WriteClaims

(* A request is closed once: by its approval as a RETURN, by the return of *)
(* what was issued, or without stock when that was withdrawn.              *)
LEMMA CloseClaims ==
  ASSUME RequestsOK, RequestsOK', ClaimsOK, RowsKept, NEW r \in Requests,
         request[r].status = "APPROVED" => ~request[r].returned, UNCHANGED edited,
         request' = [request EXCEPT ![r] = [request[r] EXCEPT !.status = "RETURNED", !.returned = TRUE]],
         \A x \in Requests \ {r} : requestMoves'[x] = requestMoves[x],
         requestMoves'[r].issued = requestMoves[r].issued,
         \/ /\ request[r].status = "PENDING"
            /\ requestMoves'[r].received = requestMoves[r].received + 1
            /\ requestMoves'[r].restored = requestMoves[r].restored
         \/ /\ request[r].status = "APPROVED"
            /\ requestMoves'[r].received = requestMoves[r].received
            /\ r \notin edited => ReturnType(r) # "WITHDRAWAL"
            /\ requestMoves'[r].restored = requestMoves[r].restored + 1
         \/ /\ request[r].status = "APPROVED"
            /\ requestMoves'[r].received = requestMoves[r].received
            /\ r \notin edited => ReturnType(r) = "WITHDRAWAL"
            /\ requestMoves'[r].restored = requestMoves[r].restored,
         \A k \in Clerks : clerk'[k] = clerk[k] \/ clerk'[k] = Idle
  PROVE  ClaimsOK'
<1> USE DEF RequestsOK, RequestsTyped
<1>1. /\ request'[r].status = "RETURNED" /\ request'[r].tx = request[r].tx
      /\ request'[r].returned
  BY DEF BorrowRows
<1>2. ReturnType(r)' = ReturnType(r)
  BY <1>1, ReturnTypeKept
<1>3. request[r].status = "APPROVED" => requestMoves[r].restored = 0
  BY DEF ClaimsOK, RestoredByClaim
<1>4. r \notin edited => RequestBooks(r)'
  BY <1>1, <1>2 DEF ClaimsOK, RequestBooks, MovedByClaims
<1>5. \A x \in Requests \ {r} : request'[x] = request[x]
  OBVIOUS
<1>6. requestMoves'[r].restored = 0 \/ (requestMoves'[r].restored = 1 /\ request'[r].returned)
  BY <1>1, <1>3 DEF ClaimsOK, RestoredByClaim
<1> QED BY <1>1, <1>4, <1>5, <1>6, WriteClaims

LEMMA RequestsNextClaims ==
  ASSUME InventoryInv, RequestsOK, RequestsOK', ClaimsOK, RowsKept, RequestsNext
  PROVE  ClaimsOK'
<1>0. RequestsTyped
  BY DEF RequestsOK
<1>1. ASSUME NEW k \in Clerks, NEW job \in ClerkJobs, job.op # "return", Take(k, job)
      PROVE  ClaimsOK'
  BY <1>1, ClerkClaims DEF Take
<1>2. ASSUME NEW k \in Clerks, NEW r \in Requests, BeginMarkReturned(k, r)
      PROVE  ClaimsOK'
  <2> DEFINE job == [op |-> "return", on |-> r, type |-> ReturnType(r)]
  <2>1. ReturnType(r) \in OutTypes
    BY DEF RequestsOK, LinkedRows, OutTypes, ReturnType
  <2>2. job \in ClerkJobs
    BY <2>1 DEF ClerkJobs
  <2>3. clerk' = [clerk EXCEPT ![k] = job] /\ UNCHANGED <<request, requestMoves, edited>>
    BY <1>2 DEF BeginMarkReturned, Take, ReturnType
  <2>4. request[r].status \notin {"none", "PENDING"}
    BY <1>2 DEF BeginMarkReturned
  <2> QED BY <2>2, <2>3, <2>4, ClerkClaims
<1>3. ASSUME NEW k \in Clerks, AbandonClerk(k)
      PROVE  ClaimsOK'
  BY <1>3, ClerkClaims DEF AbandonClerk, Finish, ClerkJobs, Idle
<1>4. ASSUME NEW k \in Clerks, CommitReject(k)
      PROVE  ClaimsOK'
  <2>1. PICK r \in Requests : r = clerk[k].on
    BY <1>4, <1>0, ClerkJob DEF CommitReject
  <2>2. PICK s : s = "REJECTED"
    OBVIOUS
  <2>3. request' = [request EXCEPT ![r].status = s] /\ Finish(k)
        /\ UNCHANGED <<requestMoves, edited>>
    BY <1>4, <2>1, <2>2 DEF CommitReject
  <2> QED BY <2>2, <2>3, StatusClaims
<1>5. ASSUME NEW k \in Clerks, CommitUpdate(k)
      PROVE  ClaimsOK'
  <2>1. PICK r \in Requests, s \in EditStatuses : r = clerk[k].on /\ s = clerk[k].to
    BY <1>5, <1>0, ClerkJob DEF CommitUpdate
  <2>2. s # "none"
    BY BorrowAssumption
  <2>3. /\ request' = [request EXCEPT ![r].status = s] /\ Finish(k)
        /\ edited' = edited \cup {r} /\ UNCHANGED requestMoves
    BY <1>5, <2>1 DEF CommitUpdate
  <2> QED BY <2>2, <2>3, StatusClaims
<1>6. ASSUME NEW k \in Clerks, NEW r \in Requests, BeginReject(k, r)
      PROVE  ClaimsOK'
  BY <1>1, <1>6 DEF BeginReject, ClerkJobs
<1>7. ASSUME NEW k \in Clerks, NEW r \in Requests, NEW s \in EditStatuses, BeginUpdate(k, r, s)
      PROVE  ClaimsOK'
  BY <1>1, <1>7 DEF BeginUpdate, ClerkJobs
<1>8. ASSUME NEW r \in Requests, NEW t \in BorrowTx, ApproveReturn(r, t)
      PROVE  ClaimsOK'
  <2>1. /\ request[r].status = "PENDING"
        /\ request' = [request EXCEPT ![r] = [request[r] EXCEPT !.status = "RETURNED", !.returned = TRUE]]
        /\ requestMoves' = [requestMoves EXCEPT ![r] = [requestMoves[r] EXCEPT !.received = @ + 1]]
        /\ UNCHANGED <<edited, clerk>>
    BY <1>8 DEF ApproveReturn, ClaimPending
  <2>2. /\ requestMoves'[r].issued = requestMoves[r].issued
        /\ requestMoves'[r].received = requestMoves[r].received + 1
        /\ requestMoves'[r].restored = requestMoves[r].restored
        /\ \A x \in Requests \ {r} : requestMoves'[x] = requestMoves[x]
    BY <1>0, <2>1 DEF RequestsTyped, MoveCounts
  <2> QED BY <2>1, <2>2, CloseClaims
<1>9. ASSUME NEW k \in Clerks, clerk[k].op = "return", Finish(k),
             NEW r \in Requests, r = clerk[k].on, ClaimReturn(r)
      PROVE  /\ ~request[r].returned /\ request[r].status = "APPROVED"
             /\ r \notin edited => clerk[k].type = ReturnType(r)
             /\ request' = [request EXCEPT ![r] = [request[r] EXCEPT !.status = "RETURNED", !.returned = TRUE]]
             /\ \A x \in Clerks : clerk'[x] = clerk[x] \/ clerk'[x] = Idle
  <2>1. r \notin edited => clerk[k].type = ReturnType(r)
    BY <1>9 DEF ClaimsOK, ClerkRead, ReturnType
  <2>2. \A x \in Clerks : clerk'[x] = clerk[x] \/ clerk'[x] = Idle
    BY <1>9 DEF Finish
  <2>3. /\ ~request[r].returned /\ request[r].status = "APPROVED"
        /\ request' = [request EXCEPT ![r] = [request[r] EXCEPT !.status = "RETURNED", !.returned = TRUE]]
    BY <1>9 DEF ClaimReturn
  <2> QED BY <2>1, <2>2, <2>3
<1>10. ASSUME NEW k \in Clerks, NEW t \in BorrowTx, CommitReturnIssue(k, t)
       PROVE  ClaimsOK'
  <2>1. PICK r \in Requests : r = clerk[k].on
    BY <1>10, <1>0, ClerkJob DEF CommitReturnIssue
  <2>2. /\ clerk[k].op = "return" /\ clerk[k].type = "ISSUANCE" /\ Finish(k) /\ ClaimReturn(r)
        /\ requestMoves' = [requestMoves EXCEPT ![r] = [requestMoves[r] EXCEPT !.restored = @ + 1]]
        /\ UNCHANGED edited
    BY <1>10, <2>1 DEF CommitReturnIssue
  <2>3. /\ requestMoves'[r].issued = requestMoves[r].issued
        /\ requestMoves'[r].received = requestMoves[r].received
        /\ requestMoves'[r].restored = requestMoves[r].restored + 1
        /\ \A x \in Requests \ {r} : requestMoves'[x] = requestMoves[x]
    BY <1>0, <2>2 DEF RequestsTyped, MoveCounts
  <2> QED BY <1>9, <2>1, <2>2, <2>3, CloseClaims
<1>11. ASSUME NEW k \in Clerks, CommitCloseWithdrawal(k)
       PROVE  ClaimsOK'
  <2>1. PICK r \in Requests : r = clerk[k].on
    BY <1>11, <1>0, ClerkJob DEF CommitCloseWithdrawal
  <2>2. /\ clerk[k].op = "return" /\ clerk[k].type = "WITHDRAWAL" /\ Finish(k) /\ ClaimReturn(r)
        /\ UNCHANGED <<requestMoves, edited>>
    BY <1>11, <2>1 DEF CommitCloseWithdrawal
  <2> QED BY <1>9, <2>1, <2>2, CloseClaims
<1>12. ASSUME NEW r \in Requests, NEW i \in Items, NEW c \in Campuses, NEW n \in Amounts,
              CreateRequest(r, i, c, n)
       PROVE  ClaimsOK'
  BY <1>12, CreateRequestClaims
<1>13. ASSUME NEW r \in Requests, NEW ty \in OutTypes, NEW t \in BorrowTx, ApproveOut(r, ty, t)
       PROVE  ClaimsOK'
  BY <1>13, ApproveOutClaims
<1> QED BY <1>2, <1>3, <1>4, <1>5, <1>6, <1>7, <1>8, <1>10, <1>11, <1>12, <1>13 DEF RequestsNext

LEMMA SystemClaims ==
  ASSUME SystemInv, ClaimsOK, [SystemNext]_systemVars
  PROVE  ClaimsOK'
<1>1. SystemInv' /\ RowsKept
  BY SystemNextInv, SystemUntouched
<1>2. CASE RequestsNext
  BY <1>1, <1>2, RequestsNextClaims DEF SystemInv
<1>3. CASE UNCHANGED <<request, requestMoves, edited, clerk>>
  BY <1>1, <1>3, ClaimsUntouched DEF SystemInv
<1> QED BY <1>2, <1>3 DEF SystemNext, BorrowNext, systemVars, borrowVars

LEMMA InitClaims == SystemInit => ClaimsOK
<1> SUFFICES ASSUME SystemInit PROVE ClaimsOK
  OBVIOUS
<1>1. \A r \in Requests : /\ request[r].status = "none" /\ request[r].tx = NoTx
                          /\ request[r].returned = FALSE
  BY DEF SystemInit, BorrowInit, AbsentRequest
<1>2. \A r \in Requests : /\ requestMoves[r].issued = 0 /\ requestMoves[r].received = 0
                          /\ requestMoves[r].restored = 0
  BY DEF SystemInit, BorrowInit, NoMoves
<1>3. \A k \in Clerks : clerk[k].op # "return"
  BY DEF SystemInit, BorrowInit, Idle
<1> QED BY <1>1, <1>2, <1>3
        DEF ClaimsOK, RequestBooks, MovedByClaims, ClerkRead, RestoredByClaim

THEOREM ClaimsInvariance == SystemSpec => []ClaimsOK
<1>1. SystemInv /\ ClaimsOK /\ [SystemNext]_systemVars => ClaimsOK'
  BY SystemClaims
<1> QED BY InitClaims, <1>1, SystemInvariance, PTL DEF SystemSpec

(* Whatever order approvals, rejections, returns and edits of all the      *)
(* requests commit in, a request that was not edited has moved its stock   *)
(* as its status says: once out by the approval that won, once in or back  *)
(* by the return that won, and not otherwise.                              *)
THEOREM RequestsAccounted == SystemSpec => []RequestAccounted
<1>1. SystemInv /\ ClaimsOK => RequestAccounted
  <2> SUFFICES ASSUME SystemInv, ClaimsOK, NEW r \in Requests \ edited,
                      request[r].status # "REJECTED"
               PROVE  requestMoves[r] = ExpectedMoves(r)
    BY DEF RequestAccounted
  <2>1. /\ request[r].status \in {"none", "PENDING", "APPROVED", "RETURNED"}
        /\ requestMoves[r] \in MoveCounts
    BY RequestRow DEF SystemInv, RequestsOK
  <2>2. RequestBooks(r)
    BY DEF ClaimsOK
  <2>3. /\ requestMoves[r].issued = ExpectedMoves(r).issued
        /\ requestMoves[r].received = ExpectedMoves(r).received
        /\ requestMoves[r].restored = ExpectedMoves(r).restored
    <3>1. CASE request[r].status \in {"none", "PENDING"}
      BY <2>2, <3>1 DEF RequestBooks, MovedByClaims, ExpectedMoves
    <3>2. CASE request[r].status = "APPROVED"
      BY <2>2, <3>2 DEF RequestBooks, MovedByClaims, ExpectedMoves
    <3>3. CASE request[r].status = "RETURNED"
      BY <2>2, <3>3 DEF RequestBooks, MovedByClaims, ReturnType, ExpectedMoves
    <3> QED BY <2>1, <3>1, <3>2, <3>3
  <2>4. ExpectedMoves(r) \in MoveCounts
    BY DEF ExpectedMoves, MoveCounts
  <2> QED BY <2>1, <2>3, <2>4 DEF MoveCounts
<1> QED BY <1>1, SystemInvariance, ClaimsInvariance, PTL

(* No two returns restore the stock of one request, also when staff write  *)
(* any status over it: the claim goes by the returned flag, which no edit  *)
(* clears.                                                                 *)
THEOREM StockNeverRestoredTwice == SystemSpec => []StockRestoredOnce
<1>1. ClaimsOK => StockRestoredOnce
  BY DEF ClaimsOK, RestoredByClaim, StockRestoredOnce
<1> QED BY <1>1, ClaimsInvariance, PTL
=============================================================================
