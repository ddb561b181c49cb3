------------------------ MODULE AssetTransfersProofs ------------------------
(***************************************************************************)
(* The ledger stays sound under its callers, and the reservations of       *)
(* AssetTransfers are exact, for any number of items, campuses, batches    *)
(* and concurrent requests.  The first part says what each operation of    *)
(* the ledger preserves; the callers cite its lemmas.                      *)
(***************************************************************************)
EXTENDS AssetTransfers, FiniteSetTheorems, TLAPS

-----------------------------------------------------------------------------
(* The operations of the ledger.                                           *)

\* The part of the state every ledger operation keeps well formed and safe.
LedgerOK == LedgerTypeOK /\ LedgerSafe

(* A database of freshly created items is well formed and balanced.        *)
LEMMA InitLedgerOK == LedgerInit => LedgerOK
<1> SUFFICES ASSUME LedgerInit PROVE LedgerOK
  OBVIOUS
<1> USE LedgerAssumption DEF LedgerInit, Accounts
<1>1. PICK opening \in [Items -> 0..MaxOnHand] :
        /\ \A i \in Items : itemState[i] = "absent" => opening[i] = 0
        /\ quantity = [a \in Accounts |->
                         IF a[2] = Home[a[1]] THEN opening[a[1]] ELSE 0]
  BY DEF LedgerInit
<1>2. quantity \in [Accounts -> Nat]
  BY <1>1
<1>3. LedgerTypeOK
  BY <1>2 DEF LedgerTypeOK
<1>4. ReservationsCovered
  BY <1>2 DEF ReservationsCovered
<1>5. LedgerBalanced
  BY <1>2 DEF LedgerBalanced
<1>6. ASSUME NEW a \in Accounts, balance[a] = "absent"
      PROVE  quantity[a] = 0 /\ reserved[a] = 0
  <2>1. CASE a[2] = Home[a[1]]
    BY <1>1, <1>6, <2>1
  <2>2. CASE a[2] # Home[a[1]]
    BY <1>1, <2>2
  <2> QED BY <2>1, <2>2
<1> QED BY <1>3, <1>4, <1>5, <1>6 DEF LedgerOK, LedgerSafe, AbsentIsEmpty

(* apply never takes a balance below its reservations and records exactly  *)
(* what it moved.                                                          *)
LEMMA ApplyPreserves ==
  ASSUME LedgerOK, NEW i \in Items, NEW c \in Campuses, NEW d \in Int,
         Apply(i, c, d), UNCHANGED itemState
  PROVE  LedgerOK'
<1> DEFINE b == <<i, c>>
<1> USE DEF LedgerOK, LedgerTypeOK
<1>1. b \in Accounts /\ balance[b] = "active"
  BY DEF Accounts, Apply, Usable
<1>2. reserved[b] <= quantity[b] + d
  <2>1. reserved[b] <= quantity[b]
    BY <1>1 DEF LedgerSafe, ReservationsCovered
  <2>2. d < 0 => quantity[b] - reserved[b] >= -d
    BY DEF Apply, Available
  <2>3. quantity[b] \in Nat /\ reserved[b] \in Nat
    BY <1>1
  <2> QED BY <2>1, <2>2, <2>3
<1>3. /\ quantity' = [quantity EXCEPT ![b] = quantity[b] + d]
      /\ moved' = [moved EXCEPT ![b] = moved[b] + d]
      /\ UNCHANGED <<itemState, balance, reserved>>
  BY DEF Apply
<1> HIDE DEF b
<1>4. quantity[b] + d \in Nat /\ moved[b] + d \in Int
  BY <1>1, <1>2
<1>5. LedgerTypeOK'
  BY <1>1, <1>3, <1>4
<1>6. ReservationsCovered'
  BY <1>1, <1>2, <1>3 DEF LedgerSafe, ReservationsCovered
<1>7. LedgerBalanced'
  BY <1>1, <1>3 DEF LedgerSafe, LedgerBalanced
<1>8. AbsentIsEmpty'
  BY <1>1, <1>3 DEF LedgerSafe, AbsentIsEmpty
<1> QED BY <1>5, <1>6, <1>7, <1>8 DEF LedgerSafe

(* Reserving available stock keeps every reservation covered.              *)
LEMMA ReservePreserves ==
  ASSUME LedgerOK, NEW lines \in Lines, NEW c \in Campuses,
         Reserve(lines, c), UNCHANGED itemState
  PROVE  LedgerOK'
<1> USE DEF LedgerOK, LedgerTypeOK
<1>1. /\ UNCHANGED <<itemState, balance, quantity, moved>>
      /\ reserved' = [a \in Accounts |->
                        reserved[a] + (IF a[2] = c THEN lines[a[1]] ELSE 0)]
  BY DEF Reserve
<1>2. ASSUME NEW a \in Accounts
      PROVE  /\ lines[a[1]] \in Nat
             /\ a[2] = c /\ lines[a[1]] > 0 =>
                  balance[a] = "active" /\ quantity[a] - reserved[a] >= lines[a[1]]
  <2>1. PICK i \in Items, k \in Campuses : a = <<i, k>>
    BY DEF Accounts
  <2> QED BY <2>1 DEF Reserve, Lines, Named, Usable, Available
<1>3. reserved' \in [Accounts -> Nat]
  BY <1>1, <1>2
<1>4. LedgerTypeOK'
  BY <1>1, <1>3
<1>5. ReservationsCovered'
  BY <1>1, <1>2 DEF LedgerSafe, ReservationsCovered
<1>6. LedgerBalanced'
  BY <1>1 DEF LedgerSafe, LedgerBalanced
<1>7. AbsentIsEmpty'
  BY <1>1, <1>2 DEF LedgerSafe, AbsentIsEmpty
<1> QED BY <1>4, <1>5, <1>6, <1>7 DEF LedgerSafe

(* Releasing what is reserved keeps the rest covered.                      *)
LEMMA ReleasePreserves ==
  ASSUME LedgerOK, NEW lines \in Lines, NEW c \in Campuses,
         ReleaseReservation(lines, c), UNCHANGED itemState
  PROVE  LedgerOK'
<1> USE DEF LedgerOK, LedgerTypeOK
<1>1. /\ UNCHANGED <<itemState, balance, quantity, moved>>
      /\ reserved' = [a \in Accounts |->
                        reserved[a] - (IF a[2] = c THEN lines[a[1]] ELSE 0)]
  BY DEF ReleaseReservation
<1>2. ASSUME NEW a \in Accounts
      PROVE  /\ lines[a[1]] \in Nat
             /\ a[2] = c => reserved[a] >= lines[a[1]]
  <2>1. PICK i \in Items, k \in Campuses : a = <<i, k>>
    BY DEF Accounts
  <2> QED BY <2>1 DEF ReleaseReservation, Lines, Named
<1>3. reserved' \in [Accounts -> Nat]
  BY <1>1, <1>2
<1>4. LedgerTypeOK'
  BY <1>1, <1>3
<1>5. ReservationsCovered'
  BY <1>1, <1>2 DEF LedgerSafe, ReservationsCovered
<1>6. LedgerBalanced'
  BY <1>1 DEF LedgerSafe, LedgerBalanced
<1>7. AbsentIsEmpty'
  BY <1>1, <1>2 DEF LedgerSafe, AbsentIsEmpty
<1> QED BY <1>4, <1>5, <1>6, <1>7 DEF LedgerSafe

(* A transfer keeps both ends balanced and covered, whatever part of the   *)
(* lines stays at the destination; a destination row it creates is active. *)
LEMMA TransferReservedPreserves ==
  ASSUME LedgerOK, NEW lines \in Lines, NEW kept \in Lines,
         \A i \in Items : kept[i] <= lines[i],
         NEW src \in Campuses, NEW dst \in Campuses,
         TransferReserved(lines, kept, src, dst), UNCHANGED itemState
  PROVE  LedgerOK'
<1> USE DEF LedgerOK, LedgerTypeOK
<1>1. ASSUME NEW a \in Accounts
      PROVE  /\ lines[a[1]] \in Nat
             /\ kept[a[1]] \in Nat
             /\ kept[a[1]] <= lines[a[1]]
             /\ a[2] = src => reserved[a] >= lines[a[1]] /\ quantity[a] >= lines[a[1]]
             /\ a[1] \in Named(lines) <=> lines[a[1]] > 0
  <2>1. PICK i \in Items, k \in Campuses : a = <<i, k>>
    BY DEF Accounts
  <2> QED BY <2>1 DEF TransferReserved, CanConsume, Lines, Named
<1>2. ASSUME NEW a \in Accounts
      PROVE  /\ quantity'[a] = quantity[a] + (IF a[2] = src THEN -lines[a[1]]
                                             ELSE IF a[2] = dst THEN kept[a[1]] ELSE 0)
             /\ moved'[a] = moved[a] + (IF a[2] = src THEN -lines[a[1]]
                                       ELSE IF a[2] = dst THEN kept[a[1]] ELSE 0)
             /\ reserved'[a] = reserved[a] - (IF a[2] = src THEN lines[a[1]] ELSE 0)
             /\ balance'[a] = (IF a[2] = dst /\ a[1] \in Named(lines) THEN "active"
                               ELSE balance[a])
  BY <1>1 DEF TransferReserved
<1>3. LedgerTypeOK'
  <2>1. /\ quantity' \in [Accounts -> Nat]
        /\ moved' \in [Accounts -> Int]
    BY <1>1, <1>2 DEF TransferReserved
  <2>2. /\ reserved' \in [Accounts -> Nat]
        /\ balance' \in [Accounts -> {"absent", "active", "inactive"}]
    BY <1>1, <1>2 DEF TransferReserved
  <2> QED BY <2>1, <2>2
<1>4. ReservationsCovered'
  BY <1>1, <1>2 DEF LedgerSafe, ReservationsCovered
<1>5. LedgerBalanced'
  BY <1>1, <1>2 DEF LedgerSafe, LedgerBalanced
<1>6. AbsentIsEmpty'
  BY <1>1, <1>2 DEF LedgerSafe, AbsentIsEmpty
<1> QED BY <1>3, <1>4, <1>5, <1>6 DEF LedgerSafe

(* Retiring an empty balance disturbs nothing.                             *)
LEMMA DeactivatePreserves ==
  ASSUME LedgerOK, NEW i \in Items, NEW c \in Campuses, DeactivateBalance(i, c)
  PROVE  LedgerOK'
BY DEF LedgerOK, LedgerTypeOK, LedgerSafe, ReservationsCovered, LedgerBalanced,
       AbsentIsEmpty, DeactivateBalance, Accounts

(* Nor does a step that leaves the stock tables alone and changes only     *)
(* which items are active.                                                 *)
LEMMA UntouchedPreserves ==
  ASSUME LedgerOK, UNCHANGED stockVars,
         itemState' \in [Items -> {"absent", "active", "archived"}]
  PROVE  LedgerOK'
BY DEF LedgerOK, LedgerTypeOK, LedgerSafe, ReservationsCovered, LedgerBalanced,
       AbsentIsEmpty, stockVars

-----------------------------------------------------------------------------
(* What the transactions and the batches add to it.                        *)

\* A batch leaves one campus for another once it has been created.
EndpointsDiffer ==
  \A b \in Batches : batch[b].status # "none" => batch[b].source # batch[b].destination

HeldFinite == \A a \in Accounts : IsFiniteSet(HeldUnits(a))

\* A return in flight is about an issuance or a withdrawal.
ReturningOut ==
  \A w \in Workers : returning[w] # NoTx => itemTx[returning[w]].type \in OutTypes

TxOK == TxTypeOK /\ ReturningOut /\ RestoredOnce

HoldingOK == TransferTypeOK /\ EndpointsDiffer /\ HeldFinite /\ ReservedForApproved

\* Stock and transactions, whatever reserves the stock.
BooksOK == LedgerOK /\ TxOK

TransferInv == BooksOK /\ HoldingOK

-----------------------------------------------------------------------------
(* What a batch holds at a campus.                                         *)

LEMMA ColumnCardinality ==
  ASSUME NEW b, NEW n \in Nat
  PROVE  IsFiniteSet({b} \X (1..n)) /\ Cardinality({b} \X (1..n)) = n
<1>1. IsFiniteSet({b}) /\ Cardinality({b}) = 1
  BY FS_Singleton
<1>2. IsFiniteSet(1..n) /\ Cardinality(1..n) = n
  BY FS_Interval
<1>3. /\ IsFiniteSet({b} \X (1..n))
      /\ Cardinality({b} \X (1..n)) = Cardinality({b}) * Cardinality(1..n)
  BY <1>1, <1>2, FS_Product
<1> QED BY <1>1, <1>2, <1>3

LEMMA HeldMembership ==
  ASSUME NEW a, NEW u
  PROVE  u \in HeldUnits(a) <=>
           \E x \in Batches : /\ batch[x].status = "APPROVED"
                              /\ batch[x].source = a[2]
                              /\ u \in {x} \X (1..batch[x].lines[a[1]])
BY DEF HeldUnits

LEMMA LineIsNat ==
  ASSUME TransferTypeOK, NEW b \in Batches, NEW a \in Accounts
  PROVE  batch[b].lines[a[1]] \in Nat
BY DEF TransferTypeOK, BatchRows, Lines, Accounts

(* Approving a pending batch adds its line to what its source holds.       *)
LEMMA ApprovalHolds ==
  ASSUME TransferTypeOK, NEW b \in Batches, batch[b].status = "PENDING",
         batch' = [batch EXCEPT ![b].status = "APPROVED"],
         NEW a \in Accounts, IsFiniteSet(HeldUnits(a))
  PROVE  /\ IsFiniteSet(HeldUnits(a)')
         /\ Cardinality(HeldUnits(a)')
              = Cardinality(HeldUnits(a))
                + (IF a[2] = batch[b].source THEN batch[b].lines[a[1]] ELSE 0)
<1> DEFINE n == batch[b].lines[a[1]]
           col == {b} \X (1..n)
<1>1. n \in Nat
  BY LineIsNat
<1>2. \A x \in Batches : /\ batch'[x].source = batch[x].source
                         /\ batch'[x].lines = batch[x].lines
                         /\ batch'[x].status = IF x = b THEN "APPROVED" ELSE batch[x].status
  BY DEF TransferTypeOK, BatchRows
<1>3. CASE a[2] = batch[b].source
  <2>1. HeldUnits(a)' = HeldUnits(a) \cup col
    <3>1. ASSUME NEW u PROVE u \in HeldUnits(a)' <=> u \in HeldUnits(a) \cup col
      BY <1>2, <1>3 DEF HeldUnits
    <3> QED BY <3>1
  <2>2. HeldUnits(a) \cap col = {}
    BY DEF HeldUnits
  <2>3. IsFiniteSet(col) /\ Cardinality(col) = n
    BY <1>1, ColumnCardinality
  <2> HIDE DEF col, n
  <2>4. /\ IsFiniteSet(HeldUnits(a) \cup col)
        /\ Cardinality(HeldUnits(a) \cup col)
             = Cardinality(HeldUnits(a)) + Cardinality(col) - Cardinality(HeldUnits(a) \cap col)
    BY <2>3, FS_Union
  <2>5. Cardinality(HeldUnits(a) \cap col) = 0
    BY <2>2, FS_EmptySet
  <2>6. Cardinality(HeldUnits(a)) \in Nat
    BY FS_CardinalityType
  <2> QED BY <1>1, <1>3, <2>1, <2>3, <2>4, <2>5, <2>6 DEF n
<1>4. CASE a[2] # batch[b].source
  <2>1. ASSUME NEW u PROVE u \in HeldUnits(a)' <=> u \in HeldUnits(a)
    BY <1>2, <1>4 DEF HeldUnits
  <2>2. HeldUnits(a)' = HeldUnits(a)
    BY <2>1
  <2>3. Cardinality(HeldUnits(a)) \in Nat
    BY FS_CardinalityType
  <2> QED BY <1>4, <2>2, <2>3
<1> QED BY <1>3, <1>4

(* Rejecting or receiving an approved batch takes it away again.           *)
LEMMA ClosingReleases ==
  ASSUME TransferTypeOK, NEW b \in Batches, batch[b].status = "APPROVED",
         NEW s, s # "APPROVED", batch' = [batch EXCEPT ![b].status = s],
         NEW a \in Accounts, IsFiniteSet(HeldUnits(a))
  PROVE  /\ IsFiniteSet(HeldUnits(a)')
         /\ Cardinality(HeldUnits(a)')
              = Cardinality(HeldUnits(a))
                - (IF a[2] = batch[b].source THEN batch[b].lines[a[1]] ELSE 0)
<1> DEFINE n == batch[b].lines[a[1]]
           col == {b} \X (1..n)
<1>1. n \in Nat
  BY LineIsNat
<1>2. \A x \in Batches : /\ batch'[x].source = batch[x].source
                         /\ batch'[x].lines = batch[x].lines
                         /\ batch'[x].status = IF x = b THEN s ELSE batch[x].status
  BY DEF TransferTypeOK, BatchRows
<1>3. CASE a[2] = batch[b].source
  <2>1. HeldUnits(a)' = HeldUnits(a) \ col
    <3>1. ASSUME NEW u PROVE u \in HeldUnits(a)' <=> u \in HeldUnits(a) \ col
      BY <1>2, <1>3 DEF HeldUnits
    <3> QED BY <3>1
  <2>2. HeldUnits(a) \cap col = col
    BY <1>3 DEF HeldUnits
  <2>3. IsFiniteSet(col) /\ Cardinality(col) = n
    BY <1>1, ColumnCardinality
  <2> HIDE DEF col, n
  <2>4. /\ IsFiniteSet(HeldUnits(a) \ col)
        /\ Cardinality(HeldUnits(a) \ col)
             = Cardinality(HeldUnits(a)) - Cardinality(HeldUnits(a) \cap col)
    BY FS_Difference
  <2> QED BY <1>3, <2>1, <2>2, <2>3, <2>4 DEF n
<1>4. CASE a[2] # batch[b].source
  <2>1. ASSUME NEW u PROVE u \in HeldUnits(a)' <=> u \in HeldUnits(a)
    BY <1>2, <1>4 DEF HeldUnits
  <2>2. HeldUnits(a)' = HeldUnits(a)
    BY <2>1
  <2>3. Cardinality(HeldUnits(a)) \in Nat
    BY FS_CardinalityType
  <2> QED BY <1>4, <2>2, <2>3
<1> QED BY <1>3, <1>4

-----------------------------------------------------------------------------
(* The transaction rows.                                                   *)

LEMMA TxUntouched ==
  ASSUME TxOK, UNCHANGED txVars
  PROVE  TxOK'
BY DEF TxOK, TxTypeOK, ReturningOut, RestoredOnce, NetMovement, txVars

LEMMA CreateTransactionTx ==
  ASSUME TxOK, NEW t \in TxIds, NEW ty \in OutTypes \cup {"RETURN"}, NEW i \in Items,
         NEW c \in Campuses, NEW n \in Amounts, CreateTransaction(t, ty, i, c, n)
  PROVE  TxOK'
<1> USE TransactionAssumption DEF TxOK, TxTypeOK
<1> DEFINE change == IF ty \in OutTypes THEN -n ELSE n
<1>1. n \in Nat /\ change \in Int
  OBVIOUS
<1>2. /\ itemTx' = [itemTx EXCEPT ![t] = TxRow(ty, i, c, n)]
      /\ txMoved' = [txMoved EXCEPT ![t] = change]
      /\ returning' = returning
      /\ itemTx[t].type = "none"
  BY DEF CreateTransaction
<1>3. TxRow(ty, i, c, n) \in ItemTransactionRows
  BY <1>1 DEF TxRow, ItemTransactionRows
<1>4. TxTypeOK'
  BY <1>1, <1>2, <1>3
<1>5. ReturningOut'
  BY <1>2, <1>4 DEF ReturningOut, OutTypes
<1>6. RestoredOnce'
  BY <1>2 DEF RestoredOnce, NetMovement, TxRow, OutTypes
<1> QED BY <1>4, <1>5, <1>6

LEMMA BeginReturnTx ==
  ASSUME TxOK, NEW w \in Workers, NEW t \in TxIds, BeginReturn(w, t)
  PROVE  TxOK'
BY TransactionAssumption
   DEF TxOK, TxTypeOK, ReturningOut, RestoredOnce, NetMovement, BeginReturn

LEMMA CommitReturnTx ==
  ASSUME TxOK, NEW w \in Workers, CommitReturn(w)
  PROVE  TxOK'
<1> USE TransactionAssumption DEF TxOK, TxTypeOK
<1> DEFINE t == returning[w]
<1>1. /\ t \in TxIds /\ itemTx[t].type \in OutTypes /\ ~itemTx[t].returned
      /\ itemTx[t].campus # NoCampus
  BY DEF CommitReturn, ReturningOut
<1>2. /\ itemTx' = [itemTx EXCEPT ![t] = [itemTx[t] EXCEPT !.returned = TRUE]]
      /\ txMoved' = [txMoved EXCEPT ![t] = txMoved[t] + itemTx[t].quantity]
      /\ returning' = [returning EXCEPT ![w] = NoTx]
  BY DEF CommitReturn
<1> HIDE DEF t
<1>3. itemTx[t] \in ItemTransactionRows /\ txMoved[t] \in Int
  BY <1>1
<1>4. [itemTx[t] EXCEPT !.returned = TRUE] \in ItemTransactionRows
  BY <1>3 DEF ItemTransactionRows
<1>5. TxTypeOK'
  BY <1>1, <1>2, <1>3, <1>4 DEF ItemTransactionRows
<1>6. \A x \in TxIds : /\ itemTx'[x].type = itemTx[x].type
                       /\ itemTx'[x].campus = itemTx[x].campus
                       /\ itemTx'[x].quantity = itemTx[x].quantity
                       /\ itemTx'[x].returned = IF x = t THEN TRUE ELSE itemTx[x].returned
  BY <1>1, <1>2, <1>3 DEF ItemTransactionRows
<1>7. ReturningOut'
  BY <1>2, <1>6 DEF ReturningOut
<1>8. ASSUME NEW x \in TxIds
      PROVE  txMoved'[x] = NetMovement(x)'
  <2>1. CASE x = t
    <3>1. txMoved[t] = -itemTx[t].quantity
      BY <1>1 DEF RestoredOnce, NetMovement, OutTypes
    <3>2. txMoved'[t] = 0
      BY <1>1, <1>2, <1>3, <3>1 DEF ItemTransactionRows
    <3> QED BY <1>1, <1>6, <2>1, <3>2 DEF NetMovement, OutTypes
  <2>2. CASE x # t
    BY <1>2, <1>6, <2>2 DEF RestoredOnce, NetMovement
  <2> QED BY <2>1, <2>2
<1> QED BY <1>5, <1>7, <1>8 DEF RestoredOnce

LEMMA AbortReturnTx ==
  ASSUME TxOK, NEW w \in Workers, AbortReturn(w)
  PROVE  TxOK'
BY DEF TxOK, TxTypeOK, ReturningOut, RestoredOnce, NetMovement, AbortReturn

LEMMA ReceiveBatchTx ==
  ASSUME TxOK, TransferTypeOK, NEW b \in Batches, ReceiveBatch(b)
  PROVE  TxOK'
<1> USE TransferAssumption DEF TxOK, TxTypeOK
<1> DEFINE fresh(t) == \E i \in Issued(b) : t = LineTx(b, i)
<1>1. /\ itemTx' = [t \in TxIds |->
                      IF fresh(t)
                      THEN TxRow("ISSUANCE", t[2], batch[b].destination, batch[b].lines[t[2]])
                      ELSE itemTx[t]]
      /\ txMoved' = [t \in TxIds |->
                       IF fresh(t) THEN -batch[b].lines[t[2]] ELSE txMoved[t]]
      /\ returning' = returning
  BY DEF ReceiveBatch
<1>2. ASSUME NEW t \in TxIds, fresh(t)
      PROVE  /\ t[2] \in Items /\ batch[b].lines[t[2]] \in Nat
             /\ batch[b].destination \in Campuses
  BY <1>2 DEF Issued, Named, LineTx, TransferTypeOK, BatchRows, Lines
<1> HIDE DEF fresh
<1>3. ASSUME NEW t \in TxIds, fresh(t)
      PROVE  /\ itemTx'[t] \in ItemTransactionRows
             /\ itemTx'[t].type = "ISSUANCE" /\ ~itemTx'[t].returned
             /\ itemTx'[t].quantity = batch[b].lines[t[2]]
             /\ itemTx'[t].campus # NoCampus
             /\ txMoved'[t] = -batch[b].lines[t[2]]
  <2>1. /\ itemTx'[t] = TxRow("ISSUANCE", t[2], batch[b].destination, batch[b].lines[t[2]])
        /\ txMoved'[t] = -batch[b].lines[t[2]]
    BY <1>1, <1>3
  <2>2. /\ t[2] \in Items /\ batch[b].lines[t[2]] \in Nat
        /\ batch[b].destination \in Campuses
    BY <1>2, <1>3
  <2>3. batch[b].destination # NoCampus
    BY <2>2, TransactionAssumption
  <2> QED BY <2>1, <2>2, <2>3 DEF TxRow, ItemTransactionRows, OutTypes
<1>4. ASSUME NEW t \in TxIds, ~fresh(t)
      PROVE  itemTx'[t] = itemTx[t] /\ txMoved'[t] = txMoved[t]
  BY <1>1, <1>4
<1>5. TxTypeOK'
  <2>1. itemTx' \in [TxIds -> ItemTransactionRows]
    BY <1>1, <1>3, <1>4
  <2>2. txMoved' \in [TxIds -> Int]
    BY <1>1, <1>2
  <2> QED BY <1>1, <2>1, <2>2
<1>6. ReturningOut'
  BY <1>1, <1>3, <1>4 DEF ReturningOut, OutTypes
<1>7. ASSUME NEW t \in TxIds
      PROVE  txMoved'[t] = NetMovement(t)'
  <2>1. CASE fresh(t)
    BY <1>3, <2>1 DEF NetMovement, OutTypes
  <2>2. CASE ~fresh(t)
    BY <1>4, <2>2 DEF NetMovement, RestoredOnce
  <2> QED BY <2>1, <2>2
<1> QED BY <1>5, <1>6, <1>7 DEF RestoredOnce

-----------------------------------------------------------------------------
(* The batches and what they hold.                                         *)

LEMMA HoldingUntouched ==
  ASSUME HoldingOK, UNCHANGED <<batch, reserved>>
  PROVE  HoldingOK'
BY DEF HoldingOK, TransferTypeOK, EndpointsDiffer, HeldFinite, ReservedForApproved, HeldUnits

LEMMA CreateBatchHolding ==
  ASSUME HoldingOK, NEW b \in Batches, NEW src \in Campuses, NEW dst \in Campuses,
         NEW lines \in Lines, NEW holder \in BOOLEAN,
         CreateBatch(b, src, dst, lines, holder)
  PROVE  HoldingOK'
<1> USE DEF HoldingOK
<1> DEFINE row == [status |-> "PENDING", source |-> src, destination |-> dst,
                   lines |-> lines, holder |-> holder]
<1>1. /\ batch' = [batch EXCEPT ![b] = row]
      /\ batch[b].status = "none" /\ src # dst /\ reserved' = reserved
  BY DEF CreateBatch, itemTxVars, ledgerVars
<1>2. row \in BatchRows
  BY DEF BatchRows
<1>3. TransferTypeOK'
  BY <1>1, <1>2 DEF TransferTypeOK
<1>4. EndpointsDiffer'
  BY <1>1 DEF EndpointsDiffer, TransferTypeOK
<1>5. ASSUME NEW a \in Accounts PROVE HeldUnits(a)' = HeldUnits(a)
  <2>1. ASSUME NEW u PROVE u \in HeldUnits(a)' <=> u \in HeldUnits(a)
    BY <1>1 DEF HeldUnits, TransferTypeOK
  <2> QED BY <2>1
<1>6. HeldFinite' /\ ReservedForApproved'
  BY <1>1, <1>5 DEF HeldFinite, ReservedForApproved
<1> QED BY <1>3, <1>4, <1>6

(* A batch that changes only its status keeps its type and its endpoints.  *)
LEMMA StatusChange ==
  ASSUME TransferTypeOK, EndpointsDiffer, NEW b \in Batches, batch[b].status # "none",
         NEW s \in {"APPROVED", "REJECTED", "COMPLETED"},
         batch' = [batch EXCEPT ![b].status = s]
  PROVE  TransferTypeOK' /\ EndpointsDiffer'
BY DEF TransferTypeOK, EndpointsDiffer, BatchRows

LEMMA ApproveBatchHolding ==
  ASSUME HoldingOK, NEW b \in Batches, ApproveBatch(b)
  PROVE  HoldingOK'
<1> USE DEF HoldingOK
<1>1. /\ batch[b].status = "PENDING"
      /\ batch' = [batch EXCEPT ![b].status = "APPROVED"]
      /\ reserved' = [a \in Accounts |->
            reserved[a] + (IF a[2] = batch[b].source THEN batch[b].lines[a[1]] ELSE 0)]
  BY DEF ApproveBatch, Reserve
<1>2. TransferTypeOK' /\ EndpointsDiffer'
  BY <1>1, StatusChange
<1>3. ASSUME NEW a \in Accounts
      PROVE  IsFiniteSet(HeldUnits(a)') /\ reserved'[a] = Cardinality(HeldUnits(a)')
  BY <1>1, ApprovalHolds DEF HeldFinite, ReservedForApproved
<1>4. HeldFinite' /\ ReservedForApproved'
  BY <1>3 DEF HeldFinite, ReservedForApproved
<1> QED BY <1>2, <1>4

LEMMA ClosingHolding ==
  ASSUME HoldingOK, NEW b \in Batches, batch[b].status = "APPROVED",
         NEW s \in {"REJECTED", "COMPLETED"}, batch' = [batch EXCEPT ![b].status = s],
         reserved' = [a \in Accounts |->
            reserved[a] - (IF a[2] = batch[b].source THEN batch[b].lines[a[1]] ELSE 0)]
  PROVE  HoldingOK'
<1> USE DEF HoldingOK
<1>1. TransferTypeOK' /\ EndpointsDiffer'
  BY StatusChange
<1>2. ASSUME NEW a \in Accounts
      PROVE  IsFiniteSet(HeldUnits(a)') /\ reserved'[a] = Cardinality(HeldUnits(a)')
  BY ClosingReleases DEF HeldFinite, ReservedForApproved
<1>3. HeldFinite' /\ ReservedForApproved'
  BY <1>2 DEF HeldFinite, ReservedForApproved
<1> QED BY <1>1, <1>3

LEMMA RejectPendingHolding ==
  ASSUME HoldingOK, NEW b \in Batches, batch[b].status = "PENDING",
         batch' = [batch EXCEPT ![b].status = "REJECTED"], reserved' = reserved
  PROVE  HoldingOK'
<1> USE DEF HoldingOK
<1>1. TransferTypeOK' /\ EndpointsDiffer'
  BY StatusChange
<1>2. ASSUME NEW a \in Accounts PROVE HeldUnits(a)' = HeldUnits(a)
  <2>1. \A x \in Batches : /\ batch'[x].source = batch[x].source
                           /\ batch'[x].lines = batch[x].lines
                           /\ batch'[x].status = "APPROVED" <=> batch[x].status = "APPROVED"
    BY DEF TransferTypeOK, BatchRows
  <2>2. ASSUME NEW u PROVE u \in HeldUnits(a)' <=> u \in HeldUnits(a)
    BY <2>1 DEF HeldUnits
  <2> QED BY <2>2
<1>3. HeldFinite' /\ ReservedForApproved'
  BY <1>2 DEF HeldFinite, ReservedForApproved
<1> QED BY <1>1, <1>3

-----------------------------------------------------------------------------
(* The invariant is inductive: one lemma per caller of the ledger.         *)

LEMMA InitBooks == ItemTxInit => BooksOK
<1> SUFFICES ASSUME ItemTxInit PROVE BooksOK
  OBVIOUS
<1>1. LedgerOK
  BY InitLedgerOK DEF ItemTxInit
<1>2. AbsentTx \in ItemTransactionRows /\ AbsentTx.type = "none"
  BY LedgerAssumption DEF AbsentTx, ItemTransactionRows
<1>3. TxOK
  BY <1>2 DEF ItemTxInit, TxInit, TxOK, TxTypeOK, ReturningOut, RestoredOnce,
              NetMovement, OutTypes
<1> QED BY <1>1, <1>3 DEF BooksOK

LEMMA InitHolding == LedgerInit /\ BatchInit => HoldingOK
<1> SUFFICES ASSUME LedgerInit, BatchInit PROVE HoldingOK
  OBVIOUS
<1>1. TransferTypeOK /\ EndpointsDiffer
  <2>1. Campuses # {}
    BY LedgerAssumption
  <2>2. AbsentBatch \in BatchRows /\ AbsentBatch.status = "none"
    BY <2>1 DEF AbsentBatch, BatchRows, Lines
  <2> QED BY <2>2 DEF BatchInit, TransferTypeOK, EndpointsDiffer
<1>2. ASSUME NEW a \in Accounts PROVE HeldUnits(a) = {}
  BY DEF HeldUnits, BatchInit, AbsentBatch
<1>3. HeldFinite /\ ReservedForApproved
  BY <1>2, FS_EmptySet DEF HeldFinite, ReservedForApproved, LedgerInit
<1> QED BY <1>1, <1>3 DEF HoldingOK

LEMMA BatchNextInv == TransferInv /\ BatchNext => TransferInv'
<1> SUFFICES ASSUME TransferInv, BatchNext PROVE TransferInv'
  OBVIOUS
<1> USE DEF TransferInv, BooksOK
<1>0. ASSUME NEW b \in Batches PROVE batch[b].lines \in Lines /\ batch[b].source \in Campuses
                                     /\ batch[b].destination \in Campuses
  BY DEF HoldingOK, TransferTypeOK, BatchRows
<1>1. ASSUME NEW b \in Batches, NEW src \in Campuses, NEW dst \in Campuses,
             NEW holder \in BOOLEAN, NEW lines \in [Items -> Amounts \cup {0}],
             CreateBatch(b, src, dst, lines, holder)
      PROVE  TransferInv'
  <2>1. UNCHANGED itemTxVars
    BY <1>1 DEF CreateBatch
  <2>2. UNCHANGED <<stockVars, itemState, txVars>>
    BY <2>1 DEF itemTxVars, ledgerVars, stockVars
  <2>3. lines \in Lines
    <3>1. \A n \in Amounts \cup {0} : n \in Nat
      BY TransactionAssumption
    <3> QED BY <3>1, <1>1 DEF Lines
  <2>4. LedgerOK'
    BY <2>2, UntouchedPreserves DEF LedgerOK, LedgerTypeOK
  <2> QED BY <1>1, <2>2, <2>3, <2>4, CreateBatchHolding, TxUntouched
<1>2. ASSUME NEW b \in Batches, ApproveBatch(b)
      PROVE  TransferInv'
  <2>1. LedgerOK'
    BY <1>0, <1>2, ReservePreserves DEF ApproveBatch
  <2>2. TxOK'
    BY <1>2, TxUntouched DEF ApproveBatch
  <2> QED BY <1>2, <2>1, <2>2, ApproveBatchHolding
<1>3. ASSUME NEW b \in Batches, RejectBatch(b)
      PROVE  TransferInv'
  <2>1. TxOK'
    BY <1>3, TxUntouched DEF RejectBatch
  <2>2. CASE batch[b].status = "PENDING"
    <3>1. UNCHANGED stockVars /\ UNCHANGED itemState
          /\ batch' = [batch EXCEPT ![b].status = "REJECTED"]
      BY <1>3, <2>2 DEF RejectBatch
    <3>2. LedgerOK'
      BY <3>1, UntouchedPreserves DEF LedgerOK, LedgerTypeOK
    <3>3. HoldingOK'
      BY <2>2, <3>1, RejectPendingHolding DEF stockVars
    <3> QED BY <2>1, <3>2, <3>3
  <2>3. CASE batch[b].status # "PENDING"
    <3>1. /\ batch[b].status = "APPROVED"
          /\ ReleaseReservation(batch[b].lines, batch[b].source)
          /\ UNCHANGED itemState
          /\ batch' = [batch EXCEPT ![b].status = "REJECTED"]
      BY <1>3, <2>3 DEF RejectBatch
    <3>2. LedgerOK'
      BY <1>0, <3>1, ReleasePreserves
    <3>3. HoldingOK'
      BY <3>1, ClosingHolding DEF ReleaseReservation
    <3> QED BY <2>1, <3>2, <3>3
  <2> QED BY <2>2, <2>3
<1>4. ASSUME NEW b \in Batches, ReceiveBatch(b)
      PROVE  TransferInv'
  <2>1. /\ TransferReserved(batch[b].lines, Kept(b), batch[b].source, batch[b].destination)
        /\ UNCHANGED itemState
        /\ batch[b].status = "APPROVED"
        /\ batch' = [batch EXCEPT ![b].status = "COMPLETED"]
    BY <1>4 DEF ReceiveBatch
  <2>2. Kept(b) \in Lines /\ \A i \in Items : Kept(b)[i] <= batch[b].lines[i]
    BY <1>0 DEF Kept, Lines
  <2>3. LedgerOK'
    BY <1>0, <2>1, <2>2, TransferReservedPreserves
  <2>4. HoldingOK'
    BY <2>1, ClosingHolding DEF TransferReserved
  <2>5. TxOK'
    BY <1>4, ReceiveBatchTx DEF HoldingOK
  <2> QED BY <2>3, <2>4, <2>5
<1> QED BY <1>1, <1>2, <1>3, <1>4 DEF BatchNext

(* Transactions and the other callers change no reservation.               *)
LEMMA TransactionsNextBooks ==
  ASSUME BooksOK, TransactionsNext
  PROVE  BooksOK' /\ UNCHANGED reserved
<1> USE DEF BooksOK
<1>1. ASSUME NEW t \in DirectTx, NEW ty \in OutTypes \cup {"RETURN"}, NEW i \in Items,
             NEW c \in Campuses, NEW n \in Amounts, CreateTransaction(t, ty, i, c, n)
      PROVE  BooksOK' /\ UNCHANGED reserved
  <2>1. t \in TxIds /\ n \in Int
    BY TransactionAssumption
  <2>2. \E d \in Int : Apply(i, c, d)
    BY <1>1, <2>1 DEF CreateTransaction
  <2>3. LedgerOK'
    BY <1>1, <2>2, ApplyPreserves DEF CreateTransaction
  <2>4. UNCHANGED reserved
    BY <2>2 DEF Apply
  <2> QED BY <1>1, <2>1, <2>3, <2>4, CreateTransactionTx
<1>2. ASSUME NEW w \in Workers, NEW t \in TxIds, BeginReturn(w, t)
      PROVE  BooksOK' /\ UNCHANGED reserved
  <2>1. UNCHANGED <<stockVars, itemState>>
    BY <1>2 DEF BeginReturn, ledgerVars, stockVars
  <2>2. LedgerOK' /\ UNCHANGED reserved
    BY <2>1, UntouchedPreserves DEF LedgerOK, LedgerTypeOK, stockVars
  <2> QED BY <1>2, <2>2, BeginReturnTx
<1>3. ASSUME NEW w \in Workers, CommitReturn(w)
      PROVE  BooksOK' /\ UNCHANGED reserved
  <2> DEFINE row == itemTx[returning[w]]
  <2>1. /\ Apply(row.item, row.campus, row.quantity) /\ UNCHANGED itemState
        /\ row.campus # NoCampus /\ returning[w] # NoTx
    BY <1>3 DEF CommitReturn
  <2>2. row \in ItemTransactionRows
    BY <2>1 DEF TxOK, TxTypeOK
  <2>3. row.item \in Items /\ row.campus \in Campuses /\ row.quantity \in Int
    BY <2>1, <2>2 DEF ItemTransactionRows
  <2> HIDE DEF row
  <2>4. LedgerOK'
    BY <2>1, <2>3, ApplyPreserves
  <2>5. UNCHANGED reserved
    BY <2>1 DEF Apply
  <2> QED BY <1>3, <2>4, <2>5, CommitReturnTx
<1>4. ASSUME NEW w \in Workers, AbortReturn(w)
      PROVE  BooksOK' /\ UNCHANGED reserved
  <2>1. UNCHANGED <<stockVars, itemState>>
    BY <1>4 DEF AbortReturn, ledgerVars, stockVars
  <2>2. LedgerOK' /\ UNCHANGED reserved
    BY <2>1, UntouchedPreserves DEF LedgerOK, LedgerTypeOK, stockVars
  <2> QED BY <1>4, <2>2, AbortReturnTx
<1> QED BY <1>1, <1>2, <1>3, <1>4 DEF TransactionsNext

LEMMA LedgerNextBooks ==
  ASSUME BooksOK, LedgerNext
  PROVE  BooksOK' /\ UNCHANGED reserved
<1> USE DEF BooksOK
<1>1. TxOK'
  BY TxUntouched DEF LedgerNext
<1>2. ASSUME NEW i \in Items, NEW d \in Int, RecordMovement(i, d)
      PROVE  LedgerOK' /\ UNCHANGED reserved
  <2>1. Apply(i, Home[i], d) /\ UNCHANGED itemState /\ Home[i] \in Campuses
    BY <1>2, LedgerAssumption DEF RecordMovement
  <2>2. LedgerOK'
    BY <2>1, ApplyPreserves
  <2> QED BY <2>1, <2>2 DEF Apply
<1>3. ASSUME NEW i \in Items, NEW c \in Campuses, DeactivateBalance(i, c)
      PROVE  LedgerOK' /\ UNCHANGED reserved
  BY <1>3, DeactivatePreserves DEF DeactivateBalance
<1>4. \A n \in Amounts : n \in Int /\ -n \in Int
  BY TransactionAssumption
<1> QED BY <1>1, <1>2, <1>3, <1>4 DEF LedgerNext

LEMMA ItemTxNextInv ==
  ASSUME TransferInv, ItemTxNext, UNCHANGED batch
  PROVE  TransferInv'
<1>1. BooksOK' /\ UNCHANGED reserved
  BY TransactionsNextBooks, LedgerNextBooks DEF ItemTxNext, TransferInv
<1> QED BY <1>1, HoldingUntouched DEF TransferInv

LEMMA BooksUntouched ==
  ASSUME BooksOK, UNCHANGED itemTxVars
  PROVE  BooksOK'
<1>1. UNCHANGED <<stockVars, itemState, txVars>>
  BY DEF itemTxVars, ledgerVars, stockVars
<1>2. LedgerOK'
  BY <1>1, UntouchedPreserves DEF BooksOK, LedgerOK, LedgerTypeOK
<1> QED BY <1>1, <1>2, TxUntouched DEF BooksOK

(* The invariant holds in every reachable state.                           *)
THEOREM TransferInvariance == TransferSpec => []TransferInv
<1>1. TransferInit => TransferInv
  BY InitBooks, InitHolding DEF TransferInit, ItemTxInit, TransferInv
<1>2. TransferInv /\ [TransferNext]_transferVars => TransferInv'
  <2> SUFFICES ASSUME TransferInv, [TransferNext]_transferVars PROVE TransferInv'
    OBVIOUS
  <2>1. CASE TransferNext
    BY <2>1, BatchNextInv, ItemTxNextInv DEF TransferNext
  <2>2. CASE UNCHANGED transferVars
    <3>1. UNCHANGED <<itemTxVars, batch, reserved>>
      BY <2>2 DEF transferVars, itemTxVars, ledgerVars
    <3> QED BY <3>1, BooksUntouched, HoldingUntouched DEF TransferInv
  <2> QED BY <2>1, <2>2
<1> QED BY <1>1, <1>2, PTL DEF TransferSpec

(* Every table keeps its type.                                             *)
THEOREM TransfersTypeCorrect == TransferSpec => []TransfersTypeOK
<1>1. TransferInv => TransfersTypeOK
  BY DEF TransferInv, BooksOK, LedgerOK, TxOK, HoldingOK, TransfersTypeOK
<1> QED BY <1>1, TransferInvariance, PTL

(* No interleaving of transfers, transactions and movements reserves more  *)
(* than a balance holds: the database constraint reserved <= quantity is   *)
(* never what stops a request.                                             *)
THEOREM ReservationsAlwaysCovered == TransferSpec => []ReservationsCovered
<1>1. TransferInv => ReservationsCovered
  BY DEF TransferInv, BooksOK, LedgerOK, LedgerSafe
<1> QED BY <1>1, TransferInvariance, PTL

(* Stock always equals the sum of the movements recorded for it.           *)
THEOREM LedgerAlwaysBalanced == TransferSpec => []LedgerBalanced
<1>1. TransferInv => LedgerBalanced
  BY DEF TransferInv, BooksOK, LedgerOK, LedgerSafe
<1> QED BY <1>1, TransferInvariance, PTL

(* An issuance or withdrawal is restored at most once.                     *)
THEOREM AlwaysRestoredOnce == TransferSpec => []RestoredOnce
<1>1. TransferInv => RestoredOnce
  BY DEF TransferInv, BooksOK, TxOK
<1> QED BY <1>1, TransferInvariance, PTL

(* Reserved stock is exactly what the approved batches hold.               *)
THEOREM ReservationsExact == TransferSpec => []ReservedForApproved
<1>1. TransferInv => ReservedForApproved
  BY DEF TransferInv, HoldingOK
<1> QED BY <1>1, TransferInvariance, PTL

(* The units of an approved batch are among those reserved at its source. *)
LEMMA HeldCanBeReceived == TransferInv => ApprovedCanBeReceived
<1> SUFFICES ASSUME TransferInv, NEW b \in Batches, batch[b].status = "APPROVED"
             PROVE  /\ batch[b].source # batch[b].destination
                    /\ CanConsume(batch[b].lines, batch[b].source)
                    /\ \A i \in Issued(b) : itemState[i] = "active" => CanIssueOnArrival(b, i)
  BY DEF ApprovedCanBeReceived
<1> USE DEF TransferInv, BooksOK, LedgerOK, LedgerTypeOK, HoldingOK
<1>1. batch[b].source \in Campuses /\ batch[b].destination \in Campuses
      /\ batch[b].lines \in Lines
  BY DEF TransferTypeOK, BatchRows
<1>2. batch[b].source # batch[b].destination
  BY DEF EndpointsDiffer
<1>3. ASSUME NEW i \in Items
      PROVE  reserved[<<i, batch[b].source>>] >= batch[b].lines[i]
  <2> DEFINE a == <<i, batch[b].source>>
             col == {b} \X (1..batch[b].lines[i])
  <2>1. a \in Accounts /\ batch[b].lines[i] \in Nat
    BY <1>1 DEF Accounts, Lines
  <2>2. col \in SUBSET HeldUnits(a)
    BY DEF HeldUnits
  <2>3. IsFiniteSet(HeldUnits(a)) /\ reserved[a] = Cardinality(HeldUnits(a))
    BY <2>1 DEF HeldFinite, ReservedForApproved
  <2>4. Cardinality(col) = batch[b].lines[i]
    BY <2>1, ColumnCardinality
  <2> HIDE DEF a, col
  <2>5. Cardinality(col) <= Cardinality(HeldUnits(a))
    BY <2>2, <2>3, FS_Subset
  <2>6. reserved[a] \in Nat
    BY <2>1
  <2> QED BY <2>1, <2>3, <2>4, <2>5, <2>6 DEF a
<1>4. \A a \in Accounts : reserved[a] <= quantity[a]
  BY DEF LedgerSafe, ReservationsCovered
<1>5. CanConsume(batch[b].lines, batch[b].source)
  <2> SUFFICES ASSUME NEW i \in Named(batch[b].lines)
               PROVE  /\ reserved[<<i, batch[b].source>>] >= batch[b].lines[i]
                      /\ quantity[<<i, batch[b].source>>] >= batch[b].lines[i]
    BY DEF CanConsume
  <2>1. i \in Items /\ <<i, batch[b].source>> \in Accounts /\ batch[b].lines[i] \in Nat
    BY <1>1 DEF Named, Accounts, Lines
  <2> QED BY <1>3, <1>4, <2>1
<1>6. ASSUME NEW i \in Issued(b), itemState[i] = "active"
      PROVE  CanIssueOnArrival(b, i)
  <2>1. i \in Items /\ <<i, batch[b].destination>> \in Accounts /\ batch[b].lines[i] \in Nat
    BY <1>1 DEF Issued, Named, Accounts, Lines
  <2> QED BY <1>4, <1>6, <2>1 DEF CanIssueOnArrival, Available
<1> QED BY <1>2, <1>5, <1>6

(* An approved batch can be received, whatever happened since.             *)
THEOREM ApprovalIsAPromise == TransferSpec => []ApprovedCanBeReceived
BY HeldCanBeReceived, TransferInvariance, PTL

-----------------------------------------------------------------------------
(* Sums over finite sets.  MapThenSumSet adds by a recursion, and the       *)
(* prover has no induction over sets; a sum is therefore counted, as the    *)
(* number of units above zero less the number of units below it, and the    *)
(* recursion is shown to compute that number.                               *)

\* A column of h[x] for each x of s.
Pile(h, s) == UNION {{x} \X h[x] : x \in s}

(* A column has as many elements as its height. *)
LEMMA ColumnOf ==
  ASSUME NEW x, NEW c, IsFiniteSet(c)
  PROVE  IsFiniteSet({x} \X c) /\ Cardinality({x} \X c) = Cardinality(c)
<1>1. IsFiniteSet({x}) /\ Cardinality({x}) = 1
  BY FS_Singleton
<1>2. IsFiniteSet({x} \X c) /\ Cardinality({x} \X c) = Cardinality({x}) * Cardinality(c)
  BY <1>1, FS_Product
<1> QED BY <1>1, <1>2, FS_CardinalityType

(* Finitely many finite columns make a finite pile. *)
LEMMA PileFinite ==
  ASSUME NEW h, NEW s, IsFiniteSet(s), \A x \in s : IsFiniteSet(h[x])
  PROVE  IsFiniteSet(Pile(h, s))
<1> DEFINE cols == {{x} \X h[x] : x \in s}
           cut == [x \in s |-> {x} \X h[x]]
<1>1. \A c \in cols : IsFiniteSet(c)
  <2>1. ASSUME NEW x \in s PROVE IsFiniteSet({x} \X h[x])
    BY ColumnOf
  <2> QED BY <2>1
<1>2. cut \in Surjection(s, cols)
  BY DEF Surjection
<1>3. IsFiniteSet(cols)
  BY <1>2, FS_Surjection
<1> QED BY <1>1, <1>3, FS_UNION DEF Pile

(* A pile is one of its columns beside the rest. *)
LEMMA PileStep ==
  ASSUME NEW h, NEW s, IsFiniteSet(s), \A x \in s : IsFiniteSet(h[x]), NEW x \in s
  PROVE  Cardinality(Pile(h, s)) = Cardinality(h[x]) + Cardinality(Pile(h, s \ {x}))
<1> DEFINE col == {x} \X h[x]
           rest == Pile(h, s \ {x})
<1>1. IsFiniteSet(col) /\ Cardinality(col) = Cardinality(h[x])
  BY ColumnOf
<1>2. IsFiniteSet(rest)
  BY FS_Subset, PileFinite
<1>3. Pile(h, s) = rest \cup col
  <2>1. ASSUME NEW p PROVE p \in Pile(h, s) <=> p \in rest \cup col
    BY DEF Pile
  <2> QED BY <2>1
<1>4. rest \cap col = {}
  BY DEF Pile
<1> HIDE DEF col, rest
<1>5. Cardinality(rest \cup col) = Cardinality(rest) + Cardinality(col) - Cardinality(rest \cap col)
  BY <1>1, <1>2, FS_Union
<1>6. Cardinality(rest) \in Nat /\ Cardinality(col) \in Nat /\ Cardinality(rest \cap col) = 0
  BY <1>1, <1>2, <1>4, FS_CardinalityType, FS_EmptySet
<1> QED BY <1>1, <1>3, <1>5, <1>6 DEF rest

\* The units of f above zero; those below zero are the units of -f.
Units(f, s) == Pile([x \in s |-> 1..f[x]], s)
SumOn(f, s) == Cardinality(Units(f, s)) - Cardinality(Units([x \in s |-> -f[x]], s))

(* Equal summands have the same units. *)
LEMMA UnitsSame ==
  ASSUME NEW f, NEW g, NEW s, \A x \in s : f[x] = g[x]
  PROVE  Units(f, s) = Units(g, s)
BY DEF Units, Pile

(* The units of a sum are those of one summand and those of the rest. *)
LEMMA UnitsStep ==
  ASSUME NEW f, NEW s, IsFiniteSet(s), \A x \in s : f[x] \in Int
  PROVE  /\ Cardinality(Units(f, s)) \in Nat
         /\ \A x \in s : Cardinality(Units(f, s))
                           = (IF f[x] > 0 THEN f[x] ELSE 0) + Cardinality(Units(f, s \ {x}))
<1> DEFINE h == [y \in s |-> 1..f[y]]
<1>1. \A y \in s : IsFiniteSet(h[y]) /\ Cardinality(h[y]) = IF f[y] > 0 THEN f[y] ELSE 0
  BY FS_Interval
<1>2. ASSUME NEW x \in s PROVE Units(f, s \ {x}) = Pile(h, s \ {x})
  BY DEF Units, Pile
<1>3. Units(f, s) = Pile(h, s)
  BY DEF Units
<1> HIDE DEF h
<1>4. \A x \in s : Cardinality(Pile(h, s)) = Cardinality(h[x]) + Cardinality(Pile(h, s \ {x}))
  BY <1>1, PileStep
<1>5. Cardinality(Pile(h, s)) \in Nat
  BY <1>1, PileFinite, FS_CardinalityType
<1> QED BY <1>1, <1>2, <1>3, <1>4, <1>5

(* The sum over no elements. *)
LEMMA SumOnEmpty == ASSUME NEW f PROVE SumOn(f, {}) = 0
<1>1. Units(f, {}) = {} /\ Units([x \in {} |-> -f[x]], {}) = {}
  BY DEF Units, Pile
<1> QED BY <1>1, FS_EmptySet DEF SumOn

(* A sum is one of its summands and the sum of the rest. *)
LEMMA SumOnStep ==
  ASSUME NEW f, NEW s, IsFiniteSet(s), \A x \in s : f[x] \in Int
  PROVE  /\ SumOn(f, s) \in Int
         /\ \A x \in s : SumOn(f, s) = f[x] + SumOn(f, s \ {x})
<1> DEFINE g == [x \in s |-> -f[x]]
<1>1. \A x \in s : g[x] \in Int /\ g[x] = -f[x]
  OBVIOUS
<1>2. ASSUME NEW x \in s
      PROVE  Units([y \in s \ {x} |-> -f[y]], s \ {x}) = Units(g, s \ {x})
  BY UnitsSame
<1>3. SumOn(f, s) = Cardinality(Units(f, s)) - Cardinality(Units(g, s))
      /\ \A x \in s : SumOn(f, s \ {x})
                        = Cardinality(Units(f, s \ {x})) - Cardinality(Units(g, s \ {x}))
  BY <1>2 DEF SumOn
<1> HIDE DEF g
<1>4. /\ Cardinality(Units(f, s)) \in Nat
      /\ \A x \in s : Cardinality(Units(f, s))
                        = (IF f[x] > 0 THEN f[x] ELSE 0) + Cardinality(Units(f, s \ {x}))
  BY UnitsStep
<1>5. /\ Cardinality(Units(g, s)) \in Nat
      /\ \A x \in s : Cardinality(Units(g, s))
                        = (IF g[x] > 0 THEN g[x] ELSE 0) + Cardinality(Units(g, s \ {x}))
  BY <1>1, UnitsStep
<1>6. ASSUME NEW x \in s
      PROVE  Cardinality(Units(f, s \ {x})) \in Nat /\ Cardinality(Units(g, s \ {x})) \in Nat
  <2>1. IsFiniteSet(s \ {x})
    BY FS_RemoveElement
  <2>2. Cardinality(Units(f, s \ {x})) \in Nat
    BY <2>1, UnitsStep
  <2>3. Cardinality(Units(g, s \ {x})) \in Nat
    BY <1>1, <2>1, UnitsStep
  <2> QED BY <2>2, <2>3
<1> QED BY <1>1, <1>3, <1>4, <1>5, <1>6

(* Among the subsets of a finite set that have a property, one is minimal. *)
LEMMA SmallestSubset ==
  ASSUME NEW S, IsFiniteSet(S), NEW T \in SUBSET (SUBSET S), T # {}
  PROVE \E s \in T : \A u \in T : ~(u \subseteq s /\ u # s)
<1>1. IsWellFoundedOn(StrictSubsetOrdering(S), SUBSET S)
  BY FS_StrictSubsetOrderingWellFounded, FS_FiniteSubsetsOfFinite
<1>2. \E s \in T : \A u \in T : ~(<<u, s>> \in StrictSubsetOrdering(S))
  BY <1>1, WFMin
<1>3. \A s, u \in T : u \subseteq s /\ u # s => <<u, s>> \in StrictSubsetOrdering(S)
  BY DEF StrictSubsetOrdering
<1> QED BY <1>2, <1>3

\* The recursion by which MapThenSumSet adds up f.
Adds(g, f, S) ==
  g = [s \in SUBSET S |-> IF s = {} THEN 0
                          ELSE f[CHOOSE x \in s : TRUE] + g[s \ {CHOOSE x \in s : TRUE}]]

(* SumOn satisfies that recursion, *)
LEMMA SumOnAdds ==
  ASSUME NEW S, IsFiniteSet(S), NEW f, \A x \in S : f[x] \in Int
  PROVE  Adds([s \in SUBSET S |-> SumOn(f, s)], f, S)
<1> DEFINE g == [s \in SUBSET S |-> SumOn(f, s)]
<1>1. ASSUME NEW s \in SUBSET S, s # {}
      PROVE  g[s] = f[CHOOSE x \in s : TRUE] + g[s \ {CHOOSE x \in s : TRUE}]
  <2>1. PICK x \in s : x = CHOOSE y \in s : TRUE
    BY <1>1
  <2>2. IsFiniteSet(s) /\ \A y \in s : f[y] \in Int
    BY FS_Subset
  <2>3. SumOn(f, s) = f[x] + SumOn(f, s \ {x})
    BY <2>2, SumOnStep
  <2> QED BY <2>1, <2>3
<1>2. g[{}] = 0
  BY SumOnEmpty
<1>3. \A s \in SUBSET S : g[s] = IF s = {} THEN 0
                          ELSE f[CHOOSE x \in s : TRUE] + g[s \ {CHOOSE x \in s : TRUE}]
  BY <1>1, <1>2
<1> QED BY <1>3 DEF Adds

(* and nothing else does: on a smallest set where another function differed  *)
(* from SumOn, it would agree with it.                                       *)
LEMMA AddsIsSumOn ==
  ASSUME NEW S, IsFiniteSet(S), NEW f, \A x \in S : f[x] \in Int, NEW g, Adds(g, f, S)
  PROVE  g[S] = SumOn(f, S)
<1> DEFINE T == {s \in SUBSET S : g[s] # SumOn(f, s)}
<1>1. SUFFICES ASSUME T # {} PROVE FALSE
  OBVIOUS
<1>2. PICK s \in T : \A u \in T : ~(u \subseteq s /\ u # s)
  <2>1. T \in SUBSET (SUBSET S)
    OBVIOUS
  <2> HIDE DEF T
  <2> QED BY <1>1, <2>1, SmallestSubset
<1>3. \A u \in SUBSET S : u \subseteq s /\ u # s => g[u] = SumOn(f, u)
  BY <1>2
<1>4. s # {}
  BY SumOnEmpty DEF Adds
<1>5. PICK x \in s : x = CHOOSE y \in s : TRUE
  BY <1>4
<1>6. g[s] = f[x] + g[s \ {x}]
  BY <1>4, <1>5 DEF Adds
<1>7. g[s \ {x}] = SumOn(f, s \ {x})
  BY <1>3
<1>8. SumOn(f, s) = f[x] + SumOn(f, s \ {x})
  BY FS_Subset, SumOnStep
<1> QED BY <1>6, <1>7, <1>8

(* What the recursion of MapThenSumSet returns, then, is SumOn. *)
LEMMA SumByRecursion ==
  ASSUME NEW S, IsFiniteSet(S), NEW f, \A x \in S : f[x] \in Int
  PROVE  (CHOOSE g : Adds(g, f, S))[S] = SumOn(f, S)
<1> DEFINE g == CHOOSE g : Adds(g, f, S)
<1>1. \E h : Adds(h, f, S)
  BY SumOnAdds
<1>2. Adds(g, f, S)
  BY <1>1
<1> HIDE DEF g
<1>3. g[S] = SumOn(f, S)
  BY <1>2, AddsIsSumOn
<1> QED BY <1>3 DEF g

(* A sum depends on the summands only, and zeros do not count. *)
LEMMA SumOnSame ==
  ASSUME NEW f, NEW g, NEW s, NEW r \in SUBSET s, \A x \in r : f[x] = g[x],
         \A x \in s \ r : f[x] = 0
  PROVE  SumOn(f, s) = SumOn(g, r)
<1>1. Units(f, s) = Units(g, r)
  BY DEF Units, Pile
<1>2. Units([x \in s |-> -f[x]], s) = Units([x \in r |-> -g[x]], r)
  BY DEF Units, Pile
<1> QED BY <1>1, <1>2 DEF SumOn

(* A sum of natural numbers. *)
LEMMA SumOnNat ==
  ASSUME NEW f, NEW s, IsFiniteSet(s), \A x \in s : f[x] \in Nat
  PROVE  SumOn(f, s) \in Nat
<1>1. Units([x \in s |-> -f[x]], s) = {}
  BY DEF Units, Pile
<1>2. Cardinality(Units(f, s)) \in Nat
  BY UnitsStep
<1> QED BY <1>1, <1>2, FS_EmptySet DEF SumOn

(* The sum of the negated summands. *)
LEMMA SumOnNegated ==
  ASSUME NEW f, NEW g, NEW s, IsFiniteSet(s), \A x \in s : f[x] \in Int /\ g[x] = -f[x]
  PROVE  SumOn(g, s) = -SumOn(f, s)
<1>1. \A x \in s : g[x] \in Int /\ -g[x] = f[x]
  OBVIOUS
<1>2. Units(g, s) = Units([x \in s |-> -f[x]], s) /\ Units([x \in s |-> -g[x]], s) = Units(f, s)
  BY <1>1, UnitsSame
<1>3. Cardinality(Units(f, s)) \in Nat /\ Cardinality(Units(g, s)) \in Nat
  BY <1>1, UnitsStep
<1> QED BY <1>2, <1>3 DEF SumOn

(* One summand changes. *)
LEMMA SumOnChange ==
  ASSUME NEW f, NEW g, NEW s, IsFiniteSet(s), \A x \in s : f[x] \in Int /\ g[x] \in Int,
         NEW y \in s, \A x \in s \ {y} : g[x] = f[x]
  PROVE  SumOn(g, s) = SumOn(f, s) - f[y] + g[y]
<1>1. SumOn(f, s) = f[y] + SumOn(f, s \ {y}) /\ SumOn(g, s) = g[y] + SumOn(g, s \ {y})
  BY SumOnStep
<1>2. SumOn(g, s \ {y}) = SumOn(f, s \ {y})
  BY SumOnSame
<1>3. SumOn(f, s \ {y}) \in Int
  BY FS_RemoveElement, SumOnStep
<1> QED BY <1>1, <1>2, <1>3

(* One element is added. *)
LEMMA SumOnAdd ==
  ASSUME NEW f, NEW g, NEW s, IsFiniteSet(s), NEW y, y \notin s, g[y] \in Int,
         \A x \in s : f[x] \in Int /\ g[x] = f[x]
  PROVE  SumOn(g, s \cup {y}) = SumOn(f, s) + g[y]
<1>1. IsFiniteSet(s \cup {y}) /\ (s \cup {y}) \ {y} = s
  BY FS_AddElement
<1>2. \A z \in s \cup {y} : g[z] \in Int
  OBVIOUS
<1>3. \A z \in s \cup {y} : SumOn(g, s \cup {y}) = g[z] + SumOn(g, (s \cup {y}) \ {z})
  BY <1>1, <1>2, SumOnStep
<1>4. SumOn(g, s \cup {y}) = g[y] + SumOn(g, s)
  BY <1>1, <1>3
<1>5. SumOn(g, s) = SumOn(f, s)
  BY SumOnSame
<1>6. SumOn(f, s) \in Int
  BY SumOnStep
<1> QED BY <1>4, <1>5, <1>6

-----------------------------------------------------------------------------
(* The stock of an item, over its campuses.                                 *)

\* OnHand, of any quantities.
StockOf(q, i) == MapThenSumSet(LAMBDA c : q[<<i, c>>], Campuses)

Shelf(q, i) == [c \in Campuses |-> q[<<i, c>>]]

(* The stock of an item is the sum of its balances. *)
LEMMA StockIsSum ==
  ASSUME NEW q \in [Accounts -> Int], NEW i \in Items
  PROVE  StockOf(q, i) = SumOn(Shelf(q, i), Campuses)
<1> DEFINE Adding(g) == g = [s \in SUBSET Campuses |->
             IF s = {} THEN 0
             ELSE q[<<i, CHOOSE c \in s : TRUE>>] + g[s \ {CHOOSE c \in s : TRUE}]]
<1>1. StockOf(q, i) = (CHOOSE g : Adding(g))[Campuses]
  BY DEF StockOf, MapThenSumSet, MapThenFoldSet
<1>2. \A s \in SUBSET Campuses : s # {} =>
        Shelf(q, i)[CHOOSE c \in s : TRUE] = q[<<i, CHOOSE c \in s : TRUE>>]
  BY DEF Shelf
<1>3. ASSUME NEW g PROVE Adding(g) <=> Adds(g, Shelf(q, i), Campuses)
  <2> DEFINE x(s) == CHOOSE c \in s : TRUE
  <2>1. \A s \in SUBSET Campuses : s # {} => Shelf(q, i)[x(s)] = q[<<i, x(s)>>]
    BY <1>2
  <2> HIDE DEF x
  <2>2. [s \in SUBSET Campuses |-> IF s = {} THEN 0 ELSE q[<<i, x(s)>>] + g[s \ {x(s)}]]
        = [s \in SUBSET Campuses |-> IF s = {} THEN 0 ELSE Shelf(q, i)[x(s)] + g[s \ {x(s)}]]
    BY <2>1
  <2> QED BY <2>2 DEF Adds, x
<1>4. IsFiniteSet(Campuses) /\ \A c \in Campuses : Shelf(q, i)[c] \in Int
  BY LedgerAssumption DEF Shelf, Accounts
<1>5. \E g : Adding(g)
  BY <1>3, <1>4, SumOnAdds
<1>6. Adding(CHOOSE g : Adding(g))
  BY <1>5
<1> DEFINE g == CHOOSE g : Adding(g)
<1>7. Adds(g, Shelf(q, i), Campuses)
  BY <1>3, <1>6
<1> HIDE DEF g
<1>8. g[Campuses] = SumOn(Shelf(q, i), Campuses)
  BY <1>4, <1>7, AddsIsSumOn
<1> QED BY <1>1, <1>8 DEF g

(* The stock of an item is a natural number. *)
LEMMA StockType ==
  ASSUME NEW q \in [Accounts -> Nat], NEW i \in Items
  PROVE  StockOf(q, i) \in Nat
<1>1. \A c \in Campuses : Shelf(q, i)[c] \in Nat
  BY DEF Shelf, Accounts
<1> QED BY <1>1, LedgerAssumption, StockIsSum, SumOnNat

(* The stock depends on the balances of the item only. *)
LEMMA StockSame ==
  ASSUME NEW q \in [Accounts -> Int], NEW r \in [Accounts -> Int], NEW i \in Items,
         \A c \in Campuses : r[<<i, c>>] = q[<<i, c>>]
  PROVE  StockOf(r, i) = StockOf(q, i)
<1>1. Shelf(r, i) = Shelf(q, i)
  BY DEF Shelf
<1> QED BY <1>1, StockIsSum

(* One balance changes. *)
LEMMA StockApplied ==
  ASSUME NEW q \in [Accounts -> Int], NEW i \in Items, NEW c \in Campuses, NEW d \in Int,
         NEW r \in [Accounts -> Int], r[<<i, c>>] = q[<<i, c>>] + d,
         \A a \in Accounts \ {<<i, c>>} : r[a] = q[a]
  PROVE  /\ StockOf(r, i) = StockOf(q, i) + d
         /\ \A j \in Items \ {i} : StockOf(r, j) = StockOf(q, j)
<1>1. <<i, c>> \in Accounts /\ \A k \in Campuses \ {c} : <<i, k>> \in Accounts \ {<<i, c>>}
  BY DEF Accounts
<1>2. /\ \A k \in Campuses : Shelf(q, i)[k] \in Int /\ Shelf(r, i)[k] \in Int
      /\ \A k \in Campuses \ {c} : Shelf(r, i)[k] = Shelf(q, i)[k]
      /\ Shelf(r, i)[c] = Shelf(q, i)[c] + d
  BY <1>1 DEF Shelf, Accounts
<1>3. IsFiniteSet(Campuses)
  BY LedgerAssumption
<1>4. SumOn(Shelf(r, i), Campuses)
        = SumOn(Shelf(q, i), Campuses) - Shelf(q, i)[c] + Shelf(r, i)[c]
  BY <1>2, <1>3, SumOnChange
<1>5. SumOn(Shelf(q, i), Campuses) \in Int
  BY <1>2, <1>3, SumOnStep
<1>6. StockOf(r, i) = StockOf(q, i) + d
  BY <1>1, <1>2, <1>4, <1>5, StockIsSum
<1>7. ASSUME NEW j \in Items \ {i} PROVE StockOf(r, j) = StockOf(q, j)
  <2>1. \A k \in Campuses : r[<<j, k>>] = q[<<j, k>>]
    BY DEF Accounts
  <2> QED BY <1>1, <2>1, StockSame
<1> QED BY <1>6, <1>7

(* An item moves from one campus to another, and part of it on. *)
LEMMA StockMoved ==
  ASSUME NEW q \in [Accounts -> Int], NEW i \in Items, NEW n \in Int, NEW k \in Int,
         NEW src \in Campuses, NEW dst \in Campuses, src # dst, NEW r \in [Accounts -> Int],
         \A c \in Campuses : r[<<i, c>>] =
           q[<<i, c>>] + (IF c = src THEN -n ELSE IF c = dst THEN k ELSE 0)
  PROVE  StockOf(r, i) = StockOf(q, i) - n + k
<1>1. PICK p \in [Accounts -> Int] :
        p[<<i, src>>] = q[<<i, src>>] - n /\ \A a \in Accounts \ {<<i, src>>} : p[a] = q[a]
  <2>1. [q EXCEPT ![<<i, src>>] = q[<<i, src>>] - n] \in [Accounts -> Int]
    BY DEF Accounts
  <2> QED BY <2>1 DEF Accounts
<1>2. StockOf(p, i) = StockOf(q, i) + (-n)
  <2>1. p[<<i, src>>] = q[<<i, src>>] + (-n) /\ -n \in Int
    BY <1>1 DEF Accounts
  <2> QED BY <1>1, <2>1, StockApplied
<1>3. PICK o \in [Accounts -> Int] :
        o[<<i, dst>>] = p[<<i, dst>>] + k /\ \A a \in Accounts \ {<<i, dst>>} : o[a] = p[a]
  <2>1. [p EXCEPT ![<<i, dst>>] = p[<<i, dst>>] + k] \in [Accounts -> Int]
    BY DEF Accounts
  <2> QED BY <2>1 DEF Accounts
<1>4. StockOf(o, i) = StockOf(p, i) + k
  BY <1>3, StockApplied
<1>5. StockOf(r, i) = StockOf(o, i)
  <2>1. \A c \in Campuses : r[<<i, c>>] = o[<<i, c>>]
    BY <1>1, <1>3 DEF Accounts
  <2> QED BY <2>1, StockSame
<1>6. StockOf(q, i) \in Int
  <2>1. \A c \in Campuses : Shelf(q, i)[c] \in Int
    BY DEF Shelf, Accounts
  <2> QED BY <2>1, LedgerAssumption, StockIsSum, SumOnStep
<1> QED BY <1>2, <1>4, <1>5, <1>6

-----------------------------------------------------------------------------
(* The rows that took stock out, and what they hold.                        *)

\* The rows that took stock of item i out, and the sum MapThenSumSet makes of them.
OutRows(x, i) == {t \in TxIds : x[t].type \in OutTypes /\ x[t].item = i}
RowsUsed(x) == {t \in TxIds : x[t].type # "none"}

(* Finitely many rows are used, so finitely many took stock of an item out. *)
LEMMA OutRowsFinite ==
  ASSUME NEW x, IsFiniteSet(RowsUsed(x)), NEW i
  PROVE  IsFiniteSet(OutRows(x, i))
<1>1. OutRows(x, i) \subseteq RowsUsed(x)
  BY DEF OutRows, RowsUsed, OutTypes
<1> QED BY <1>1, FS_Subset

(* What the rows of an item moved is a sum over them. *)
LEMMA MovedIsSum ==
  ASSUME NEW x, IsFiniteSet(RowsUsed(x)), NEW m \in [TxIds -> Int], NEW i
  PROVE  /\ MapThenSumSet(LAMBDA t : m[t], OutRows(x, i)) = SumOn(m, OutRows(x, i))
         /\ SumOn(m, OutRows(x, i)) \in Int
<1> DEFINE s == OutRows(x, i)
<1>1. IsFiniteSet(s) /\ \A t \in s : m[t] \in Int
  BY OutRowsFinite DEF OutRows
<1> HIDE DEF s
<1>2. (CHOOSE g : Adds(g, m, s))[s] = SumOn(m, s)
  BY <1>1, SumByRecursion
<1>3. MapThenSumSet(LAMBDA t : m[t], s) = SumOn(m, s)
  BY <1>2 DEF MapThenSumSet, MapThenFoldSet, Adds
<1>4. SumOn(m, s) \in Int
  BY <1>1, SumOnStep
<1> QED BY <1>3, <1>4 DEF s

\* What Custody!Total adds to the stock, of any holdings.
OutHoldings(h, i) == {t \in TxIds : h[t].state = "out" /\ h[t].item = i}

(* What the holdings of an item amount to is a sum over them. *)
LEMMA HeldIsSum ==
  ASSUME NEW h, NEW i, IsFiniteSet(OutHoldings(h, i)),
         \A t \in OutHoldings(h, i) : h[t].quantity \in Int
  PROVE  MapThenSumSet(LAMBDA t : h[t].quantity, OutHoldings(h, i))
           = SumOn([t \in OutHoldings(h, i) |-> h[t].quantity], OutHoldings(h, i))
<1> DEFINE s == OutHoldings(h, i)
           f == [t \in s |-> h[t].quantity]
           Adding(g) == g = [u \in SUBSET s |->
             IF u = {} THEN 0
             ELSE h[CHOOSE t \in u : TRUE].quantity + g[u \ {CHOOSE t \in u : TRUE}]]
<1>1. MapThenSumSet(LAMBDA t : h[t].quantity, s) = (CHOOSE g : Adding(g))[s]
  BY DEF MapThenSumSet, MapThenFoldSet
<1>2. IsFiniteSet(s) /\ \A t \in s : f[t] \in Int /\ f[t] = h[t].quantity
  OBVIOUS
<1> HIDE DEF s, f
<1>3. ASSUME NEW g PROVE Adding(g) <=> Adds(g, f, s)
  <2> DEFINE x(u) == CHOOSE t \in u : TRUE
  <2>1. \A u \in SUBSET s : u # {} => f[x(u)] = h[x(u)].quantity
    BY <1>2
  <2> HIDE DEF x
  <2>2. [u \in SUBSET s |-> IF u = {} THEN 0 ELSE h[x(u)].quantity + g[u \ {x(u)}]]
        = [u \in SUBSET s |-> IF u = {} THEN 0 ELSE f[x(u)] + g[u \ {x(u)}]]
    BY <2>1
  <2> QED BY <2>2 DEF Adds, x
<1>4. \E g : Adding(g)
  BY <1>2, <1>3, SumOnAdds
<1>5. Adding(CHOOSE g : Adding(g))
  BY <1>4
<1> DEFINE g == CHOOSE g : Adding(g)
<1>6. Adds(g, f, s)
  BY <1>3, <1>5
<1> HIDE DEF g
<1>7. g[s] = SumOn(f, s)
  BY <1>2, <1>6, AddsIsSumOn
<1> QED BY <1>1, <1>7 DEF g, f, s

-----------------------------------------------------------------------------
\* Issues and withdrawals name their campus.
CampusKnown == \A t \in TxIds : itemTx[t].type \in OutTypes => itemTx[t].campus # NoCampus

\* The issues of a batch are not there before its receipt.
LinesFresh ==
  \A b \in Batches : batch[b].status # "COMPLETED" =>
    \A i \in Items : itemTx[LineTx(b, i)].type = "none"

CustodyInv == TransferInv /\ IsFiniteSet(RowsUsed(itemTx)) /\ CampusKnown /\ LinesFresh

\* The amounts of the refinement, in terms of sums.
Accounted ==
  \A i \in Items :
    /\ OnHand(i) = StockOf(quantity, i) /\ OnHand(i) \in Nat
    /\ Entered(i) = StockOf(quantity, i) - SumOn(txMoved, OutRows(itemTx, i))
    /\ SumOn(txMoved, OutRows(itemTx, i)) \in Int
    /\ Custody!Total(i) = Entered(i)

(* With their rows and their net movements, the amounts StockCustody sees add up. *)
LEMMA AmountsAccounted == CustodyInv => Accounted
<1> SUFFICES ASSUME CustodyInv, NEW i \in Items
    PROVE /\ OnHand(i) = StockOf(quantity, i) /\ OnHand(i) \in Nat
          /\ Entered(i) = StockOf(quantity, i) - SumOn(txMoved, OutRows(itemTx, i))
          /\ SumOn(txMoved, OutRows(itemTx, i)) \in Int
          /\ Custody!Total(i) = Entered(i)
  BY DEF Accounted
<1> DEFINE rows == OutRows(itemTx, i)
           h == [t \in TxIds |-> Holding(t)]
           out == OutHoldings(h, i)
<1>1. quantity \in [Accounts -> Nat] /\ txMoved \in [TxIds -> Int]
      /\ itemTx \in [TxIds -> ItemTransactionRows] /\ IsFiniteSet(RowsUsed(itemTx))
  BY DEF CustodyInv, TransferInv, BooksOK, LedgerOK, LedgerTypeOK, TxOK, TxTypeOK
<1>2. OnHand(i) = StockOf(quantity, i)
  BY DEF OnHand, StockOf
<1>3. OnHand(i) \in Nat
  BY <1>1, <1>2, StockType
<1>4. Entered(i) = OnHand(i) - MapThenSumSet(LAMBDA t : txMoved[t], rows)
  BY DEF Entered, OutRows
<1>5. /\ MapThenSumSet(LAMBDA t : txMoved[t], rows) = SumOn(txMoved, rows)
      /\ SumOn(txMoved, rows) \in Int
  BY <1>1, MovedIsSum
<1>6. \A t \in rows : /\ t \in TxIds /\ itemTx[t].quantity \in Nat
                      /\ h[t].state = IF itemTx[t].returned THEN "back" ELSE "out"
                      /\ h[t].item = i /\ h[t].quantity = itemTx[t].quantity
                      /\ txMoved[t] = IF itemTx[t].returned THEN 0 ELSE -itemTx[t].quantity
  <2>1. \A t \in rows : itemTx[t].campus # NoCampus /\ itemTx[t].type \in OutTypes
                        /\ itemTx[t].item = i /\ t \in TxIds
    BY DEF CustodyInv, CampusKnown, OutRows
  <2>2. \A t \in rows : txMoved[t] = IF itemTx[t].returned THEN 0 ELSE -itemTx[t].quantity
    BY <2>1 DEF CustodyInv, TransferInv, BooksOK, TxOK, RestoredOnce, NetMovement, OutTypes
  <2>3. \A t \in rows : itemTx[t].quantity \in Nat
    BY <1>1, <2>1 DEF ItemTransactionRows
  <2> QED BY <2>1, <2>2, <2>3 DEF Holding
<1>7. out = {t \in rows : ~itemTx[t].returned}
  <2>1. \A t \in TxIds : t \in out => t \in rows
    BY DEF OutHoldings, Holding, OutRows
  <2>2. \A t \in rows : t \in TxIds /\ h[t].item = i
                        /\ h[t].state = IF itemTx[t].returned THEN "back" ELSE "out"
    BY <1>6
  <2> HIDE DEF h, rows
  <2>3. \A t \in rows : t \in out <=> ~itemTx[t].returned
    BY <2>2 DEF OutHoldings
  <2>4. out \subseteq TxIds
    BY DEF OutHoldings
  <2> HIDE DEF out
  <2> QED BY <2>1, <2>3, <2>4
<1>8. IsFiniteSet(rows)
  BY <1>1, OutRowsFinite
<1> HIDE DEF rows
<1>9. IsFiniteSet(out) /\ \A t \in out : h[t].quantity \in Int /\ h[t].quantity = -txMoved[t]
  <2>1. IsFiniteSet(out)
    BY <1>7, <1>8, FS_Subset
  <2>2. \A t \in rows : h[t].quantity = itemTx[t].quantity
    BY <1>6
  <2> HIDE DEF h, out
  <2>3. \A t \in out : t \in rows /\ txMoved[t] = -itemTx[t].quantity /\ itemTx[t].quantity \in Nat
    BY <1>6, <1>7
  <2> QED BY <2>1, <2>2, <2>3
<1>10. Custody!Total(i) = OnHand(i) + MapThenSumSet(LAMBDA t : h[t].quantity, out)
  BY DEF Custody!Total, Custody!Out, OutHoldings, Custody!MapThenSumSet, Custody!MapThenFoldSet,
         MapThenSumSet, MapThenFoldSet
<1> DEFINE f == [t \in out |-> h[t].quantity]
<1>11. \A t \in out : f[t] \in Int /\ f[t] = -txMoved[t] /\ txMoved[t] \in Int
  BY <1>1, <1>6, <1>7, <1>9
<1>12. MapThenSumSet(LAMBDA t : h[t].quantity, out) = SumOn(f, out)
  BY <1>9, HeldIsSum
<1>13. \A t \in rows \ out : txMoved[t] = 0
  BY <1>6, <1>7
<1>14. out \in SUBSET rows
  BY <1>7
<1> HIDE DEF f, out
<1>15. SumOn(txMoved, rows) = SumOn(txMoved, out)
  BY <1>13, <1>14, SumOnSame
<1>16. SumOn(f, out) = -SumOn(txMoved, out)
  BY <1>9, <1>11, SumOnNegated
<1>17. Custody!Total(i) = Entered(i)
  BY <1>3, <1>4, <1>5, <1>10, <1>12, <1>15, <1>16
<1> QED BY <1>2, <1>3, <1>4, <1>5, <1>17 DEF rows

MovedOut(i) == SumOn(txMoved, OutRows(itemTx, i))

(* What each kind of step does to the rows. *)
LEMMA RowsFixed ==
  ASSUME CustodyInv, UNCHANGED <<itemTx, txMoved>>
  PROVE  /\ IsFiniteSet(RowsUsed(itemTx)') /\ CampusKnown'
         /\ \A i \in Items : MovedOut(i)' = MovedOut(i)
         /\ \A t \in TxIds : Holding(t)' = Holding(t)
BY DEF CustodyInv, CampusKnown, RowsUsed, OutRows, MovedOut, Holding

(* The types the invariant gives the rows, the balances and the batches. *)
LEMMA RowsTyped ==
  ASSUME CustodyInv
  PROVE  /\ itemTx \in [TxIds -> ItemTransactionRows] /\ txMoved \in [TxIds -> Int]
         /\ quantity \in [Accounts -> Nat] /\ IsFiniteSet(RowsUsed(itemTx))
         /\ batch \in [Batches -> BatchRows]
BY DEF CustodyInv, TransferInv, BooksOK, LedgerOK, LedgerTypeOK, TxOK, TxTypeOK, HoldingOK,
       TransferTypeOK

(* create adds one row, and an issue or a withdrawal moves its quantity out. *)
LEMMA CreateTransactionRows ==
  ASSUME CustodyInv, NEW t \in TxIds, NEW ty \in OutTypes \cup {"RETURN"}, NEW i \in Items,
         NEW c \in Campuses, NEW n \in Amounts, CreateTransaction(t, ty, i, c, n)
  PROVE  /\ IsFiniteSet(RowsUsed(itemTx)') /\ CampusKnown'
         /\ \A j \in Items : MovedOut(j)' =
              IF j = i /\ ty \in OutTypes THEN MovedOut(j) - n ELSE MovedOut(j)
         /\ \A u \in TxIds \ {t} : Holding(u)' = Holding(u)
         /\ IF ty \in OutTypes THEN Holding(t).state = "unused" /\ Holding(t)'.state = "out"
                               ELSE Holding(t)' = Holding(t)
<1> DEFINE change == IF ty \in OutTypes THEN -n ELSE n
           row == TxRow(ty, i, c, n)
<1>0. /\ itemTx \in [TxIds -> ItemTransactionRows] /\ txMoved \in [TxIds -> Int]
      /\ IsFiniteSet(RowsUsed(itemTx)) /\ n \in Int
  BY RowsTyped, TransactionAssumption
<1>1. /\ itemTx[t].type = "none"
      /\ itemTx' = [itemTx EXCEPT ![t] = row] /\ txMoved' = [txMoved EXCEPT ![t] = change]
  BY DEF CreateTransaction
<1>2. row.type = ty /\ row.item = i /\ row.campus = c /\ row.quantity = n /\ row.returned = FALSE
      /\ c # NoCampus
  BY TransactionAssumption DEF TxRow
<1> HIDE DEF row
<1>3. /\ itemTx'[t] = row /\ txMoved'[t] = change
      /\ \A u \in TxIds \ {t} : itemTx'[u] = itemTx[u] /\ txMoved'[u] = txMoved[u]
  BY <1>0, <1>1
<1>4. RowsUsed(itemTx)' = RowsUsed(itemTx) \cup {t}
  BY <1>2, <1>3 DEF RowsUsed, OutTypes
<1>5. IsFiniteSet(RowsUsed(itemTx)')
  BY <1>0, <1>4, FS_AddElement
<1>6. CampusKnown'
  BY <1>2, <1>3 DEF CustodyInv, CampusKnown
<1>7. \A u \in TxIds \ {t} : Holding(u)' = Holding(u)
  BY <1>3 DEF Holding
<1>8. IF ty \in OutTypes THEN Holding(t).state = "unused" /\ Holding(t)'.state = "out"
                         ELSE Holding(t)' = Holding(t)
  BY <1>1, <1>2, <1>3 DEF Holding, OutTypes
<1>9. ASSUME NEW j \in Items
      PROVE  MovedOut(j)' = IF j = i /\ ty \in OutTypes THEN MovedOut(j) - n ELSE MovedOut(j)
  <2>1. t \notin OutRows(itemTx, j)
    BY <1>1 DEF OutRows, OutTypes
  <2>2. IsFiniteSet(OutRows(itemTx, j)) /\ \A u \in OutRows(itemTx, j) : txMoved[u] \in Int
    BY <1>0, OutRowsFinite DEF OutRows
  <2>3. \A u \in OutRows(itemTx, j) : txMoved'[u] = txMoved[u]
    BY <1>3, <2>1 DEF OutRows
  <2>4. CASE j = i /\ ty \in OutTypes
    <3>1. OutRows(itemTx', j) = OutRows(itemTx, j) \cup {t}
      BY <1>2, <1>3, <2>4 DEF OutRows
    <3>2. txMoved'[t] \in Int /\ txMoved'[t] = -n
      BY <1>0, <1>3, <2>4
    <3>3. SumOn(txMoved', OutRows(itemTx, j) \cup {t})
            = SumOn(txMoved, OutRows(itemTx, j)) + txMoved'[t]
      BY <2>1, <2>2, <2>3, <3>2, SumOnAdd
    <3>4. SumOn(txMoved, OutRows(itemTx, j)) \in Int
      BY <2>2, SumOnStep
    <3> QED BY <1>0, <2>4, <3>1, <3>2, <3>3, <3>4 DEF MovedOut
  <2>5. CASE ~(j = i /\ ty \in OutTypes)
    <3>1. OutRows(itemTx', j) = OutRows(itemTx, j)
      BY <1>1, <1>2, <1>3, <2>1, <2>5 DEF OutRows
    <3>2. SumOn(txMoved', OutRows(itemTx, j)) = SumOn(txMoved, OutRows(itemTx, j))
      BY <2>3, SumOnSame
    <3> QED BY <2>5, <3>1, <3>2 DEF MovedOut
  <2> QED BY <2>4, <2>5
<1> QED BY <1>5, <1>6, <1>7, <1>8, <1>9

(* markAsReturned moves the quantity of its row back in. *)
LEMMA CommitReturnRows ==
  ASSUME CustodyInv, NEW w \in Workers, CommitReturn(w), NEW t \in TxIds, t = returning[w]
  PROVE  /\ IsFiniteSet(RowsUsed(itemTx)') /\ CampusKnown'
         /\ \A j \in Items : MovedOut(j)' =
              IF j = itemTx[t].item THEN MovedOut(j) + itemTx[t].quantity ELSE MovedOut(j)
         /\ \A u \in TxIds \ {t} : Holding(u)' = Holding(u)
         /\ Holding(t).state = "out" /\ Holding(t)' = [Holding(t) EXCEPT !.state = "back"]
<1> DEFINE row == [itemTx[t] EXCEPT !.returned = TRUE]
<1>0. /\ itemTx \in [TxIds -> ItemTransactionRows] /\ txMoved \in [TxIds -> Int]
      /\ IsFiniteSet(RowsUsed(itemTx))
  BY RowsTyped
<1>1. /\ t # NoTx /\ ~itemTx[t].returned /\ itemTx[t].campus # NoCampus
      /\ itemTx' = [itemTx EXCEPT ![t] = row]
      /\ txMoved' = [txMoved EXCEPT ![t] = txMoved[t] + itemTx[t].quantity]
  BY DEF CommitReturn
<1>2. itemTx[t].type \in OutTypes
  BY <1>1 DEF CustodyInv, TransferInv, BooksOK, TxOK, ReturningOut
<1>3. /\ row.type = itemTx[t].type /\ row.item = itemTx[t].item /\ row.campus = itemTx[t].campus
      /\ row.quantity = itemTx[t].quantity /\ row.returned = TRUE /\ itemTx[t].quantity \in Nat
  BY <1>0 DEF ItemTransactionRows
<1> HIDE DEF row
<1>4. /\ itemTx'[t] = row /\ txMoved'[t] = txMoved[t] + itemTx[t].quantity
      /\ \A u \in TxIds \ {t} : itemTx'[u] = itemTx[u] /\ txMoved'[u] = txMoved[u]
  BY <1>0, <1>1
<1>5. \A u \in TxIds : itemTx'[u].type = itemTx[u].type /\ itemTx'[u].item = itemTx[u].item
                       /\ itemTx'[u].campus = itemTx[u].campus
  BY <1>3, <1>4
<1>6. IsFiniteSet(RowsUsed(itemTx)') /\ CampusKnown'
  <2>1. RowsUsed(itemTx)' = RowsUsed(itemTx)
    BY <1>5 DEF RowsUsed
  <2> QED BY <1>0, <1>5, <2>1 DEF CustodyInv, CampusKnown
<1>7. \A u \in TxIds \ {t} : Holding(u)' = Holding(u)
  BY <1>4 DEF Holding
<1>8. Holding(t).state = "out" /\ Holding(t)' = [Holding(t) EXCEPT !.state = "back"]
  BY <1>1, <1>2, <1>3, <1>4 DEF Holding
<1>9. ASSUME NEW j \in Items
      PROVE  MovedOut(j)' = IF j = itemTx[t].item THEN MovedOut(j) + itemTx[t].quantity
                                                  ELSE MovedOut(j)
  <2>1. OutRows(itemTx', j) = OutRows(itemTx, j)
    BY <1>5 DEF OutRows
  <2>2. IsFiniteSet(OutRows(itemTx, j))
        /\ \A u \in OutRows(itemTx, j) : txMoved[u] \in Int /\ txMoved'[u] \in Int
    <3>1. \A u \in TxIds : txMoved[u] \in Int /\ txMoved'[u] \in Int
      BY <1>0, <1>3, <1>4
    <3>2. IsFiniteSet(OutRows(itemTx, j))
      BY <1>0, OutRowsFinite
    <3> QED BY <3>1, <3>2 DEF OutRows
  <2>3. \A u \in OutRows(itemTx, j) \ {t} : txMoved'[u] = txMoved[u]
    BY <1>4 DEF OutRows
  <2>4. CASE j = itemTx[t].item
    <3>1. t \in OutRows(itemTx, j)
      BY <1>2, <2>4 DEF OutRows
    <3>2. SumOn(txMoved', OutRows(itemTx, j))
            = SumOn(txMoved, OutRows(itemTx, j)) - txMoved[t] + txMoved'[t]
      BY <2>2, <2>3, <3>1, SumOnChange
    <3>3. SumOn(txMoved, OutRows(itemTx, j)) \in Int
      BY <2>2, SumOnStep
    <3> QED BY <1>0, <1>3, <1>4, <2>1, <2>4, <3>2, <3>3 DEF MovedOut
  <2>5. CASE j # itemTx[t].item
    <3>1. t \notin OutRows(itemTx, j)
      BY <2>5 DEF OutRows
    <3>2. SumOn(txMoved', OutRows(itemTx, j)) = SumOn(txMoved, OutRows(itemTx, j))
      BY <2>3, <3>1, SumOnSame
    <3> QED BY <2>1, <2>5, <3>2 DEF MovedOut
  <2> QED BY <2>4, <2>5
<1> QED BY <1>6, <1>7, <1>8, <1>9

(* receiveBatch adds the row of each line it issues. *)
LEMMA ReceiveBatchRows ==
  ASSUME CustodyInv, NEW b \in Batches, ReceiveBatch(b)
  PROVE  /\ IsFiniteSet(RowsUsed(itemTx)') /\ CampusKnown'
         /\ \A j \in Items : MovedOut(j)' =
              IF j \in Issued(b) THEN MovedOut(j) - batch[b].lines[j] ELSE MovedOut(j)
         /\ \A t \in TxIds : \/ Holding(t)' = Holding(t)
                             \/ Holding(t).state = "unused" /\ Holding(t)'.state = "out"
<1> DEFINE fresh(t) == \E i \in Issued(b) : t = LineTx(b, i)
<1>0. /\ itemTx \in [TxIds -> ItemTransactionRows] /\ txMoved \in [TxIds -> Int]
      /\ IsFiniteSet(RowsUsed(itemTx)) /\ batch[b] \in BatchRows
  BY RowsTyped
<1>1. /\ itemTx' = [t \in TxIds |->
                      IF fresh(t)
                      THEN TxRow("ISSUANCE", t[2], batch[b].destination, batch[b].lines[t[2]])
                      ELSE itemTx[t]]
      /\ txMoved' = [t \in TxIds |-> IF fresh(t) THEN -batch[b].lines[t[2]] ELSE txMoved[t]]
      /\ batch[b].status = "APPROVED"
  BY DEF ReceiveBatch
<1>2. Issued(b) \subseteq Items /\ \A i \in Items : batch[b].lines[i] \in Nat
  BY <1>0 DEF Issued, Named, BatchRows, Lines
<1>3. ASSUME NEW i \in Issued(b)
      PROVE  /\ LineTx(b, i) \in TxIds /\ itemTx[LineTx(b, i)].type = "none"
             /\ itemTx'[LineTx(b, i)]
                  = TxRow("ISSUANCE", i, batch[b].destination, batch[b].lines[i])
             /\ txMoved'[LineTx(b, i)] = -batch[b].lines[i]
  <2>1. i \in Items /\ LineTx(b, i) \in TxIds /\ fresh(LineTx(b, i))
    BY <1>2, TransferAssumption
  <2>2. itemTx[LineTx(b, i)].type = "none"
    BY <1>1, <2>1 DEF CustodyInv, LinesFresh
  <2>3. LineTx(b, i)[2] = i
    BY DEF LineTx
  <2> HIDE DEF fresh
  <2> QED BY <1>1, <2>1, <2>2, <2>3
<1>4. \A t \in TxIds : ~fresh(t) => itemTx'[t] = itemTx[t] /\ txMoved'[t] = txMoved[t]
  BY <1>1
<1>5. \A i, j : LineTx(b, i) = LineTx(b, j) => i = j
  BY DEF LineTx
<1>6. batch[b].destination # NoCampus
  BY <1>0, TransactionAssumption DEF BatchRows
<1>7. ASSUME NEW i \in Issued(b)
      PROVE  /\ itemTx'[LineTx(b, i)].type = "ISSUANCE" /\ itemTx'[LineTx(b, i)].item = i
             /\ itemTx'[LineTx(b, i)].campus # NoCampus /\ ~itemTx'[LineTx(b, i)].returned
  <2> DEFINE row == TxRow("ISSUANCE", i, batch[b].destination, batch[b].lines[i])
  <2>1. itemTx'[LineTx(b, i)] = row
    BY <1>3
  <2>2. row.type = "ISSUANCE" /\ row.item = i /\ row.campus # NoCampus /\ ~row.returned
    BY <1>6 DEF TxRow
  <2> HIDE DEF row
  <2> QED BY <2>1, <2>2
<1>8. IsFiniteSet(RowsUsed(itemTx)')
  <2> DEFINE new == {LineTx(b, i) : i \in Issued(b)}
             name == [i \in Issued(b) |-> LineTx(b, i)]
  <2>1. name \in Surjection(Issued(b), new)
    BY DEF Surjection
  <2>2. IsFiniteSet(Issued(b))
    BY <1>2, LedgerAssumption, FS_Subset
  <2>3. IsFiniteSet(new)
    BY <2>1, <2>2, FS_Surjection
  <2>4. RowsUsed(itemTx') \subseteq RowsUsed(itemTx) \cup new
    BY <1>4 DEF RowsUsed
  <2> HIDE DEF new
  <2>5. IsFiniteSet(RowsUsed(itemTx) \cup new)
    BY <1>0, <2>3, FS_Union
  <2>6. IsFiniteSet(RowsUsed(itemTx'))
    BY <2>4, <2>5, FS_Subset
  <2> QED BY <2>6 DEF RowsUsed
<1>9. CampusKnown'
  BY <1>4, <1>7 DEF CustodyInv, CampusKnown
<1>10. ASSUME NEW t \in TxIds
       PROVE  \/ Holding(t)' = Holding(t)
              \/ Holding(t).state = "unused" /\ Holding(t)'.state = "out"
  <2>1. CASE fresh(t)
    BY <1>3, <1>7, <2>1 DEF Holding, OutTypes
  <2>2. CASE ~fresh(t)
    BY <1>4, <2>2 DEF Holding
  <2> QED BY <2>1, <2>2
<1>11. ASSUME NEW j \in Items
       PROVE  MovedOut(j)' = IF j \in Issued(b) THEN MovedOut(j) - batch[b].lines[j]
                                                ELSE MovedOut(j)
  <2>1. \A t \in OutRows(itemTx, j) : t \in TxIds /\ ~fresh(t)
    BY <1>3 DEF OutRows, OutTypes
  <2>2. IsFiniteSet(OutRows(itemTx, j)) /\ \A t \in OutRows(itemTx, j) : txMoved[t] \in Int
    BY <1>0, OutRowsFinite DEF OutRows
  <2>3. \A t \in OutRows(itemTx, j) : txMoved'[t] = txMoved[t]
    BY <1>4, <2>1
  <2>4. \A t \in TxIds : t \in OutRows(itemTx', j) <=>
          t \in OutRows(itemTx, j) \/ (j \in Issued(b) /\ t = LineTx(b, j))
    <3>1. ASSUME NEW t \in TxIds, fresh(t)
          PROVE  t \in OutRows(itemTx', j) <=> j \in Issued(b) /\ t = LineTx(b, j)
      BY <1>5, <1>7, <3>1 DEF OutRows, OutTypes
    <3>2. ASSUME NEW t \in TxIds, ~fresh(t)
          PROVE  /\ t \in OutRows(itemTx', j) <=> t \in OutRows(itemTx, j)
                 /\ ~(j \in Issued(b) /\ t = LineTx(b, j))
      BY <1>4, <3>2 DEF OutRows
    <3> QED BY <2>1, <3>1, <3>2
  <2>5. OutRows(itemTx', j) \subseteq TxIds /\ OutRows(itemTx, j) \subseteq TxIds
    BY DEF OutRows
  <2>6. CASE j \in Issued(b)
    <3>1. LineTx(b, j) \notin OutRows(itemTx, j) /\ LineTx(b, j) \in TxIds
      BY <1>3, <2>1, <2>6
    <3>2. OutRows(itemTx', j) = OutRows(itemTx, j) \cup {LineTx(b, j)}
      BY <2>4, <2>5, <2>6, <3>1
    <3>3. txMoved'[LineTx(b, j)] = -batch[b].lines[j] /\ batch[b].lines[j] \in Nat
      BY <1>2, <1>3, <2>6
    <3>4. SumOn(txMoved', OutRows(itemTx, j) \cup {LineTx(b, j)})
            = SumOn(txMoved, OutRows(itemTx, j)) + txMoved'[LineTx(b, j)]
      BY <2>2, <2>3, <3>1, <3>3, SumOnAdd
    <3>5. SumOn(txMoved, OutRows(itemTx, j)) \in Int
      BY <2>2, SumOnStep
    <3> QED BY <2>6, <3>2, <3>3, <3>4, <3>5 DEF MovedOut
  <2>7. CASE j \notin Issued(b)
    <3>1. OutRows(itemTx', j) = OutRows(itemTx, j)
      BY <2>4, <2>5, <2>7
    <3>2. SumOn(txMoved', OutRows(itemTx, j)) = SumOn(txMoved, OutRows(itemTx, j))
      BY <2>3, SumOnSame
    <3> QED BY <2>7, <3>1, <3>2 DEF MovedOut
  <2> QED BY <2>6, <2>7
<1> QED BY <1>8, <1>9, <1>10, <1>11

-----------------------------------------------------------------------------
(* The steps of StockCustody. *)
HoldingsKept == \A t \in TxIds : Holding(t)' = Holding(t)

(* The amounts of one item. *)
LEMMA StockAccounted ==
  ASSUME Accounted, NEW i \in Items
  PROVE  /\ Entered(i) = OnHand(i) - MovedOut(i) /\ OnHand(i) = StockOf(quantity, i)
         /\ OnHand(i) \in Nat /\ MovedOut(i) \in Int
BY DEF Accounted, MovedOut

(* A step that changes neither amounts nor holdings stutters. *)
LEMMA AsStutter ==
  ASSUME HoldingsKept, \A i \in Items : OnHand(i)' = OnHand(i) /\ Entered(i)' = Entered(i)
  PROVE  UNCHANGED Custody!custodyVars
BY DEF Custody!custodyVars, HoldingsKept

(* A step that moves stock of one item and no holding is an entry in the books. *)
LEMMA AsBook ==
  ASSUME Accounted, Accounted', HoldingsKept, NEW i \in Items,
         \A j \in Items : MovedOut(j)' = MovedOut(j),
         \A j \in Items \ {i} : OnHand(j)' = OnHand(j)
  PROVE  Custody!Book(i)
<1>1. /\ \A j \in Items : OnHand(j) \in Nat /\ MovedOut(j) \in Int
                          /\ Entered(j) = OnHand(j) - MovedOut(j)
      /\ \A j \in Items : OnHand(j)' \in Nat /\ Entered(j)' = OnHand(j)' - MovedOut(j)'
  BY DEF Accounted, MovedOut
<1>2. OnHand(i)' - OnHand(i) = Entered(i)' - Entered(i)
  BY <1>1
<1>3. \A j \in Items \ {i} : Entered(j)' = Entered(j)
  BY <1>1
<1> QED BY <1>1, <1>2, <1>3 DEF Custody!Book, HoldingsKept

(* A step that hands out stock and keeps what was entered. *)
LEMMA AsHandOut ==
  ASSUME Accounted, Accounted', \A i \in Items : Entered(i)' = Entered(i),
         \A t \in TxIds : \/ Holding(t)' = Holding(t)
                          \/ Holding(t).state = "unused" /\ Holding(t)'.state = "out"
  PROVE  Custody!HandOut
<1>1. \A i \in Items : OnHand(i)' \in Nat /\ Custody!Total(i)' = Custody!Total(i)
  BY DEF Accounted
<1> QED BY <1>1 DEF Custody!HandOut

(* A step that takes one holding back and keeps what was entered. *)
LEMMA AsTakeBack ==
  ASSUME Accounted, Accounted', \A i \in Items : Entered(i)' = Entered(i),
         NEW t \in TxIds, Holding(t).state = "out",
         Holding(t)' = [Holding(t) EXCEPT !.state = "back"],
         \A u \in TxIds \ {t} : Holding(u)' = Holding(u)
  PROVE  Custody!TakeBack(t)
<1>1. \A i \in Items : Custody!Total(i)' = Custody!Total(i)
  BY DEF Accounted
<1> QED BY <1>1 DEF Custody!TakeBack

(* The start. *)
LEMMA CustodyStart == TransferInit => CustodyInv /\ Custody!CustodyInit
<1> SUFFICES ASSUME TransferInit PROVE CustodyInv /\ Custody!CustodyInit
  OBVIOUS
<1>1. \A t \in TxIds : itemTx[t].type = "none"
  BY DEF TransferInit, ItemTxInit, TxInit, AbsentTx
<1>2. RowsUsed(itemTx) = {}
  BY <1>1 DEF RowsUsed
<1>3. TransferInv
  BY InitBooks, InitHolding DEF TransferInit, ItemTxInit, TransferInv
<1>4. LinesFresh /\ CampusKnown
  BY <1>1, TransferAssumption DEF LinesFresh, CampusKnown, OutTypes
<1>5. CustodyInv
  BY <1>2, <1>3, <1>4, FS_EmptySet DEF CustodyInv
<1>6. ASSUME NEW i \in Items PROVE OnHand(i) \in Nat /\ Entered(i) = OnHand(i)
  <2>1. OutRows(itemTx, i) = {}
    BY <1>1 DEF OutRows, OutTypes
  <2>2. MovedOut(i) = 0
    BY <2>1, SumOnEmpty DEF MovedOut
  <2>3. Accounted
    BY <1>5, AmountsAccounted
  <2> QED BY <2>2, <2>3, StockAccounted
<1>7. \A t \in TxIds : Holding(t).state = "unused"
  BY <1>1 DEF Holding, OutTypes
<1>8. Custody!CustodyInit
  BY <1>6, <1>7 DEF Custody!CustodyInit
<1> QED BY <1>5, <1>8

\* The invariant after a step, and the step as one of StockCustody.
CustodyStep == CustodyInv' /\ [Custody!CustodyNext]_Custody!custodyVars

(* The amounts add up before and after a step. *)
LEMMA AccountedBoth ==
  ASSUME CustodyInv, CustodyInv'
  PROVE  Accounted /\ Accounted'
<1>1. Accounted
  BY AmountsAccounted
<1>2. CustodyInv' => Accounted'
  BY AmountsAccounted, PTL
<1> QED BY <1>1, <1>2

(* A step that touches neither stock nor rows. *)
LEMMA QuietStep ==
  ASSUME CustodyInv, TransferInv', LinesFresh', UNCHANGED <<quantity, itemTx, txMoved>>
  PROVE  CustodyStep
<1>1. /\ IsFiniteSet(RowsUsed(itemTx)') /\ CampusKnown'
      /\ \A i \in Items : MovedOut(i)' = MovedOut(i)
      /\ HoldingsKept
  BY RowsFixed DEF HoldingsKept
<1>2. CustodyInv'
  BY <1>1 DEF CustodyInv
<1>3. Accounted /\ Accounted'
  BY <1>2, AccountedBoth
<1>4. \A i \in Items :
        /\ OnHand(i) = StockOf(quantity, i) /\ OnHand(i)' = StockOf(quantity', i)
        /\ Entered(i) = StockOf(quantity, i) - MovedOut(i)
        /\ Entered(i)' = StockOf(quantity', i) - MovedOut(i)'
  BY <1>3 DEF Accounted, MovedOut
<1>5. \A i \in Items : OnHand(i)' = OnHand(i) /\ Entered(i)' = Entered(i)
  <2>1. quantity' = quantity
    OBVIOUS
  <2> QED BY <1>1, <1>4, <2>1
<1>6. UNCHANGED Custody!custodyVars
  BY <1>1, <1>5, AsStutter
<1> QED BY <1>2, <1>6 DEF CustodyStep

(* No batch is reopened, so a step that leaves the rows alone keeps LinesFresh. *)
LEMMA SameRowsFresh ==
  ASSUME LinesFresh, UNCHANGED itemTx,
         \A b \in Batches : batch[b].status = "COMPLETED" => batch'[b].status = "COMPLETED"
  PROVE  LinesFresh'
BY DEF LinesFresh

(* Only apply moves stock, of one item. *)
LEMMA AppliedStock ==
  ASSUME CustodyInv, CustodyInv', NEW i \in Items, NEW c \in Campuses, NEW d \in Int,
         Apply(i, c, d)
  PROVE  /\ OnHand(i)' = OnHand(i) + d
         /\ \A j \in Items \ {i} : OnHand(j)' = OnHand(j)
<1>1. Accounted /\ Accounted'
  BY AccountedBoth
<1>2. quantity \in [Accounts -> Nat] /\ quantity' \in [Accounts -> Nat]
  BY DEF CustodyInv, TransferInv, BooksOK, LedgerOK, LedgerTypeOK
<1>3. quantity'[<<i, c>>] = quantity[<<i, c>>] + d
      /\ \A a \in Accounts \ {<<i, c>>} : quantity'[a] = quantity[a]
  BY <1>2 DEF Apply, Accounts
<1>4. quantity \in [Accounts -> Int] /\ quantity' \in [Accounts -> Int]
  BY <1>2
<1>5. /\ StockOf(quantity', i) = StockOf(quantity, i) + d
      /\ \A j \in Items \ {i} : StockOf(quantity', j) = StockOf(quantity, j)
  BY <1>3, <1>4, StockApplied
<1>6. \A j \in Items : OnHand(j) = StockOf(quantity, j) /\ OnHand(j)' = StockOf(quantity', j)
  BY <1>1 DEF Accounted
<1> QED BY <1>5, <1>6

(* create *)
LEMMA CreateTransactionCustody ==
  ASSUME CustodyInv, TransferInv', UNCHANGED batch, NEW t \in DirectTx,
         NEW ty \in OutTypes \cup {"RETURN"}, NEW i \in Items, NEW c \in Campuses,
         NEW n \in Amounts, CreateTransaction(t, ty, i, c, n)
  PROVE  CustodyStep
<1>0. t \in TxIds /\ n \in Nat
  BY TransactionAssumption
<1>1. /\ IsFiniteSet(RowsUsed(itemTx)') /\ CampusKnown'
      /\ \A j \in Items : MovedOut(j)' =
           IF j = i /\ ty \in OutTypes THEN MovedOut(j) - n ELSE MovedOut(j)
      /\ \A u \in TxIds \ {t} : Holding(u)' = Holding(u)
      /\ IF ty \in OutTypes THEN Holding(t).state = "unused" /\ Holding(t)'.state = "out"
                            ELSE Holding(t)' = Holding(t)
  BY <1>0, CreateTransactionRows
<1>2. LinesFresh'
  <2>1. \A b \in Batches, j \in Items : LineTx(b, j) \in TxIds /\ LineTx(b, j) # t
    BY TransferAssumption
  <2>2. itemTx' = [itemTx EXCEPT ![t] = TxRow(ty, i, c, n)]
    BY DEF CreateTransaction
  <2> QED BY <2>1, <2>2, RowsTyped DEF CustodyInv, LinesFresh
<1>3. CustodyInv'
  BY <1>1, <1>2 DEF CustodyInv
<1>4. PICK d \in Int : Apply(i, c, d) /\ d = IF ty \in OutTypes THEN -n ELSE n
  BY <1>0 DEF CreateTransaction
<1>5. OnHand(i)' = OnHand(i) + d /\ \A j \in Items \ {i} : OnHand(j)' = OnHand(j)
  BY <1>3, <1>4, AppliedStock
<1>6. Accounted /\ Accounted'
  BY <1>3, AccountedBoth
<1>7. CASE ty \in OutTypes
  <2>1. ASSUME NEW j \in Items PROVE Entered(j)' = Entered(j)
    <3>1. /\ Entered(j) = OnHand(j) - MovedOut(j) /\ Entered(j)' = OnHand(j)' - MovedOut(j)'
          /\ OnHand(j) \in Nat /\ MovedOut(j) \in Int
      BY <1>6 DEF Accounted, MovedOut
    <3> QED BY <1>0, <1>1, <1>4, <1>5, <1>7, <3>1
  <2>2. Custody!HandOut
    BY <1>1, <1>6, <1>7, <2>1, AsHandOut
  <2> QED BY <1>3, <2>2 DEF CustodyStep, Custody!CustodyNext
<1>8. CASE ty \notin OutTypes
  <2>1. Custody!Book(i)
    BY <1>1, <1>5, <1>6, <1>8, AsBook DEF HoldingsKept
  <2> QED BY <1>3, <2>1 DEF CustodyStep, Custody!CustodyNext
<1> QED BY <1>7, <1>8

(* markAsReturned *)
LEMMA CommitReturnCustody ==
  ASSUME CustodyInv, TransferInv', UNCHANGED batch, NEW w \in Workers, CommitReturn(w)
  PROVE  CustodyStep
<1>0. PICK t \in TxIds : t = returning[w]
  BY DEF CommitReturn, CustodyInv, TransferInv, BooksOK, TxOK, TxTypeOK
<1>1. /\ IsFiniteSet(RowsUsed(itemTx)') /\ CampusKnown'
      /\ \A j \in Items : MovedOut(j)' =
           IF j = itemTx[t].item THEN MovedOut(j) + itemTx[t].quantity ELSE MovedOut(j)
      /\ \A u \in TxIds \ {t} : Holding(u)' = Holding(u)
      /\ Holding(t).state = "out" /\ Holding(t)' = [Holding(t) EXCEPT !.state = "back"]
  BY <1>0, CommitReturnRows
<1>2. itemTx[t] \in ItemTransactionRows /\ itemTx \in [TxIds -> ItemTransactionRows]
  BY RowsTyped
<1>3. /\ itemTx' = [itemTx EXCEPT ![t].returned = TRUE] /\ itemTx[t].campus # NoCampus
      /\ Apply(itemTx[t].item, itemTx[t].campus, itemTx[t].quantity)
  BY <1>0 DEF CommitReturn
<1>4. itemTx[t].item \in Items /\ itemTx[t].campus \in Campuses /\ itemTx[t].quantity \in Nat
  BY <1>2, <1>3 DEF ItemTransactionRows
<1>5. LinesFresh'
  <2>1. \A u \in TxIds : itemTx'[u].type = itemTx[u].type
    BY <1>2, <1>3 DEF ItemTransactionRows
  <2> QED BY <2>1, TransferAssumption DEF CustodyInv, LinesFresh
<1>6. CustodyInv'
  BY <1>1, <1>5 DEF CustodyInv
<1>7. PICK i \in Items, c \in Campuses, d \in Int :
        i = itemTx[t].item /\ c = itemTx[t].campus /\ d = itemTx[t].quantity
  BY <1>4
<1>8. OnHand(i)' = OnHand(i) + d /\ \A j \in Items \ {i} : OnHand(j)' = OnHand(j)
  BY <1>3, <1>6, <1>7, AppliedStock
<1>9. Accounted /\ Accounted'
  BY <1>6, AccountedBoth
<1>10. ASSUME NEW j \in Items PROVE Entered(j)' = Entered(j)
  <2>1. /\ Entered(j) = OnHand(j) - MovedOut(j) /\ Entered(j)' = OnHand(j)' - MovedOut(j)'
        /\ OnHand(j) \in Nat /\ MovedOut(j) \in Int
    BY <1>9 DEF Accounted, MovedOut
  <2> QED BY <1>1, <1>7, <1>8, <2>1
<1>11. Custody!TakeBack(t)
  BY <1>1, <1>9, <1>10, AsTakeBack
<1> QED BY <1>6, <1>11 DEF CustodyStep, Custody!CustodyNext

(* receiveBatch *)
LEMMA ReceiveBatchCustody ==
  ASSUME CustodyInv, TransferInv', NEW b \in Batches, ReceiveBatch(b)
  PROVE  CustodyStep
<1>1. /\ IsFiniteSet(RowsUsed(itemTx)') /\ CampusKnown'
      /\ \A j \in Items : MovedOut(j)' =
           IF j \in Issued(b) THEN MovedOut(j) - batch[b].lines[j] ELSE MovedOut(j)
      /\ \A t \in TxIds : \/ Holding(t)' = Holding(t)
                          \/ Holding(t).state = "unused" /\ Holding(t)'.state = "out"
  BY ReceiveBatchRows
<1>2. /\ batch[b].lines \in Lines /\ batch[b].source \in Campuses
      /\ batch[b].destination \in Campuses /\ batch \in [Batches -> BatchRows]
  BY RowsTyped DEF BatchRows
<1>3. /\ batch' = [batch EXCEPT ![b].status = "COMPLETED"]
      /\ TransferReserved(batch[b].lines, Kept(b), batch[b].source, batch[b].destination)
      /\ \A t \in TxIds : itemTx'[t] # itemTx[t] => \E i \in Issued(b) : t = LineTx(b, i)
  BY DEF ReceiveBatch
<1>4. LinesFresh'
  <2>1. batch'[b].status = "COMPLETED"
        /\ \A x \in Batches : batch'[x].status # "COMPLETED" => batch[x].status # "COMPLETED"
    BY <1>2, <1>3 DEF BatchRows
  <2>2. \A x \in Batches, i \in Items : x # b =>
          LineTx(x, i) \in TxIds /\ ~\E j \in Issued(b) : LineTx(x, i) = LineTx(b, j)
    BY TransferAssumption DEF LineTx
  <2> QED BY <1>3, <2>1, <2>2 DEF CustodyInv, LinesFresh
<1>5. CustodyInv'
  BY <1>1, <1>4 DEF CustodyInv
<1>6. Accounted /\ Accounted'
  BY <1>5, AccountedBoth
<1>7. ASSUME NEW j \in Items PROVE Entered(j)' = Entered(j)
  <2>1. /\ Entered(j) = OnHand(j) - MovedOut(j) /\ Entered(j)' = OnHand(j)' - MovedOut(j)'
        /\ OnHand(j) \in Nat /\ MovedOut(j) \in Int
        /\ OnHand(j) = StockOf(quantity, j) /\ OnHand(j)' = StockOf(quantity', j)
    BY <1>6 DEF Accounted, MovedOut
  <2>2. PICK n \in Nat, k \in Nat : n = batch[b].lines[j] /\ k = Kept(b)[j]
    BY <1>2 DEF Lines, Kept
  <2>3. k = IF j \in Issued(b) THEN 0 ELSE n
    BY <2>2 DEF Kept
  <2>4. /\ quantity \in [Accounts -> Int] /\ quantity' \in [Accounts -> Int]
        /\ \A c \in Campuses : <<j, c>> \in Accounts
    BY <1>5 DEF CustodyInv, TransferInv, BooksOK, LedgerOK, LedgerTypeOK, Accounts
  <2>5. batch[b].source # batch[b].destination
        /\ \A c \in Campuses : quantity'[<<j, c>>] = quantity[<<j, c>>]
             + (IF c = batch[b].source THEN -n ELSE IF c = batch[b].destination THEN k ELSE 0)
    BY <1>3, <2>2, <2>4 DEF TransferReserved
  <2>6. StockOf(quantity', j) = StockOf(quantity, j) - n + k
    BY <1>2, <2>4, <2>5, StockMoved
  <2> QED BY <1>1, <2>1, <2>2, <2>3, <2>6
<1>8. Custody!HandOut
  BY <1>1, <1>6, <1>7, AsHandOut
<1> QED BY <1>5, <1>8 DEF CustodyStep, Custody!CustodyNext

(* The other callers. *)
LEMMA LedgerNextCustody ==
  ASSUME CustodyInv, TransferInv', UNCHANGED batch, LedgerNext
  PROVE  CustodyStep
<1>1. UNCHANGED <<itemTx, txMoved, batch>>
  BY DEF LedgerNext, txVars
<1>2. LinesFresh'
  BY <1>1, SameRowsFresh DEF CustodyInv
<1>3. ASSUME NEW i \in Items, NEW d \in Int, RecordMovement(i, d) PROVE CustodyStep
  <2>1. PICK c \in Campuses : Apply(i, c, d)
    BY <1>3, LedgerAssumption DEF RecordMovement
  <2>2. /\ IsFiniteSet(RowsUsed(itemTx)') /\ CampusKnown'
        /\ \A j \in Items : MovedOut(j)' = MovedOut(j)
        /\ HoldingsKept
    BY <1>1, RowsFixed DEF HoldingsKept
  <2>3. CustodyInv'
    BY <1>2, <2>2 DEF CustodyInv
  <2>4. Accounted /\ Accounted'
    BY <2>3, AccountedBoth
  <2>5. \A j \in Items \ {i} : OnHand(j)' = OnHand(j)
    BY <2>1, <2>3, AppliedStock
  <2>6. Custody!Book(i)
    BY <2>2, <2>4, <2>5, AsBook
  <2> QED BY <2>3, <2>6 DEF CustodyStep, Custody!CustodyNext
<1>4. ASSUME NEW i \in Items, NEW c \in Campuses, DeactivateBalance(i, c) PROVE CustodyStep
  BY <1>1, <1>2, <1>4, QuietStep DEF DeactivateBalance
<1>5. \A n \in Amounts : n \in Int /\ -n \in Int
  BY TransactionAssumption
<1> QED BY <1>3, <1>4, <1>5 DEF LedgerNext

(* Every step. *)
LEMMA TransferNextCustody ==
  ASSUME CustodyInv, [TransferNext]_transferVars
  PROVE  CustodyStep
<1>1. TransferInv'
  <2>1. CASE TransferNext
    BY <2>1, BatchNextInv, ItemTxNextInv DEF TransferNext, CustodyInv
  <2>2. CASE UNCHANGED transferVars
    <3>1. UNCHANGED <<itemTxVars, batch, reserved>>
      BY <2>2 DEF transferVars, itemTxVars, ledgerVars
    <3> QED BY <3>1, BooksUntouched, HoldingUntouched DEF TransferInv, CustodyInv
  <2> QED BY <2>1, <2>2
<1>2. ASSUME UNCHANGED <<quantity, itemTx, txMoved>>,
             \A b \in Batches : batch[b].status = "COMPLETED" => batch'[b].status = "COMPLETED"
      PROVE  CustodyStep
  BY <1>1, <1>2, SameRowsFresh, QuietStep DEF CustodyInv
<1>3. ASSUME NEW b \in Batches, batch[b].status # "COMPLETED", NEW row,
             batch' = [batch EXCEPT ![b] = row], UNCHANGED <<quantity, itemTx, txMoved>>
      PROVE  CustodyStep
  <2>1. \A x \in Batches : batch[x].status = "COMPLETED" => batch'[x].status = "COMPLETED"
    BY <1>3, RowsTyped
  <2> QED BY <1>2, <1>3, <2>1
<1>4. CASE BatchNext
  <2>1. ASSUME NEW b \in Batches, NEW src \in Campuses, NEW dst \in Campuses,
               NEW holder \in BOOLEAN, NEW lines \in [Items -> Amounts \cup {0}],
               CreateBatch(b, src, dst, lines, holder)
        PROVE  CustodyStep
    BY <1>3, <2>1 DEF CreateBatch, itemTxVars, ledgerVars, txVars
  <2>2. ASSUME NEW b \in Batches, ApproveBatch(b) PROVE CustodyStep
    BY <1>3, <2>2 DEF ApproveBatch, Reserve, txVars
  <2>3. ASSUME NEW b \in Batches, RejectBatch(b) PROVE CustodyStep
    BY <1>3, <2>3 DEF RejectBatch, ReleaseReservation, stockVars, txVars
  <2>4. ASSUME NEW b \in Batches, ReceiveBatch(b) PROVE CustodyStep
    BY <1>1, <2>4, ReceiveBatchCustody
  <2> QED BY <1>4, <2>1, <2>2, <2>3, <2>4 DEF BatchNext
<1>5. CASE TransactionsNext /\ UNCHANGED batch
  <2>1. ASSUME NEW t \in DirectTx, NEW ty \in OutTypes \cup {"RETURN"}, NEW i \in Items,
               NEW c \in Campuses, NEW n \in Amounts, CreateTransaction(t, ty, i, c, n)
        PROVE  CustodyStep
    BY <1>1, <1>5, <2>1, CreateTransactionCustody
  <2>2. ASSUME NEW w \in Workers, CommitReturn(w) PROVE CustodyStep
    BY <1>1, <1>5, <2>2, CommitReturnCustody
  <2>3. ASSUME NEW w \in Workers, (\E t \in TxIds : BeginReturn(w, t)) \/ AbortReturn(w)
        PROVE  CustodyStep
    BY <1>2, <1>5, <2>3 DEF BeginReturn, AbortReturn, ledgerVars
  <2> QED BY <1>5, <2>1, <2>2, <2>3 DEF TransactionsNext
<1>6. CASE LedgerNext /\ UNCHANGED batch
  BY <1>1, <1>6, LedgerNextCustody
<1>7. CASE UNCHANGED transferVars
  BY <1>2, <1>7 DEF transferVars, itemTxVars, ledgerVars, txVars
<1> QED BY <1>4, <1>5, <1>6, <1>7 DEF TransferNext, ItemTxNext

(* Transfers, issues and returns only keep custody of the stock: every     *)
(* step is one of StockCustody or changes nothing it can see.              *)
THEOREM TransfersKeepCustody == TransferSpec => ImplementsCustody
<1>1. TransferInit => CustodyInv /\ Custody!CustodyInit
  BY CustodyStart
<1>2. CustodyInv /\ [TransferNext]_transferVars
        => CustodyInv' /\ [Custody!CustodyNext]_Custody!custodyVars
  BY TransferNextCustody DEF CustodyStep
<1> QED BY <1>1, <1>2, PTL DEF TransferSpec, ImplementsCustody, Custody!CustodySpec
=============================================================================
