-------------------------- MODULE ItemTransactions --------------------------
(***************************************************************************)
(* The ItemTransaction table and TransactionsService: issuances and        *)
(* withdrawals that take stock out, RETURN transactions that bring stock   *)
(* in, and markAsReturned, which restores an issuance or withdrawal once.  *)
(*                                                                         *)
(* create runs in one database transaction.  The reads it makes before     *)
(* (item active, balance row exists) are repeated by the ledger's update,  *)
(* so they add nothing to its guard.  markAsReturned reads the row and the *)
(* item first and opens its transaction later: between the two any other   *)
(* request may run, so it is two steps with the id held by a worker.       *)
(***************************************************************************)
EXTENDS StockLedger

CONSTANTS
  TxIds,       \* ItemTransaction ids
  DirectTx,    \* those TransactionsService.create may use
  Amounts,     \* quantities clients ask for
  Workers,     \* concurrent markAsReturned requests
  NoTx, NoCampus

ASSUME TransactionAssumption ==
  /\ DirectTx \subseteq TxIds
  /\ Amounts \subseteq Nat \ {0}
  /\ NoTx \notin TxIds
  /\ NoCampus \notin Campuses

VARIABLES
  itemTx,      \* the ItemTransaction table; type "none" while the row is absent
  txMoved,     \* sum of StockMovement.quantityChange whose referenceId is the row
  returning    \* per worker, the row whose markAsReturned passed its first checks

txVars == <<itemTx, txMoved, returning>>
itemTxVars == <<ledgerVars, txVars>>

OutTypes == {"ISSUANCE", "WITHDRAWAL"}

ItemTransactionRows ==
  [type : OutTypes \cup {"RETURN", "none"}, item : Items,
   campus : Campuses \cup {NoCampus}, quantity : Nat, returned : BOOLEAN]

TxTypeOK ==
  /\ itemTx \in [TxIds -> ItemTransactionRows]
  /\ txMoved \in [TxIds -> Int]
  /\ returning \in [Workers -> TxIds \cup {NoTx}]

AbsentTx == [type |-> "none", item |-> CHOOSE i \in Items : TRUE,
             campus |-> NoCampus, quantity |-> 0, returned |-> FALSE]

TxRow(ty, i, c, n) ==
  [type |-> ty, item |-> i, campus |-> c, quantity |-> n, returned |-> FALSE]

TxInit ==
  /\ itemTx = [t \in TxIds |-> AbsentTx]
  /\ txMoved = [t \in TxIds |-> 0]
  /\ returning = [w \in Workers |-> NoTx]

-----------------------------------------------------------------------------
(* TransactionsService.create *)
CreateTransaction(t, ty, i, c, n) ==
  LET change == IF ty \in OutTypes THEN -n ELSE n IN
  /\ itemTx[t].type = "none"
  /\ change > 0 => Room(i, n)
  /\ Apply(i, c, change)
  /\ itemTx' = [itemTx EXCEPT ![t] = TxRow(ty, i, c, n)]
  /\ txMoved' = [txMoved EXCEPT ![t] = change]
  /\ UNCHANGED <<itemState, returning>>

(* markAsReturned, before its transaction: the row is an issuance or       *)
(* withdrawal not yet returned, and its item is active.                    *)
BeginReturn(w, t) ==
  /\ returning[w] = NoTx
  /\ itemTx[t].type \in OutTypes
  /\ ~itemTx[t].returned
  /\ itemState[itemTx[t].item] = "active"
  /\ returning' = [returning EXCEPT ![w] = t]
  /\ UNCHANGED <<ledgerVars, itemTx, txMoved>>

\* Mutants: the row is not claimed again; it is not marked as returned.
CommitReturnUnclaimed(w) ==
  LET t == returning[w] IN
  /\ t # NoTx
  /\ itemTx[t].campus # NoCampus
  /\ Apply(itemTx[t].item, itemTx[t].campus, itemTx[t].quantity)
  /\ itemTx' = [itemTx EXCEPT ![t].returned = TRUE]
  /\ txMoved' = [txMoved EXCEPT ![t] = @ + itemTx[t].quantity]
  /\ returning' = [returning EXCEPT ![w] = NoTx]
  /\ UNCHANGED itemState

CommitReturnUnmarked(w) ==
  LET t == returning[w] IN
  /\ t # NoTx
  /\ ~itemTx[t].returned
  /\ itemTx[t].campus # NoCampus
  /\ Apply(itemTx[t].item, itemTx[t].campus, itemTx[t].quantity)
  /\ txMoved' = [txMoved EXCEPT ![t] = @ + itemTx[t].quantity]
  /\ returning' = [returning EXCEPT ![w] = NoTx]
  /\ UNCHANGED <<itemState, itemTx>>

(* markAsReturned, its transaction: claim the row (returnedAt IS NULL) and *)
(* restore the stock at the campus recorded on it.  A row without a campus *)
(* matches no balance.                                                     *)
CommitReturn(w) ==
  LET t == returning[w] IN
  /\ t # NoTx
  /\ ~itemTx[t].returned
  /\ itemTx[t].campus # NoCampus
  /\ Apply(itemTx[t].item, itemTx[t].campus, itemTx[t].quantity)
  /\ itemTx' = [itemTx EXCEPT ![t].returned = TRUE]
  /\ txMoved' = [txMoved EXCEPT ![t] = @ + itemTx[t].quantity]
  /\ returning' = [returning EXCEPT ![w] = NoTx]
  /\ UNCHANGED itemState

(* The transaction rolls back: the claim or the ledger refused, or the     *)
(* connection or the process was lost.                                     *)
AbortReturn(w) ==
  /\ returning[w] # NoTx
  /\ returning' = [returning EXCEPT ![w] = NoTx]
  /\ UNCHANGED <<ledgerVars, itemTx, txMoved>>

TransactionsNext ==
  \/ \E t \in DirectTx, ty \in OutTypes \cup {"RETURN"}, i \in Items,
        c \in Campuses, n \in Amounts : CreateTransaction(t, ty, i, c, n)
  \/ \E w \in Workers, t \in TxIds : BeginReturn(w, t)
  \/ \E w \in Workers : CommitReturn(w)
  \/ \E w \in Workers : AbortReturn(w)

\* The operations of StockLedger that other callers reach.
LedgerNext ==
  /\ \/ \E i \in Items, n \in Amounts : RecordMovement(i, n)
     \/ \E i \in Items, n \in Amounts : RecordMovement(i, -n)
     \/ \E i \in Items, c \in Campuses : DeactivateBalance(i, c)
  /\ UNCHANGED txVars

ItemTxInit == LedgerInit /\ TxInit
ItemTxNext == TransactionsNext \/ LedgerNext
ItemTxSpec == ItemTxInit /\ [][ItemTxNext]_itemTxVars

-----------------------------------------------------------------------------
(* Every transaction row accounts for the stock moved in its name: an      *)
(* outstanding issuance or withdrawal for minus its quantity, a returned   *)
(* one for nothing, a RETURN for its quantity.  Two markAsReturned         *)
(* requests that both passed the first checks cannot both restore stock.   *)
(* (The rows without a campus are those BorrowRequestsService writes: it   *)
(* moves their stock in the name of the borrow request.)                   *)
NetMovement(t) ==
  IF itemTx[t].campus = NoCampus THEN 0
  ELSE IF itemTx[t].type = "RETURN" THEN itemTx[t].quantity
  ELSE IF itemTx[t].type \in OutTypes /\ ~itemTx[t].returned THEN -itemTx[t].quantity
  ELSE 0

RestoredOnce == \A t \in TxIds : txMoved[t] = NetMovement(t)
=============================================================================
