-------------------------- MODULE InventorySystem --------------------------
(***************************************************************************)
(* The whole inventory: every caller of the stock ledger running beside    *)
(* the others on the same tables, and the item handlers archiving items    *)
(* under all of them.                                                      *)
(***************************************************************************)
EXTENDS BorrowRequests, AssetTransfers

\* Every transaction row gets an id of its own (a generated uuid).
ASSUME SystemAssumption ==
  \A b \in Batches, i \in Items : LineTx(b, i) \notin BorrowTx

systemVars == <<borrowVars, batch>>

SystemInit == BorrowInit /\ BatchInit

SystemNext ==
  \/ BorrowNext /\ UNCHANGED batch
  \/ BatchNext /\ UNCHANGED <<itemStatus, desk, request, requestMoves, edited, clerk>>

SystemSpec == SystemInit /\ [][SystemNext]_systemVars

-----------------------------------------------------------------------------
SystemTypeOK == BorrowTypeOK /\ TransferTypeOK

(* Whatever archives an item between the approval of a batch and its       *)
(* receipt, the stock the batch moves stays on the books: an archived item *)
(* changes its stock only by the receipt of a batch, and only by moving it *)
(* between campuses.                                                       *)
ArchivedOnlyTransferred ==
  [][\A i \in Items :
       itemState[i] = "archived" /\ moved' # moved =>
         /\ OnHand(i)' = OnHand(i)
         /\ \A c \in Campuses :
              quantity'[<<i, c>>] # quantity[<<i, c>>] =>
                \E b \in Batches : /\ batch[b].status = "APPROVED"
                                   /\ batch'[b].status = "COMPLETED"
                                   /\ c \in {batch[b].source, batch[b].destination}
    ]_systemVars
=============================================================================
