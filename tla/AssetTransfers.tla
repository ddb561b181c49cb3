--------------------------- MODULE AssetTransfers ---------------------------
(***************************************************************************)
(* AssetTransfersService: a batch of items moves between two campuses.     *)
(* Approval reserves every line at the source, rejection of an approved    *)
(* batch releases the reservations, receipt consumes them and credits the  *)
(* destination, issuing the lines to a new holder when there is one.       *)
(*                                                                         *)
(* Each handler is one SERIALIZABLE transaction: it takes effect as a      *)
(* single step or, on a serialization failure, not at all.  Any ledger     *)
(* refusal on one line rolls back all the others.                          *)
(***************************************************************************)
EXTENDS ItemTransactions

CONSTANT Batches   \* AssetTransferBatch ids

\* The ItemTransaction row that receiving line i of batch b creates.
LineTx(b, i) == <<b, i>>

ASSUME TransferAssumption ==
  /\ IsFiniteSet(Batches)
  /\ \A b \in Batches, i \in Items : LineTx(b, i) \in TxIds \ DirectTx

VARIABLE batch     \* the AssetTransferBatch table with its lines

transferVars == <<itemTxVars, batch>>

BatchRows ==
  [status : {"none", "PENDING", "APPROVED", "REJECTED", "COMPLETED"},
   source : Campuses, destination : Campuses, lines : Lines, holder : BOOLEAN]

TransferTypeOK == batch \in [Batches -> BatchRows]

AbsentBatch == LET c == CHOOSE c \in Campuses : TRUE IN
  [status |-> "none", source |-> c, destination |-> c,
   lines |-> [i \in Items |-> 0], holder |-> FALSE]

BatchInit == batch = [b \in Batches |-> AbsentBatch]

-----------------------------------------------------------------------------
(* createBatch: distinct items with positive quantities, active items with *)
(* an active balance at the source.  Availability is not checked.          *)
CreateBatch(b, src, dst, lines, holder) ==
  /\ batch[b].status = "none"
  /\ src # dst
  /\ Named(lines) # {}
  /\ \A i \in Named(lines) : Usable(i, src)
  /\ batch' = [batch EXCEPT ![b] =
                 [status |-> "PENDING", source |-> src, destination |-> dst,
                  lines |-> lines, holder |-> holder]]
  /\ UNCHANGED itemTxVars

\* Mutant: approval reserves nothing.
ApproveBatchUnreserved(b) ==
  /\ batch[b].status = "PENDING"
  /\ batch' = [batch EXCEPT ![b].status = "APPROVED"]
  /\ UNCHANGED itemTxVars

ApproveBatch(b) ==
  /\ batch[b].status = "PENDING"
  /\ Reserve(batch[b].lines, batch[b].source)
  /\ batch' = [batch EXCEPT ![b].status = "APPROVED"]
  /\ UNCHANGED <<itemState, txVars>>

\* Mutant: rejecting an approved batch keeps its reservations.
RejectBatchKeeping(b) ==
  /\ batch[b].status \in {"PENDING", "APPROVED"}
  /\ batch' = [batch EXCEPT ![b].status = "REJECTED"]
  /\ UNCHANGED itemTxVars

RejectBatch(b) ==
  /\ \/ batch[b].status = "PENDING" /\ UNCHANGED stockVars
     \/ /\ batch[b].status = "APPROVED"
        /\ ReleaseReservation(batch[b].lines, batch[b].source)
  /\ batch' = [batch EXCEPT ![b].status = "REJECTED"]
  /\ UNCHANGED <<itemState, txVars>>

(* The issue of line i to the holder, after the line reached the           *)
(* destination: apply(-q) on an active item, with q just credited.         *)
CanIssueOnArrival(b, i) ==
  LET a == <<i, batch[b].destination>> IN
  /\ itemState[i] = "active"
  /\ Available(a) + batch[b].lines[i] >= batch[b].lines[i]

Issued(b) == IF batch[b].holder THEN Named(batch[b].lines) ELSE {}

Kept(b) == [i \in Items |-> IF i \in Issued(b) THEN 0 ELSE batch[b].lines[i]]

ReceiveBatch(b) ==
  /\ batch[b].status = "APPROVED"
  /\ TransferReserved(batch[b].lines, Kept(b), batch[b].source, batch[b].destination)
  /\ \A i \in Issued(b) : CanIssueOnArrival(b, i)
  /\ itemTx' = [t \in TxIds |->
                  IF \E i \in Issued(b) : t = LineTx(b, i)
                  THEN TxRow("ISSUANCE", t[2], batch[b].destination, batch[b].lines[t[2]])
                  ELSE itemTx[t]]
  /\ txMoved' = [t \in TxIds |->
                  IF \E i \in Issued(b) : t = LineTx(b, i)
                  THEN -batch[b].lines[t[2]] ELSE txMoved[t]]
  /\ batch' = [batch EXCEPT ![b].status = "COMPLETED"]
  /\ UNCHANGED <<itemState, returning>>

BatchNext ==
  \/ \E b \in Batches, src \in Campuses, dst \in Campuses, holder \in BOOLEAN :
       \E lines \in [Items -> Amounts \cup {0}] :
         CreateBatch(b, src, dst, lines, holder)
  \/ \E b \in Batches : ApproveBatch(b)
  \/ \E b \in Batches : RejectBatch(b)
  \/ \E b \in Batches : ReceiveBatch(b)

TransferInit == ItemTxInit /\ BatchInit

\* Transfers run beside the other callers of the ledger.
TransferNext ==
  \/ BatchNext
  \/ ItemTxNext /\ UNCHANGED batch

TransferSpec == TransferInit /\ [][TransferNext]_transferVars

-----------------------------------------------------------------------------
TransfersTypeOK == LedgerTypeOK /\ TxTypeOK /\ TransferTypeOK

(* A unit of stock held for a batch: line i of an approved batch b leaving *)
(* campus c holds the units <<b, 1>> .. <<b, lines[i]>>.                   *)
HeldUnits(a) ==
  UNION { {b} \X (1..batch[b].lines[a[1]]) :
            b \in {x \in Batches : batch[x].status = "APPROVED" /\ batch[x].source = a[2]} }

(* The reserved quantity of a balance is exactly the total of the lines    *)
(* approved batches hold there: approval, rejection and receipt in any     *)
(* order and interleaving never leak a reservation nor release one twice.  *)
ReservedForApproved == \A a \in Accounts : reserved[a] = Cardinality(HeldUnits(a))

(* What approveBatch promised is there when receiveBatch runs: whatever    *)
(* other requests did to the stock meanwhile, every line of an approved    *)
(* batch can be consumed at the source, and the holder's share issued at   *)
(* the destination unless the item was archived.                           *)
ApprovedCanBeReceived ==
  \A b \in Batches : batch[b].status = "APPROVED" =>
     /\ batch[b].source # batch[b].destination
     /\ CanConsume(batch[b].lines, batch[b].source)
     /\ \A i \in Issued(b) : itemState[i] = "active" => CanIssueOnArrival(b, i)

(* Campuses and reservations aside, the inventory only keeps custody: an   *)
(* item's stock over all campuses and what its issues have out account for *)
(* each other at every step of a transfer, an issue on receipt or a return *)
(* (a RETURN transaction is stock that enters; see StockCustody).          *)
Holding(t) ==
  IF itemTx[t].type \notin OutTypes \/ itemTx[t].campus = NoCampus
  THEN [state |-> "unused"]
  ELSE [state |-> IF itemTx[t].returned THEN "back" ELSE "out",
        item |-> itemTx[t].item, quantity |-> itemTx[t].quantity]

\* What has entered the books otherwise than by issues and their return.
Entered(i) ==
  OnHand(i) - MapThenSumSet(LAMBDA t : txMoved[t],
                {t \in TxIds : itemTx[t].type \in OutTypes /\ itemTx[t].item = i})

Custody == INSTANCE StockCustody
             WITH Holdings <- TxIds,
                  onHand <- [i \in Items |-> OnHand(i)],
                  entered <- [i \in Items |-> Entered(i)],
                  held <- [t \in TxIds |-> Holding(t)]

ImplementsCustody == Custody!CustodySpec
=============================================================================
