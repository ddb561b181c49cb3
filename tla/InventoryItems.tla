--------------------------- MODULE InventoryItems ---------------------------
(***************************************************************************)
(* InventoryService: the life of an item, from its creation with an        *)
(* opening balance to its archival or disposal.                            *)
(*                                                                         *)
(* Except for creation, every handler here decides on something it read    *)
(* earlier: adjustQuantity computes the change from a quantity read before *)
(* its transaction, remove and updateStatus(DISPOSED) count the non-empty  *)
(* balances in one statement and update the item in the next (READ         *)
(* COMMITTED, no lock on the counted rows), and any other updateStatus     *)
(* writes back the isActive it read before its transaction.  A desk is one *)
(* such request between the two.                                           *)
(***************************************************************************)
EXTENDS ItemTransactions

CONSTANT Desks     \* concurrent requests to InventoryService

VARIABLES
  itemStatus,      \* InventoryItem.status
  desk             \* per desk, the request in flight with what it has read

itemVars == <<itemTxVars, itemStatus, desk>>

\* UNDER_REPAIR stands for every status the code gives no meaning of its own.
ItemStatuses == {"GOOD_CONDITION", "BORROWED", "UNDER_REPAIR", "DISPOSED"}

Idle == [op |-> "idle"]

DeskJobs ==
  {Idle} \cup [op : {"adjust"}, item : Items, change : Int]
         \cup [op : {"archive", "dispose"}, item : Items]
         \cup [op : {"status"}, item : Items, to : ItemStatuses, active : BOOLEAN]

ItemsTypeOK ==
  /\ LedgerTypeOK
  /\ TxTypeOK
  /\ itemStatus \in [Items -> ItemStatuses]
  /\ desk \in [Desks -> DeskJobs]

InventoryInit ==
  /\ ItemTxInit
  /\ itemStatus = [i \in Items |-> "GOOD_CONDITION"]
  /\ desk = [d \in Desks |-> Idle]

-----------------------------------------------------------------------------
Open(d, job) ==
  /\ desk[d] = Idle
  /\ desk' = [desk EXCEPT ![d] = job]

Close(d) == desk' = [desk EXCEPT ![d] = Idle]

\* The count of non-empty balances that remove and disposal make.
AllBalancesEmpty(i) ==
  \A c \in Campuses : quantity[<<i, c>>] = 0 /\ reserved[<<i, c>>] = 0

\* Mutant: the opening stock is written without its movement.
CreateItemUnrecorded(i, q) ==
  LET home == <<i, Home[i]>> IN
  /\ itemState[i] = "absent"
  /\ itemState' = [itemState EXCEPT ![i] = "active"]
  /\ balance' = [balance EXCEPT ![home] = "active"]
  /\ quantity' = [quantity EXCEPT ![home] = q]
  /\ UNCHANGED <<moved, reserved, txVars, itemStatus, desk>>

CreateItem(i, q) ==
  LET home == <<i, Home[i]>> IN
  /\ itemState[i] = "absent"
  /\ itemState' = [itemState EXCEPT ![i] = "active"]
  /\ balance' = [balance EXCEPT ![home] = "active"]
  /\ quantity' = [quantity EXCEPT ![home] = q]
  /\ moved' = [moved EXCEPT ![home] = q]
  /\ UNCHANGED <<reserved, txVars, itemStatus, desk>>

(* adjustQuantity: the change that would take the home balance, as it is   *)
(* now, to n.                                                              *)
BeginAdjust(d, i, n) ==
  LET now == quantity[<<i, Home[i]>>] IN
  /\ itemState[i] # "absent"
  /\ n # now
  /\ Open(d, [op |-> "adjust", item |-> i, change |-> n - now])
  /\ UNCHANGED <<itemTxVars, itemStatus>>

CommitAdjust(d) ==
  /\ desk[d].op = "adjust"
  /\ LET i == desk[d].item  change == desk[d].change IN
       /\ change > 0 => Room(i, change)
       /\ Apply(i, Home[i], change)
  /\ Close(d)
  /\ UNCHANGED <<itemState, txVars, itemStatus>>

BeginArchive(d, i) ==
  /\ itemState[i] = "active"
  /\ AllBalancesEmpty(i)
  /\ Open(d, [op |-> "archive", item |-> i])
  /\ UNCHANGED <<itemTxVars, itemStatus>>

CommitArchive(d) ==
  /\ desk[d].op = "archive"
  /\ itemState' = [itemState EXCEPT ![desk[d].item] = "archived"]
  /\ Close(d)
  /\ UNCHANGED <<stockVars, txVars, itemStatus>>

BeginDispose(d, i) ==
  /\ itemState[i] # "absent"
  /\ AllBalancesEmpty(i)
  /\ Open(d, [op |-> "dispose", item |-> i])
  /\ UNCHANGED <<itemTxVars, itemStatus>>

\* Mutant: disposal keeps isActive like any other status.
CommitDisposeKept(d) ==
  /\ desk[d].op = "dispose"
  /\ itemStatus' = [itemStatus EXCEPT ![desk[d].item] = "DISPOSED"]
  /\ Close(d)
  /\ UNCHANGED <<ledgerVars, txVars>>

CommitDispose(d) ==
  /\ desk[d].op = "dispose"
  /\ itemState' = [itemState EXCEPT ![desk[d].item] = "archived"]
  /\ itemStatus' = [itemStatus EXCEPT ![desk[d].item] = "DISPOSED"]
  /\ Close(d)
  /\ UNCHANGED <<stockVars, txVars>>

BeginStatus(d, i, s) ==
  /\ itemState[i] # "absent"
  /\ Open(d, [op |-> "status", item |-> i, to |-> s, active |-> itemState[i] = "active"])
  /\ UNCHANGED <<itemTxVars, itemStatus>>

CommitStatus(d) ==
  /\ desk[d].op = "status"
  /\ LET i == desk[d].item IN
       /\ itemState' = [itemState EXCEPT ![i] = IF desk[d].active THEN "active" ELSE "archived"]
       /\ itemStatus' = [itemStatus EXCEPT ![i] = desk[d].to]
  /\ Close(d)
  /\ UNCHANGED <<stockVars, txVars>>

\* The request fails, or its process is lost, before it commits.
AbandonJob(d) ==
  /\ desk[d] # Idle
  /\ Close(d)
  /\ UNCHANGED <<itemTxVars, itemStatus>>

ItemsNext ==
  \/ \E i \in Items, q \in 0..MaxOnHand : CreateItem(i, q)
  \/ \E d \in Desks, i \in Items, n \in 0..MaxOnHand : BeginAdjust(d, i, n)
  \/ \E d \in Desks : CommitAdjust(d)
  \/ \E d \in Desks, i \in Items : BeginArchive(d, i)
  \/ \E d \in Desks : CommitArchive(d)
  \/ \E d \in Desks, i \in Items : BeginDispose(d, i)
  \/ \E d \in Desks : CommitDispose(d)
  \/ \E d \in Desks, i \in Items, s \in ItemStatuses \ {"DISPOSED"} : BeginStatus(d, i, s)
  \/ \E d \in Desks : CommitStatus(d)
  \/ \E d \in Desks : AbandonJob(d)

InventoryNext ==
  \/ ItemsNext
  \/ ItemTxNext /\ UNCHANGED <<itemStatus, desk>>

InventorySpec == InventoryInit /\ [][InventoryNext]_itemVars

-----------------------------------------------------------------------------
(* Nothing but a ledger operation moves stock, and none of them moves the  *)
(* stock of an archived item: a transaction, a return, a movement or an    *)
(* adjustment that began while the item was active is refused when its     *)
(* update runs after the archival.                                         *)
ArchivedFrozen ==
  [][\A i \in Items : itemState[i] = "archived" =>
        \A c \in Campuses : UNCHANGED <<quantity[<<i, c>>], moved[<<i, c>>]>>]_itemVars

(* A disposed item is out of use.  A status change that read the item as   *)
(* active and commits after the disposal brings the item back, but then    *)
(* under its own status: no interleaving leaves an active DISPOSED item.   *)
DisposedIsInactive ==
  \A i \in Items : itemStatus[i] = "DISPOSED" => itemState[i] = "archived"
=============================================================================
