--------------------------- MODULE BorrowRequests ---------------------------
(***************************************************************************)
(* BorrowRequestsService: requests to borrow stock of an item at a campus. *)
(*                                                                         *)
(* approve claims the PENDING row and moves the stock in one transaction,  *)
(* so it is one step.  The other handlers read the request, check it, and  *)
(* write in a later statement: markReturned claims the row again before it *)
(* restores the stock, reject and update write whatever the row has        *)
(* become.  A clerk is one such request between its read and its write.    *)
(***************************************************************************)
EXTENDS InventoryItems

CONSTANTS
  Requests,      \* BorrowRequest ids
  BorrowTx,      \* ItemTransaction ids this service may use
  Clerks,        \* concurrent reject, markReturned and update requests
  EditStatuses   \* statuses staff write with update (PATCH :id)

ASSUME BorrowAssumption ==
  /\ BorrowTx \subseteq TxIds \ DirectTx
  /\ EditStatuses \subseteq {"PENDING", "APPROVED", "REJECTED", "RETURNED"}

VARIABLES
  request,       \* the BorrowRequest table; status "none" while absent
  requestMoves,  \* history: the StockMovement rows approve and markReturned
                 \* wrote for the request, by what they did
  edited,        \* history: the requests update has written (UPDATE_BORROW)
  clerk          \* per clerk, the request in flight with what it has read

borrowVars == <<itemVars, request, requestMoves, edited, clerk>>

BorrowRows ==
  [status : {"none", "PENDING", "APPROVED", "REJECTED", "RETURNED"},
   item : Items, campus : Campuses, quantity : Nat, returned : BOOLEAN,
   tx : TxIds \cup {NoTx}]

\* The request's whole quantity went out, came in, came back.
MoveCounts == [issued : Nat, received : Nat, restored : Nat]
NoMoves == [issued |-> 0, received |-> 0, restored |-> 0]

ClerkJobs ==
  {Idle} \cup [op : {"reject"}, on : Requests]
         \cup [op : {"return"}, on : Requests, type : OutTypes]
         \cup [op : {"update"}, on : Requests, to : EditStatuses]

BorrowTypeOK ==
  /\ ItemsTypeOK
  /\ request \in [Requests -> BorrowRows]
  /\ requestMoves \in [Requests -> MoveCounts]
  /\ edited \subseteq Requests
  /\ clerk \in [Clerks -> ClerkJobs]

AbsentRequest ==
  [status |-> "none", item |-> CHOOSE i \in Items : TRUE,
   campus |-> CHOOSE c \in Campuses : TRUE, quantity |-> 0, returned |-> FALSE, tx |-> NoTx]

BorrowInit ==
  /\ InventoryInit
  /\ request = [r \in Requests |-> AbsentRequest]
  /\ requestMoves = [r \in Requests |-> NoMoves]
  /\ edited = {}
  /\ clerk = [k \in Clerks |-> Idle]

-----------------------------------------------------------------------------
Take(k, job) ==
  /\ clerk[k] = Idle
  /\ clerk' = [clerk EXCEPT ![k] = job]
  /\ UNCHANGED <<itemVars, request, requestMoves, edited>>

Finish(k) == clerk' = [clerk EXCEPT ![k] = Idle]

(* The movement of a request's stock by d, with the ItemTransaction row t  *)
(* the service writes beside it (without a campus).                        *)
MoveFor(r, t, ty, d) ==
  /\ itemTx[t].type = "none"
  /\ Apply(request[r].item, request[r].campus, d)
  /\ itemTx' = [itemTx EXCEPT ![t] = TxRow(ty, request[r].item, NoCampus, request[r].quantity)]
  /\ UNCHANGED <<itemState, txMoved, returning, desk>>

SetStatus(i, s) == itemStatus' = [itemStatus EXCEPT ![i] = s]

-----------------------------------------------------------------------------
CreateRequest(r, i, c, n) ==
  /\ request[r].status = "none"
  /\ itemState[i] = "active"
  /\ itemStatus[i] # "BORROWED"
  /\ Available(<<i, c>>) >= n
  /\ request' = [request EXCEPT ![r] =
       [status |-> "PENDING", item |-> i, campus |-> c, quantity |-> n,
        returned |-> FALSE, tx |-> NoTx]]
  /\ UNCHANGED <<itemVars, requestMoves, edited, clerk>>

\* Mutant: an approval that came later is not turned away.
ClaimPendingLate(r) == request[r].status \in {"PENDING", "APPROVED"}

\* The claim of approve, in the transaction of what it moves.
ClaimPending(r) == request[r].status = "PENDING"

\* approve as ISSUANCE or WITHDRAWAL
ApproveOut(r, ty, t) ==
  /\ ClaimPending(r)
  /\ MoveFor(r, t, ty, -request[r].quantity)
  /\ IF ty = "ISSUANCE" THEN SetStatus(request[r].item, "BORROWED")
                        ELSE UNCHANGED itemStatus
  /\ request' = [request EXCEPT ![r].status = "APPROVED", ![r].tx = t]
  /\ requestMoves' = [requestMoves EXCEPT ![r].issued = @ + 1]
  /\ UNCHANGED <<edited, clerk>>

\* approve as RETURN: the request is closed at once, its transaction not linked
ApproveReturn(r, t) ==
  /\ ClaimPending(r)
  /\ Room(request[r].item, request[r].quantity)
  /\ MoveFor(r, t, "RETURN", request[r].quantity)
  /\ request' = [request EXCEPT ![r].status = "RETURNED", ![r].returned = TRUE]
  /\ requestMoves' = [requestMoves EXCEPT ![r].received = @ + 1]
  /\ UNCHANGED <<itemStatus, edited, clerk>>

BeginReject(k, r) ==
  /\ request[r].status = "PENDING"
  /\ Take(k, [op |-> "reject", on |-> r])

CommitReject(k) ==
  /\ clerk[k].op = "reject"
  /\ request' = [request EXCEPT ![clerk[k].on].status = "REJECTED"]
  /\ Finish(k)
  /\ UNCHANGED <<itemVars, requestMoves, edited>>

\* markReturned goes by the type of the linked transaction, ISSUANCE without one.
BeginMarkReturned(k, r) ==
  /\ request[r].status = "APPROVED"
  /\ ~request[r].returned
  /\ Take(k, [op |-> "return", on |-> r,
              type |-> IF request[r].tx = NoTx THEN "ISSUANCE" ELSE itemTx[request[r].tx].type])

\* Mutant: the request is closed without claiming it again.
ClaimReturnUnchecked(r) ==
  request' = [request EXCEPT ![r].status = "RETURNED", ![r].returned = TRUE]

ClaimReturn(r) ==
  /\ request[r].status = "APPROVED"
  /\ ~request[r].returned
  /\ request' = [request EXCEPT ![r].status = "RETURNED", ![r].returned = TRUE]

CommitReturnIssue(k, t) ==
  LET r == clerk[k].on IN
  /\ clerk[k].op = "return" /\ clerk[k].type = "ISSUANCE"
  /\ ClaimReturn(r)
  /\ MoveFor(r, t, "RETURN", request[r].quantity)
  /\ requestMoves' = [requestMoves EXCEPT ![r].restored = @ + 1]
  /\ SetStatus(request[r].item, "GOOD_CONDITION")
  /\ Finish(k)
  /\ UNCHANGED edited

CommitCloseWithdrawal(k) ==
  /\ clerk[k].op = "return" /\ clerk[k].type = "WITHDRAWAL"
  /\ ClaimReturn(clerk[k].on)
  /\ Finish(k)
  /\ UNCHANGED <<itemVars, requestMoves, edited>>

BeginUpdate(k, r, s) ==
  /\ request[r].status \notin {"none", "RETURNED"}
  /\ Take(k, [op |-> "update", on |-> r, to |-> s])

CommitUpdate(k) ==
  /\ clerk[k].op = "update"
  /\ request' = [request EXCEPT ![clerk[k].on].status = clerk[k].to]
  /\ edited' = edited \cup {clerk[k].on}
  /\ Finish(k)
  /\ UNCHANGED <<itemVars, requestMoves>>

\* The claim or the ledger refused, or the process was lost.
AbandonClerk(k) ==
  /\ clerk[k] # Idle
  /\ Finish(k)
  /\ UNCHANGED <<itemVars, request, requestMoves, edited>>

RequestsNext ==
  \/ \E r \in Requests, i \in Items, c \in Campuses, n \in Amounts : CreateRequest(r, i, c, n)
  \/ \E r \in Requests, ty \in OutTypes, t \in BorrowTx : ApproveOut(r, ty, t)
  \/ \E r \in Requests, t \in BorrowTx : ApproveReturn(r, t)
  \/ \E k \in Clerks, r \in Requests : BeginReject(k, r)
  \/ \E k \in Clerks : CommitReject(k)
  \/ \E k \in Clerks, r \in Requests : BeginMarkReturned(k, r)
  \/ \E k \in Clerks, t \in BorrowTx : CommitReturnIssue(k, t)
  \/ \E k \in Clerks : CommitCloseWithdrawal(k)
  \/ \E k \in Clerks, r \in Requests, s \in EditStatuses : BeginUpdate(k, r, s)
  \/ \E k \in Clerks : CommitUpdate(k)
  \/ \E k \in Clerks : AbandonClerk(k)

\* Requests run beside the item handlers and the other callers of the ledger.
BorrowNext ==
  \/ RequestsNext
  \/ InventoryNext /\ UNCHANGED <<request, requestMoves, edited, clerk>>

BorrowSpec == BorrowInit /\ [][BorrowNext]_borrowVars

-----------------------------------------------------------------------------
(* The movements of a request match what became of it: an issue or a       *)
(* withdrawal moved its stock out once, a returned issue also back once, a *)
(* request closed as a RETURN in once, and a pending one not at all.       *)
(* Concurrent approvals and returns of one request do not move its stock   *)
(* twice.  Left out are a rejected request, because reject writes its      *)
(* decision over an approval that it did not see, and a request whose      *)
(* status staff have written by hand (StockRestoredOnce covers those).     *)
ExpectedMoves(r) ==
  LET linked == request[r].tx # NoTx
      consumed == linked /\ itemTx[request[r].tx].type = "WITHDRAWAL"
      status == request[r].status IN
  [issued   |-> IF status \in {"APPROVED", "RETURNED"} /\ linked THEN 1 ELSE 0,
   received |-> IF status = "RETURNED" /\ ~linked THEN 1 ELSE 0,
   restored |-> IF status = "RETURNED" /\ linked /\ ~consumed THEN 1 ELSE 0]

RequestAccounted ==
  \A r \in Requests \ edited :
    request[r].status # "REJECTED" => requestMoves[r] = ExpectedMoves(r)

(* "two return calls cannot each restore stock": markReturned brings the   *)
(* stock of a request back once at most, whatever status staff write over  *)
(* the row before, between and after the calls.                            *)
StockRestoredOnce == \A r \in Requests : requestMoves[r].restored <= 1
=============================================================================
