---------------------------- MODULE StockLedger ----------------------------
(***************************************************************************)
(* The stock tables and the operations of InventoryLedgerService on them.  *)
(*                                                                         *)
(* Every change of stock in the backend goes through this service, inside  *)
(* the caller's database transaction.  Each ledger method issues ONE       *)
(* conditional UPDATE and throws when it matched no row, which rolls the   *)
(* whole transaction back: so an operation is an action whose guard is the *)
(* WHERE clause, and a caller's transaction is the conjunction of the      *)
(* operations it performs.  The callers (transactions, transfers, borrow   *)
(* requests, items) are the modules that extend this one.                  *)
(*                                                                         *)
(* Quantities are Decimal(15,4) columns: here naturals, counted in the     *)
(* column's smallest unit.                                                 *)
(***************************************************************************)
EXTENDS Integers, FiniteSets, FiniteSetsExt

CONSTANTS
  Items,       \* InventoryItem ids
  Campuses,    \* the Campus enumeration
  Home,        \* Home[i]: InventoryItem.campus, set at creation and not updatable
  MaxOnHand    \* bound: fresh stock of an item never takes it above this total

ASSUME LedgerAssumption ==
  /\ IsFiniteSet(Items) /\ Items # {}
  /\ IsFiniteSet(Campuses)
  /\ Home \in [Items -> Campuses]
  /\ MaxOnHand \in Nat

VARIABLES
  itemState,   \* InventoryItem: absent, active or archived (isActive = false)
  balance,     \* InventoryStock row: absent, active or inactive
  quantity,    \* InventoryStock.quantity (0 while the row is absent)
  reserved,    \* InventoryStock.reservedQuantity
  moved        \* sum of StockMovement.quantityChange recorded for the balance

stockVars == <<balance, quantity, reserved, moved>>
ledgerVars == <<itemState, balance, quantity, reserved, moved>>

Accounts == Items \X Campuses

LedgerTypeOK ==
  /\ itemState \in [Items -> {"absent", "active", "archived"}]
  /\ balance \in [Accounts -> {"absent", "active", "inactive"}]
  /\ quantity \in [Accounts -> Nat]
  /\ reserved \in [Accounts -> Nat]
  /\ moved \in [Accounts -> Int]

(***************************************************************************)
(* A database in which some items have been created, each with a balance   *)
(* at its home campus whose initial quantity was recorded as a movement.   *)
(***************************************************************************)
LedgerInit ==
  /\ itemState \in [Items -> {"absent", "active"}]
  /\ \E opening \in [Items -> 0..MaxOnHand] :
       /\ \A i \in Items : itemState[i] = "absent" => opening[i] = 0
       /\ quantity = [a \in Accounts |->
                        IF a[2] = Home[a[1]] THEN opening[a[1]] ELSE 0]
  /\ balance = [a \in Accounts |->
                  IF itemState[a[1]] = "active" /\ a[2] = Home[a[1]]
                  THEN "active" ELSE "absent"]
  /\ reserved = [a \in Accounts |-> 0]
  /\ moved = quantity

-----------------------------------------------------------------------------
(* Lines: the quantities of a set of items, 0 for an item not among them.  *)
Lines == [Items -> Nat]
Named(lines) == {i \in Items : lines[i] > 0}

Available(a) == quantity[a] - reserved[a]

\* Mutant: the WHERE clauses forget the item.
UsableArchived(i, c) == balance[<<i, c>>] = "active"

\* The conjuncts "stock.isActive" and "item.isActive" of the WHERE clauses.
Usable(i, c) == itemState[i] = "active" /\ balance[<<i, c>>] = "active"

OnHand(i) == MapThenSumSet(LAMBDA c : quantity[<<i, c>>], Campuses)

\* Bound on fresh stock entering the model.
Room(i, n) == OnHand(i) + n <= MaxOnHand

\* Mutants: no check of the amount; a check that forgets the reservations.
ApplyUnchecked(i, c, d) ==
  /\ d # 0
  /\ Usable(i, c)
  /\ quantity' = [quantity EXCEPT ![<<i, c>>] = @ + d]
  /\ moved' = [moved EXCEPT ![<<i, c>>] = @ + d]
  /\ UNCHANGED <<balance, reserved>>

ApplyOverReserved(i, c, d) ==
  /\ d < 0 => quantity[<<i, c>>] >= -d
  /\ ApplyUnchecked(i, c, d)

(***************************************************************************)
(* apply: change one balance by d and record the movement.  A decrement    *)
(* needs the amount to be available, reservations aside.                   *)
(***************************************************************************)
Apply(i, c, d) ==
  /\ d # 0
  /\ Usable(i, c)
  /\ d < 0 => Available(<<i, c>>) >= -d
  /\ quantity' = [quantity EXCEPT ![<<i, c>>] = @ + d]
  /\ moved' = [moved EXCEPT ![<<i, c>>] = @ + d]
  /\ UNCHANGED <<balance, reserved>>

(***************************************************************************)
(* reserve, releaseReservation: called once per line of a transfer batch.  *)
(* The lines of a batch name distinct items, so the calls touch distinct   *)
(* rows and the loop is one update of the campus's column.                 *)
(***************************************************************************)
Reserve(lines, c) ==
  /\ \A i \in Named(lines) : Usable(i, c) /\ Available(<<i, c>>) >= lines[i]
  /\ reserved' = [a \in Accounts |->
                    reserved[a] + (IF a[2] = c THEN lines[a[1]] ELSE 0)]
  /\ UNCHANGED <<balance, quantity, moved>>

ReleaseReservation(lines, c) ==
  /\ \A i \in Named(lines) : reserved[<<i, c>>] >= lines[i]
  /\ reserved' = [a \in Accounts |->
                    reserved[a] - (IF a[2] = c THEN lines[a[1]] ELSE 0)]
  /\ UNCHANGED <<balance, quantity, moved>>

\* consumeReservation: its guard; the amount leaves quantity and reserved.
CanConsume(lines, c) ==
  \A i \in Named(lines) :
     /\ reserved[<<i, c>>] >= lines[i]
     /\ quantity[<<i, c>>] >= lines[i]

\* Mutant: the movement is recorded at the destination only.
TransferReservedOneSided(lines, kept, src, dst) ==
  LET In(a) == IF a[2] = dst THEN kept[a[1]] ELSE 0
      Out(a) == IF a[2] = src THEN lines[a[1]] ELSE 0 IN
  /\ CanConsume(lines, src)
  /\ quantity' = [a \in Accounts |-> quantity[a] + In(a) - Out(a)]
  /\ moved' = [a \in Accounts |-> moved[a] + In(a)]
  /\ reserved' = [a \in Accounts |-> reserved[a] - Out(a)]
  /\ balance' = [a \in Accounts |->
                    IF a[2] = dst /\ a[1] \in Named(lines) THEN "active" ELSE balance[a]]

(***************************************************************************)
(* transferReserved for every line: consume at the source, upsert the      *)
(* destination balance (created or re-activated), one movement at each     *)
(* end.  kept[i] is what stays at the destination once the caller has      *)
(* issued the rest of line i with apply, whose movement is counted too.    *)
(***************************************************************************)
TransferReserved(lines, kept, src, dst) ==
  LET Change(a) == IF a[2] = src THEN -lines[a[1]]
                   ELSE IF a[2] = dst THEN kept[a[1]] ELSE 0 IN
  /\ src # dst
  /\ CanConsume(lines, src)
  /\ quantity' = [a \in Accounts |-> quantity[a] + Change(a)]
  /\ moved' = [a \in Accounts |-> moved[a] + Change(a)]
  /\ reserved' = [a \in Accounts |->
                    reserved[a] - (IF a[2] = src THEN lines[a[1]] ELSE 0)]
  /\ balance' = [a \in Accounts |->
                    IF a[2] = dst /\ a[1] \in Named(lines) THEN "active"
                    ELSE balance[a]]

(***************************************************************************)
(* deactivateBalance: retire an empty, unreserved balance.                 *)
(***************************************************************************)
DeactivateBalance(i, c) ==
  /\ balance[<<i, c>>] = "active"
  /\ quantity[<<i, c>>] = 0
  /\ reserved[<<i, c>>] = 0
  /\ balance' = [balance EXCEPT ![<<i, c>>] = "inactive"]
  /\ UNCHANGED <<itemState, quantity, reserved, moved>>

(***************************************************************************)
(* StockMovementsService.create: a manual movement at the item's campus.   *)
(* The sign checks on the movement type leave every nonzero change legal   *)
(* under some type (ADJUSTED takes both signs).  The client may send a     *)
(* referenceType and a referenceId, any of them: they are copied into the  *)
(* movement, which nothing in the program looks up by them, and are left   *)
(* out as the reason is.  Histories of what the services moved (txMoved    *)
(* and the like) count the movements the services themselves wrote.        *)
(***************************************************************************)
RecordMovement(i, d) ==
  /\ d > 0 => Room(i, d)
  /\ Apply(i, Home[i], d)
  /\ UNCHANGED itemState

-----------------------------------------------------------------------------
(* The database constraints InventoryStock_quantity/reserved checks.       *)
ReservationsCovered == \A a \in Accounts : reserved[a] <= quantity[a]

(* The stock of a balance is what its recorded movements add up to: no     *)
(* operation moves stock without a movement at each end, nor records one   *)
(* without moving the stock.                                               *)
LedgerBalanced == \A a \in Accounts : moved[a] = quantity[a]

\* A balance row that does not exist carries no stock.
AbsentIsEmpty ==
  \A a \in Accounts : balance[a] = "absent" => quantity[a] = 0 /\ reserved[a] = 0

LedgerSafe == ReservationsCovered /\ LedgerBalanced /\ AbsentIsEmpty
=============================================================================
