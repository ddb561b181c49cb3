---------------------------- MODULE StockCustody ----------------------------
(***************************************************************************)
(* What the inventory promises about an item, campuses and reservations    *)
(* aside: so much of it is on hand, and every issue or withdrawal holds    *)
(* some of it until it comes back.  Stock enters and leaves the books for  *)
(* one item at a time; handing stock out and taking it back only move it   *)
(* between the shelf and the holder, and each issue comes back at most     *)
(* once.  A transfer between campuses is not visible here.                 *)
(***************************************************************************)
EXTENDS Integers, FiniteSetsExt

CONSTANTS Items, Holdings

VARIABLES
  onHand,     \* stock of each item
  entered,    \* stock of each item that came and went otherwise than by holdings
  held        \* each holding: unused, out or back, of so much of an item

custodyVars == <<onHand, entered, held>>

Out(i) == {x \in Holdings : held[x].state = "out" /\ held[x].item = i}

Total(i) == onHand[i] + MapThenSumSet(LAMBDA x : held[x].quantity, Out(i))

CustodyInit ==
  /\ \A i \in Items : onHand[i] \in Nat /\ entered[i] = onHand[i]
  /\ \A x \in Holdings : held[x].state = "unused"

\* Stock is received, adjusted, consumed or returned without an issue.
Book(i) ==
  /\ onHand'[i] \in Nat
  /\ onHand'[i] - onHand[i] = entered'[i] - entered[i]
  /\ \A j \in Items \ {i} : UNCHANGED <<onHand[j], entered[j]>>
  /\ UNCHANGED held

\* Holdings not used before take stock that was on hand.
HandOut ==
  /\ \A x \in Holdings :
       held'[x] # held[x] => held[x].state = "unused" /\ held'[x].state = "out"
  /\ \A i \in Items : onHand'[i] \in Nat /\ Total(i)' = Total(i)
  /\ UNCHANGED entered

\* One holding brings back all it took.
TakeBack(x) ==
  /\ held[x].state = "out"
  /\ held'[x] = [held[x] EXCEPT !.state = "back"]
  /\ \A y \in Holdings \ {x} : held'[y] = held[y]
  /\ \A i \in Items : Total(i)' = Total(i)
  /\ UNCHANGED entered

CustodyNext ==
  \/ \E i \in Items : Book(i)
  \/ HandOut
  \/ \E x \in Holdings : TakeBack(x)

CustodySpec == CustodyInit /\ [][CustodyNext]_custodyVars
=============================================================================
