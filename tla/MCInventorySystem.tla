------------------------- MODULE MCInventorySystem -------------------------
(* Instances of InventorySystem for TLC. *)
EXTENDS InventorySystem, TLC

CONSTANTS c1, c2

MCHome == [i \in Items |-> c1]

MCTxIds == DirectTx \cup BorrowTx \cup (Batches \X Items)

MCSymmetry ==
  Permutations(Clerks) \cup Permutations(BorrowTx) \cup Permutations(Workers) \cup Permutations(Desks)
=============================================================================
