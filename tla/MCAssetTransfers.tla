-------------------------- MODULE MCAssetTransfers --------------------------
(* Instances of AssetTransfers for TLC. *)
EXTENDS AssetTransfers, TLC

CONSTANTS c1, c2

\* Every item lives at the first campus.
MCHome == [i \in Items |-> c1]

\* The rows receipt creates, besides the ids given to TransactionsService.
MCTxIds == DirectTx \cup (Batches \X Items)
=============================================================================
