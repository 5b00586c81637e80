--------------------------- MODULE MCTransactions ---------------------------
(* Transactions on a small instance. Keys, values and transactions are      *)
(* model values that nothing orders, so they are symmetric.                 *)
EXTENDS Transactions, TLC

Symmetry == Permutations(Key) \union Permutations(Value) \union Permutations(Txn)
=============================================================================
