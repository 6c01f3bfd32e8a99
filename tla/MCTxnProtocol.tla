--------------------------- MODULE MCTxnProtocol ---------------------------
(* TxnProtocol on a small instance.  Transactions are interchangeable.     *)
EXTENDS TxnProperties, TLC

TxnSymmetry == Permutations(Txns)
=============================================================================
