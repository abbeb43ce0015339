----------------------- MODULE MCTransactionHistory -----------------------
(* Instances of TransactionHistory for TLC. *)
EXTENDS TransactionHistory
=============================================================================
