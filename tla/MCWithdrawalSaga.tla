-------------------------- MODULE MCWithdrawalSaga --------------------------
(* Instances of WithdrawalSaga for TLC. *)
EXTENDS WithdrawalSaga, TLC

\* Interchangeable actors and keys; sound for the safety runs only.
Symmetry == Permutations(Reqs) \cup Permutations(Workers) \cup Permutations(Keys)
=============================================================================
