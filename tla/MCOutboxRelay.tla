--------------------------- MODULE MCOutboxRelay ---------------------------
(* Instances of OutboxRelay for TLC. *)
EXTENDS OutboxRelay, TLC

\* Relays are interchangeable; sound for safety runs only.
Symmetry == Permutations(Relays)
=============================================================================
