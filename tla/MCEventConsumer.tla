-------------------------- MODULE MCEventConsumer --------------------------
(* Instances of EventConsumer for TLC. *)
EXTENDS EventConsumer
=============================================================================
