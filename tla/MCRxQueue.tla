----------------------------- MODULE MCRxQueue ------------------------------
(* Instances of RxQueue for TLC. *)
EXTENDS RxQueueProofs
=============================================================================
