----------------------------- MODULE MCGnssTrace -----------------------------
(* Instances of GnssTrace for TLC, with the invariants of its proofs. *)
EXTENDS GnssTraceLapProofs
=============================================================================
