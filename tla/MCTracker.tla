----------------------------- MODULE MCTracker ------------------------------
(* Instances of Tracker for TLC, with the invariant of its proofs. *)
EXTENDS TrackerProofs
=============================================================================
