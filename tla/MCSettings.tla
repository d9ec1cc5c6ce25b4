----------------------------- MODULE MCSettings -----------------------------
(* Instances of Settings for TLC. *)
EXTENDS SettingsProofs

MCDefault == [f \in Fields |-> 1]
=============================================================================
