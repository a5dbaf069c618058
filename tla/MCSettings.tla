------------------------------ MODULE MCSettings ------------------------------
(* Settings for TLC: its constants are given in the configuration. *)
EXTENDS Settings
=============================================================================
