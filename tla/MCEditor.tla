------------------------------ MODULE MCEditor ------------------------------
(* Model values of Editor for TLC: one local file, visibility and location. *)
EXTENDS Editor

CONSTANTS f1, visibility, location

MCFiles == {f1}
MCMetas == {visibility}
=============================================================================
