------------------------------ MODULE MCMemos ------------------------------
(* Small instances of Memos for TLC.                                        *)
EXTENDS Memos, TLC

\* No two attachments are uploaded under one name in one second.
OwnFile == [a \in Atts |-> a]

Symmetry == Permutations(Procs) \cup Permutations(Atts)
=============================================================================
