---------------------------- MODULE MCTokenList ----------------------------
(* Small instances of TokenList for TLC.                                    *)
EXTENDS TokenList, TLC

Symmetry == Permutations(Users) \cup Permutations(Tokens) \cup Permutations(Procs)
=============================================================================
