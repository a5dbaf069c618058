----------------------------- MODULE MCMigrator -----------------------------
(* Small instances of Migrator for TLC: the migration files of the SQLite    *)
(* driver from 0.22 on, and one of the old ones.                             *)
EXTENDS Migrator, TLC

F(m, p) == [minor |-> m, patch |-> p]

SQLiteFiles ==
    {F(10, 0), F(22, 0), F(22, 1), F(22, 2), F(22, 3), F(23, 0), F(24, 0), F(24, 1), F(25, 0)}

\* 0.23/00 only updates rows and 0.25/00 is a DROP TABLE IF EXISTS.
SQLiteIdempotent == {F(23, 0), F(25, 0)}

Symmetry == Permutations(Procs) \cup Permutations(Secrets)
=============================================================================
