-------------------------- MODULE MCSqliteMigration --------------------------
(* One process at a time, or two that start together on one file.            *)
EXTENDS SqliteMigration, TLC

MigratorSymmetry == Permutations(Migrators)

=============================================================================
