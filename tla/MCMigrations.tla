---------------------------- MODULE MCMigrations ----------------------------
(***************************************************************************)
(* The instance of Migrations for TLC.  Its files 1 to 5 are 001, 010,     *)
(* 011, 013 and 016 of pkg/migrations/global_index: 013 drops a column     *)
(* that 001 indexes, and 016 renames the one that 010 and itself name.     *)
(***************************************************************************)
EXTENDS Migrations

MCConflicts == {<<1, 4>>, <<2, 5>>, <<5, 5>>}
=============================================================================
