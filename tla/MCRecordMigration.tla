-------------------------- MODULE MCRecordMigration --------------------------
(***************************************************************************)
(* An instance of RecordMigration for TLC: a table of two encrypted fields *)
(* with two rows and room for a third, and in-memory targets of one field  *)
(* with up to three rows, in batches of two.                               *)
(***************************************************************************)
EXTENDS RecordMigration

=============================================================================
