------------------------------ MODULE MCStore ------------------------------
(***************************************************************************)
(* Instances of UploadMigration for TLC.                                   *)
(***************************************************************************)
EXTENDS UploadMigration, TLC

StoreSymmetry == Permutations(Documents) \cup Permutations(Clients)

=============================================================================
