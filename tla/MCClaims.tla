------------------------------ MODULE MCClaims ------------------------------
(***************************************************************************)
(* Instances of DocumentedClaims for TLC.                                  *)
(***************************************************************************)
EXTENDS DocumentedClaims, TLC

WorkerSymmetry == Permutations(Workers)

=============================================================================
