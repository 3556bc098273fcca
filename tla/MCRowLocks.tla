----------------------------- MODULE MCRowLocks -----------------------------
(***************************************************************************)
(* An instance of RowLocks for TLC.  Of three clients two have connections *)
(* at a time, so that one may wait for the pool while the others wait for  *)
(* each other's rows.                                                      *)
(***************************************************************************)
EXTENDS RowLocks

=============================================================================
