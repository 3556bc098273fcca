----------------------------- MODULE MCWorkflow -----------------------------
(***************************************************************************)
(* Instances of Workflow for TLC.  Workers are interchangeable; liveness   *)
(* is checked without the symmetry.                                        *)
(***************************************************************************)
EXTENDS WorkflowProperties, TLC

WorkerSymmetry == Permutations(Workers)

=============================================================================
