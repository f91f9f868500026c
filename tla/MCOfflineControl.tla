-------------------------- MODULE MCOfflineControl --------------------------
(***************************************************************************)
(* OfflineControl on small instances.  Jobs are interchangeable; symmetry  *)
(* is used by the runs without liveness only.                              *)
(***************************************************************************)
EXTENDS OfflineControl, TLC

Symmetry == Permutations(Jobs)

=============================================================================
