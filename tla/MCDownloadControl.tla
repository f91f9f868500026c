------------------------- MODULE MCDownloadControl -------------------------
(***************************************************************************)
(* DownloadControl on small instances.  Jobs are interchangeable; symmetry *)
(* is used by the runs without liveness only.                              *)
(***************************************************************************)
EXTENDS DownloadControl, TLC

Symmetry == Permutations(Jobs)

=============================================================================
