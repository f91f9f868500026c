----------------------------- MODULE MCJobFiles -----------------------------
(***************************************************************************)
(* JobFiles on a small instance.                                           *)
(***************************************************************************)
EXTENDS JobFiles

=============================================================================
