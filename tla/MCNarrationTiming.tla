-------------------------- MODULE MCNarrationTiming --------------------------
(***************************************************************************)
(* NarrationTiming on all inputs of a small instance.                      *)
(***************************************************************************)
EXTENDS NarrationTiming

=============================================================================
