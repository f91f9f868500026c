--------------------------- MODULE MCPhase4Stages ---------------------------
(***************************************************************************)
(* Phase4Stages on a small instance.                                       *)
(***************************************************************************)
EXTENDS Phase4Stages

=============================================================================
