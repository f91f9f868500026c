---------------------------- MODULE MCTextStages ----------------------------
(***************************************************************************)
(* TextStages on a small instance.                                         *)
(***************************************************************************)
EXTENDS TextStages

=============================================================================
