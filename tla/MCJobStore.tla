----------------------------- MODULE MCJobStore -----------------------------
(***************************************************************************)
(* JobStore on small instances.  Jobs and clients are interchangeable.     *)
(***************************************************************************)
EXTENDS JobStore, TLC

Symmetry == Permutations(Jobs) \cup Permutations(Clients)

=============================================================================
