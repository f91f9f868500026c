---------------------------- MODULE JobLifecycle ----------------------------
(***************************************************************************)
(* What the job store promises its callers about a job, whatever the       *)
(* pipeline does with it.                                                  *)
(*                                                                         *)
(* A job is absent until it is created, then active (somewhere between     *)
(* CREATED and VERIFYING, or waiting for the user), parked (PAUSED or      *)
(* FAILED), cancelling, and finally cancelled or completed.  The machine   *)
(* has one slot for a heavy job: a job holds it from the moment it becomes *)
(* active until it is parked or ended, cancellation included, so that the  *)
(* next job cannot start while the cancelled one is still being cleaned.   *)
(*                                                                         *)
(* JobStore, OfflineControl and DownloadControl implement this module.     *)
(***************************************************************************)

CONSTANT Jobs

VARIABLES
    phase,      \* phase[j]: where job j is in its life
    owners      \* the jobs that hold the single slot: never more than one

vars == <<phase, owners>>

Phases == {"absent", "active", "parked", "cancelling", "cancelled", "completed"}

TypeOK ==
    /\ phase \in [Jobs -> Phases]
    /\ owners \subseteq Jobs

Init ==
    /\ phase = [j \in Jobs |-> "absent"]
    /\ owners = {}

SetPhase(j, p) == phase' = [phase EXCEPT ![j] = p]

(* A job becomes active only when nobody holds the slot. *)
Create(j) ==
    /\ phase[j] = "absent"
    /\ owners = {}
    /\ SetPhase(j, "active")
    /\ owners' = {j}

Park(j) ==
    /\ phase[j] = "active"
    /\ SetPhase(j, "parked")
    /\ owners' = owners \ {j}

Resume(j) ==
    /\ phase[j] = "parked"
    /\ owners = {}
    /\ SetPhase(j, "active")
    /\ owners' = {j}

(* Cancelling a job keeps the slot if the job had it and takes none if it  *)
(* was parked.                                                             *)
RequestCancel(j) ==
    /\ phase[j] \in {"active", "parked"}
    /\ SetPhase(j, "cancelling")
    /\ UNCHANGED owners

FinishCancel(j) ==
    /\ phase[j] = "cancelling"
    /\ SetPhase(j, "cancelled")
    /\ owners' = owners \ {j}

Complete(j) ==
    /\ phase[j] = "active"
    /\ SetPhase(j, "completed")
    /\ owners' = owners \ {j}

Next ==
    \E j \in Jobs :
        \/ Create(j)
        \/ Park(j)
        \/ Resume(j)
        \/ RequestCancel(j)
        \/ FinishCancel(j)
        \/ Complete(j)

Spec == Init /\ [][Next]_vars

=============================================================================
