------------------------------ MODULE JobRows ------------------------------
(***************************************************************************)
(* One row of the jobs table and the rule by which update_status rewrites  *)
(* it: the status graph, the columns derived from a transition, and the    *)
(* refusals.  No state: JobStore and OfflineControl are built from it.     *)
(*                                                                         *)
(* A row keeps the columns that control the job.  Stage, progress, error   *)
(* texts, results and the details payload are data and are left out, as    *)
(* are the revision and the event written with each update.                *)
(***************************************************************************)

Terminal == {"COMPLETED", "CANCELLED"}
Parked == {"PAUSED", "FAILED"}
Cancelled == {"CANCELLING", "CANCELLED"}

(* ACTIVE_JOB_STATUSES *)
Active ==
    {"CREATED", "SEARCHING", "AWAITING_RELEASE_SELECTION", "DOWNLOADING",
     "SUBTITLE_MATCHING", "READY_OFFLINE", "TRANSCRIBING",
     "SUBTITLE_SELECTED", "READY_TRANSLATION", "TRANSLATING", "READY_TTS",
     "SEPARATING", "SYNTHESIZING", "TIMING", "MIXING", "MUXING",
     "VERIFYING", "NEEDS_LANGUAGE", "NEEDS_SUBTITLE_SELECTION",
     "CANCELLING"}

Statuses == Active \cup Parked \cup Terminal

(* Active without CANCELLING: the job is at work or waits for its user. *)
Live == Active \ Cancelled

(* _TRANSITIONS.  Every live status may be failed and cancelled, and       *)
(* paused once the download has begun; the waits for the user cannot fail, *)
(* and the three statuses before the download cannot be paused.            *)
Forward ==
    [CREATED                    |-> {"DOWNLOADING"},
     SEARCHING                  |-> {"AWAITING_RELEASE_SELECTION"},
     AWAITING_RELEASE_SELECTION |-> {"DOWNLOADING"},
     DOWNLOADING                |-> {"SUBTITLE_MATCHING", "READY_OFFLINE"},
     SUBTITLE_MATCHING          |-> {"READY_OFFLINE", "NEEDS_SUBTITLE_SELECTION"},
     READY_OFFLINE              |-> {"TRANSCRIBING", "SUBTITLE_SELECTED"},
     TRANSCRIBING               |-> {"READY_TRANSLATION", "NEEDS_LANGUAGE"},
     SUBTITLE_SELECTED          |-> {"READY_TRANSLATION"},
     NEEDS_LANGUAGE             |-> {"TRANSCRIBING"},
     NEEDS_SUBTITLE_SELECTION   |-> {"READY_OFFLINE", "SUBTITLE_SELECTED",
                                     "TRANSCRIBING"},
     READY_TRANSLATION          |-> {"TRANSLATING"},
     TRANSLATING                |-> {"READY_TTS"},
     READY_TTS                  |-> {"SEPARATING", "SYNTHESIZING"},
     SEPARATING                 |-> {"SYNTHESIZING"},
     SYNTHESIZING               |-> {"TIMING"},
     TIMING                     |-> {"MIXING", "MUXING"},
     MIXING                     |-> {"MUXING"},
     MUXING                     |-> {"VERIFYING"},
     VERIFYING                  |-> {"COMPLETED"}]

CannotPause == {"CREATED", "SEARCHING", "AWAITING_RELEASE_SELECTION"}
CannotFail == {"NEEDS_LANGUAGE", "NEEDS_SUBTITLE_SELECTION"}

Transitions(s) ==
    IF s \in Live
    THEN Forward[s] \cup {"CANCELLED"}
         \cup (IF s \in CannotPause THEN {} ELSE {"PAUSED"})
         \cup (IF s \in CannotFail THEN {} ELSE {"FAILED"})
    ELSE IF s \in Parked \cup {"CANCELLING"} THEN {"CANCELLED"} ELSE {}

-----------------------------------------------------------------------------
(* previous is NULL ("none") unless the job is parked. *)
Row == [status : Statuses, previous : Statuses \cup {"none"},
        slot : BOOLEAN, cancel : BOOLEAN, retryable : BOOLEAN]

(* The place of a job that has not been created. *)
NoRow == [status |-> "absent", previous |-> "none",
          slot |-> FALSE, cancel |-> FALSE, retryable |-> FALSE]

(* A row as create_job and create_ready_offline_job insert it. *)
InsertedRow(s) == [NoRow EXCEPT !.status = s, !.slot = TRUE]

(* Mutant: no transition check. *)
MayBecomeAnything(r, s, force) == TRUE

(* The transition check of update_status on the row it reads in its        *)
(* transaction.  CANCELLING is reached from anything that has not ended.   *)
MayBecome(r, s, force) ==
    \/ s = r.status
    \/ force
    \/ s = "CANCELLING" /\ r.status \notin Terminal
    \/ s \in Transitions(r.status)

(* Mutant: previous_status is not cleared when the job goes on. *)
PreviousAfterKept(r, s) ==
    IF s \in Parked /\ r.status # s THEN r.status ELSE r.previous

(* previous_status: where the job stood when it was parked. *)
PreviousAfter(r, s) ==
    IF s \in Parked
    THEN IF r.status = s THEN r.previous ELSE r.status
    ELSE "none"

(* Mutants: the slot follows the status alone, counting CANCELLING in or   *)
(* out.                                                                    *)
SlotByStatus(r, s) == s \in Active
SlotFreedByCancel(r, s) == s \in Live

(* active_slot: kept on the way to CANCELLING, else what the status says. *)
SlotAfter(r, s) == IF s = "CANCELLING" THEN r.slot ELSE s \in Active

(* The row update_status writes; cancel is the new cancel_requested. *)
UpdatedRow(r, s, retryable, cancel) ==
    [status |-> s, previous |-> PreviousAfter(r, s), slot |-> SlotAfter(r, s),
     cancel |-> cancel, retryable |-> retryable]

(* commit_transcript, initialize_translation_plan and                      *)
(* commit_translation_artifact write the row in their own transaction and  *)
(* leave the slot and cancel_requested alone.                              *)
CommittedRow(r, s) ==
    [r EXCEPT !.status = s, !.previous = "none", !.retryable = FALSE]

(* The status resume returns a parked job to: where it was parked, or the  *)
(* beginning when that is not a place to work from.                        *)
ResumeTarget(previous) ==
    IF previous \in {"none"} \cup Terminal \cup Parked
    THEN "CREATED" ELSE previous

-----------------------------------------------------------------------------
(* Where a job of that status stands in the life cycle of JobLifecycle.    *)
PhaseOf(s) ==
    CASE s = "absent" -> "absent"
      [] s \in Live -> "active"
      [] s \in Parked -> "parked"
      [] s = "CANCELLING" -> "cancelling"
      [] s = "CANCELLED" -> "cancelled"
      [] s = "COMPLETED" -> "completed"

=============================================================================
