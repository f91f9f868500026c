------------------------------ MODULE JobStore ------------------------------
(***************************************************************************)
(* The job side of StateStore (state.py): the jobs table, the unique index *)
(* that keeps one heavy job at a time, and the operations through which    *)
(* the API process and the worker process move a job.                      *)
(*                                                                         *)
(* One SQLite transaction (BEGIN IMMEDIATE ... COMMIT) is one step.        *)
(* update_status, create_job and the commit_* operations are a single      *)
(* transaction.  request_cancel, finalize_cancel, resume, update_progress  *)
(* and every caller that passes expected_status first read the job in a    *)
(* transaction of its own (get_job) and write in a second one: between the *)
(* two, any other client may write.  These are the two steps Read and      *)
(* Finish... of a client, which keeps what it read in call[c].             *)
(***************************************************************************)
EXTENDS JobRows, FiniteSets

CONSTANTS
    Jobs,       \* the jobs that may ever be created
    Clients     \* callers between the read and the write of an operation

VARIABLES
    rows,       \* the jobs table; NoRow for a job not yet inserted
    call        \* call[c]: what client c read, and the operation it read it for

vars == <<rows, call>>

(* The operations that read the job before the transaction that writes it. *)
Operations == {"cancel", "finalize", "resume", "expected", "progress"}

NoCall == [op |-> "none"]

Call == [op : Operations, job : Jobs, status : Statuses,
         previous : Statuses \cup {"none"}]

Init ==
    /\ rows = [j \in Jobs |-> NoRow]
    /\ call = [c \in Clients |-> NoCall]

-----------------------------------------------------------------------------
(* Mutant: no unique index. *)
IndexAllowsAll(j, row) == TRUE

(* Writing a row.  jobs_one_active_idx is a unique index over the rows     *)
(* with active_slot = 1: a write that would make a second one is rolled    *)
(* back (ActiveJobExists) and changes nothing.                             *)
IndexAllows(j, row) == row.slot => \A k \in Jobs \ {j} : ~rows[k].slot

WriteRow(j, row) ==
    /\ IndexAllows(j, row)
    /\ rows' = [rows EXCEPT ![j] = row]

(* The columns a caller of update_status chooses.  retryable is read only  *)
(* of a FAILED row and is kept only there.                                 *)
RetryChoices(s) == IF s = "FAILED" THEN BOOLEAN ELSE {FALSE}

(* The transaction of update_status.  A refused transition raises and      *)
(* leaves the table as it is, which is no step.                            *)
UpdateStatus(j, s, force, retryable, cancel) ==
    /\ rows[j] # NoRow
    /\ MayBecome(rows[j], s, force)
    /\ WriteRow(j, UpdatedRow(rows[j], s, retryable, cancel))

-----------------------------------------------------------------------------
(* Operations of one transaction.                                          *)

CreateJob(j) ==
    /\ rows[j] = NoRow
    /\ WriteRow(j, InsertedRow("CREATED"))
    /\ UNCHANGED call

CreateReadyOfflineJob(j) ==
    /\ rows[j] = NoRow
    /\ WriteRow(j, InsertedRow("READY_OFFLINE"))
    /\ UNCHANGED call

(* update_status as the API calls it after an await, with no expected      *)
(* status: only the status graph protects the row.  A job comes to         *)
(* CANCELLING and CANCELLED by request_cancel and finalize_cancel alone;   *)
(* a call that writes CANCELLING over itself is a FinishProgress.          *)
Advance(j) ==
    /\ \E s \in Statuses \ Cancelled : \E retryable \in RetryChoices(s) :
          UpdateStatus(j, s, FALSE, retryable, rows[j].cancel)
    /\ UNCHANGED call

(* fail_resume_download forces FAILED over the PAUSED status it has just   *)
(* read.  A job is still PAUSED there only if the resume failed before it  *)
(* moved the row, hence before it touched the torrent: then the function   *)
(* does not await between its read and its write, and no other request     *)
(* comes between.                                                          *)
FailPausedResume(j) ==
    /\ rows[j].status = "PAUSED"
    /\ \E retryable \in BOOLEAN :
          UpdateStatus(j, "FAILED", TRUE, retryable, rows[j].cancel)
    /\ UNCHANGED call

CommitTranscript(j) ==
    /\ rows[j].status \in {"TRANSCRIBING", "SUBTITLE_SELECTED"}
    /\ WriteRow(j, CommittedRow(rows[j], "READY_TRANSLATION"))
    /\ UNCHANGED call

(* Repeated on a plan already begun, it changes nothing. *)
InitializeTranslationPlan(j) ==
    /\ rows[j].status = "READY_TRANSLATION"
    /\ WriteRow(j, CommittedRow(rows[j], "TRANSLATING"))
    /\ UNCHANGED call

CommitTranslationArtifact(j) ==
    /\ rows[j].status = "TRANSLATING"
    /\ WriteRow(j, CommittedRow(rows[j], "READY_TTS"))
    /\ UNCHANGED call

-----------------------------------------------------------------------------
(* Operations of two transactions: get_job, then update_status.            *)

(* The early returns and refusals an operation decides from its read.      *)
Wanted(op, row) ==
    CASE op = "cancel" -> row.status \notin Terminal \cup {"CANCELLING"}
      [] op = "finalize" -> row.status = "CANCELLING"
      [] op = "resume" -> /\ row.status \in Parked
                          /\ row.status = "FAILED" => row.retryable
      [] op = "expected" -> row.status \notin Cancelled \cup Terminal
      [] op = "progress" -> TRUE

Read(c, j) ==
    /\ call[c] = NoCall
    /\ rows[j] # NoRow
    /\ \E op \in Operations :
          /\ Wanted(op, rows[j])
          /\ call' = [call EXCEPT ![c] =
                        [op |-> op, job |-> j, status |-> rows[j].status,
                         previous |-> rows[j].previous]]
    /\ UNCHANGED rows

Pending(c, op) == call[c] # NoCall /\ call[c].op = op

Return(c) == call' = [call EXCEPT ![c] = NoCall]

(* Mutant: expected_status is not compared. *)
UnmovedAnyway(c) == TRUE

(* expected_status: the row still has the status the client read. *)
Unmoved(c) == rows[call[c].job].status = call[c].status

(* Mutant: cancel_requested is not set. *)
FinishCancelRequestUnflagged(c) ==
    /\ Pending(c, "cancel")
    /\ UpdateStatus(call[c].job, "CANCELLING", FALSE, FALSE, FALSE)
    /\ Return(c)

FinishCancelRequest(c) ==
    /\ Pending(c, "cancel")
    /\ UpdateStatus(call[c].job, "CANCELLING", FALSE, FALSE, TRUE)
    /\ Return(c)

FinishFinalize(c) ==
    /\ Pending(c, "finalize")
    /\ UpdateStatus(call[c].job, "CANCELLED", FALSE, FALSE, TRUE)
    /\ Return(c)

FinishResume(c) ==
    /\ Pending(c, "resume")
    /\ Unmoved(c)
    /\ UpdateStatus(call[c].job, ResumeTarget(call[c].previous), TRUE, FALSE, FALSE)
    /\ Return(c)

(* update_status with expected_status: the worker's stages, the            *)
(* coordinator and the language selection.                                 *)
FinishExpected(c) ==
    /\ Pending(c, "expected")
    /\ Unmoved(c)
    /\ \E s \in Statuses \ Cancelled : \E retryable \in RetryChoices(s) :
          UpdateStatus(call[c].job, s, FALSE, retryable, rows[call[c].job].cancel)
    /\ Return(c)

(* Phase 4 moves a job back to the step it has to rebuild, whatever the    *)
(* graph says, from the status it has just read.                           *)
RestageTargets == {"SEPARATING", "SYNTHESIZING", "TIMING", "VERIFYING"}

FinishRestage(c) ==
    /\ Pending(c, "expected")
    /\ Unmoved(c)
    /\ \E s \in RestageTargets :
          UpdateStatus(call[c].job, s, TRUE, FALSE, rows[call[c].job].cancel)
    /\ Return(c)

(* update_progress writes back the status it read, with no expectation:    *)
(* the graph alone decides whether a job that moved on is moved back.      *)
FinishProgress(c) ==
    /\ Pending(c, "progress")
    /\ UpdateStatus(call[c].job, call[c].status, FALSE,
                    FALSE, rows[call[c].job].cancel)
    /\ Return(c)

(* InvalidTransition, ActiveJobExists, or the caller gone: nothing is      *)
(* written.                                                                *)
Abandon(c) ==
    /\ call[c] # NoCall
    /\ Return(c)
    /\ UNCHANGED rows

Next ==
    \/ \E j \in Jobs :
          \/ CreateJob(j)
          \/ CreateReadyOfflineJob(j)
          \/ Advance(j)
          \/ FailPausedResume(j)
          \/ CommitTranscript(j)
          \/ InitializeTranslationPlan(j)
          \/ CommitTranslationArtifact(j)
    \/ \E c \in Clients :
          \/ \E j \in Jobs : Read(c, j)
          \/ FinishCancelRequest(c)
          \/ FinishFinalize(c)
          \/ FinishResume(c)
          \/ FinishExpected(c)
          \/ FinishRestage(c)
          \/ FinishProgress(c)
          \/ Abandon(c)

Spec == Init /\ [][Next]_vars

-----------------------------------------------------------------------------
(* Properties.                                                             *)

TypeOK ==
    /\ rows \in [Jobs -> Row \cup {NoRow}]
    /\ call \in [Clients -> Call \cup {NoCall}]

(* At most one job holds the heavy slot, and a job that is at work or      *)
(* waiting for its user holds it: so the worker's queues, which select by  *)
(* status and never look at the slot, offer it at most one job that is not *)
(* being cancelled.  No job that is parked or over keeps the slot from     *)
(* the next one.                                                           *)
OneHeavyJob ==
    /\ \A j, k \in Jobs : rows[j].slot /\ rows[k].slot => j = k
    /\ \A j \in Jobs :
          /\ rows[j].status \in Live => rows[j].slot
          /\ rows[j].slot => rows[j].status \in Active

(* cancel_requested and status always agree, whichever of the two a reader *)
(* looks at: the stages stop on either, the queues look at the status      *)
(* only, and a resumed job that kept the flag would stop at its first      *)
(* check for ever.                                                         *)
CancelFlagAgrees ==
    \A j \in Jobs : rows[j].cancel <=> rows[j].status \in Cancelled

(* A parked job can be picked up where it stood: it remembers a status,    *)
(* and no other job carries a stale one that a later pause could restore.  *)
ParkedRemembers ==
    \A j \in Jobs :
        /\ rows[j].status \in Parked <=> rows[j].previous # "none"
        /\ rows[j].previous \in Live \cup {"PAUSED", "none"}

(* What is still true of row r after client call k read it.                *)
ReadStillHolds(k, r) ==
    /\ r # NoRow
    /\ k.status \in Cancelled => r.status \in Cancelled
    /\ k.status \in Terminal => r.status = k.status
    /\ k.op = "finalize" => k.status = "CANCELLING"
    /\ k.op = "resume" => /\ k.status \in Parked
                          /\ k.previous \in Live \cup {"PAUSED"}
    /\ k.op = "expected" => k.status \notin Cancelled \cup Terminal

(* What a client read may be old when it writes, but never so old that the *)
(* job has come back from a cancellation or from its end since: the reason *)
(* why finalize_cancel and update_progress are safe without an expected    *)
(* status.                                                                 *)
StaleReadsBounded ==
    \A c \in Clients : call[c] # NoCall => ReadStillHolds(call[c], rows[call[c].job])

(* Cancellation wins every race: once a job is being cancelled no resume,  *)
(* restage, failure or late progress write of a client that read the job   *)
(* earlier brings it back, and an ended job never changes its status.      *)
CancelSticks ==
    [][\A j \in Jobs :
          /\ rows[j].cancel => rows'[j].status \in Cancelled
          /\ rows[j].status \in Terminal => rows'[j].status = rows[j].status]_vars

Lifecycle == INSTANCE JobLifecycle
    WITH phase <- [j \in Jobs |-> PhaseOf(rows[j].status)],
         owners <- {j \in Jobs : rows[j].slot}

(* The store keeps the promise of JobLifecycle: a job that is not being    *)
(* worked on holds no slot, a cancelled one gives its slot back only when  *)
(* the cancellation is finalized, and cancelling a parked job never needs  *)
(* the slot another job holds.                                             *)
ImplementsLifecycle == Lifecycle!Spec

=============================================================================
