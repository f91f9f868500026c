--------------------------- MODULE OfflineControl ---------------------------
(***************************************************************************)
(* The offline half of the system: the API process, whose requests cancel, *)
(* resume and answer for a job, and the GPU worker process, which takes    *)
(* one job at a time through transcription, translation and phase 4.  They *)
(* share the jobs table and nothing else.  Each may die and is restarted   *)
(* by its supervisor.                                                      *)
(*                                                                         *)
(* A step is one SQLite transaction of one process, or a decision between  *)
(* two.  The API's event loop runs cancel_job's offline branch and resume  *)
(* without an await, so one such request is in progress at a time; the     *)
(* language selection runs in a thread of its own beside them.  A stage is *)
(* seen through what it reads and writes of the job: decoding, inference,  *)
(* artifacts and checkpoints happen in state "in" between two reads.       *)
(*                                                                         *)
(* Jobs enter as local uploads do, at READY_OFFLINE; the download before   *)
(* it is not in this module, so a job has no torrent task here.            *)
(***************************************************************************)
EXTENDS JobRows, FiniteSets, Naturals

CONSTANTS
    Jobs,           \* the jobs that may be created
    MaxCrashes,     \* bound: how often the worker process is killed
    MaxStops,       \* bound: how often the worker is asked to stop (SIGTERM)
    MaxApiCrashes,  \* bound: how often the API process is killed
    MaxRewrites     \* bound: timing rewrites of one run of phase 4 (the code
                    \* allows timing_rewrite_max_attempts for each block)

ASSUME BoundsAssumption ==
    /\ MaxCrashes \in Nat /\ MaxStops \in Nat
    /\ MaxApiCrashes \in Nat /\ MaxRewrites \in Nat

VARIABLES
    rows,       \* the jobs table, as in JobStore
    pending,    \* pending[j]: details["offline_cancel_pending"] of job j
    api,        \* the request (or startup) the API process is serving
    chooser,    \* the thread of select_source_language
    worker,     \* the worker process: where it is, and what it last read
    stopping,   \* the worker's shutdown event
    crashes     \* how often each process was killed or stopped

vars == <<rows, pending, api, chooser, worker, stopping, crashes>>

-----------------------------------------------------------------------------
(* Queues and status sets.                                                 *)

(* Mutant: a queue that forgets the timing step. *)
Phase4QueueNoTiming == {"READY_TTS", "SEPARATING", "SYNTHESIZING", "MIXING",
                        "MUXING", "VERIFYING"}

TranscriptQueue == {"READY_OFFLINE", "TRANSCRIBING", "SUBTITLE_SELECTED"}
TranslationQueue == {"READY_TRANSLATION", "TRANSLATING"}
Phase4Queue == {"READY_TTS", "SEPARATING", "SYNTHESIZING", "TIMING",
                "MIXING", "MUXING", "VERIFYING"}

(* Mutant: run does not accept a selected subtitle. *)
AcceptsNoSubtitle(stage) ==
    CASE stage = "transcript" -> TranscriptQueue \ {"SUBTITLE_SELECTED"}
      [] stage = "translation" -> TranslationQueue
      [] stage = "phase4" -> Phase4Queue

(* The statuses a stage's run accepts; its worker queue lists the same. *)
Accepts(stage) ==
    CASE stage = "transcript" -> TranscriptQueue
      [] stage = "translation" -> TranslationQueue
      [] stage = "phase4" -> Phase4Queue

(* offline_running of cancel_job: the worker may be inside such a job. *)
OfflineRunning == {"TRANSCRIBING", "SUBTITLE_SELECTED", "TRANSLATING", "SEPARATING",
                   "SYNTHESIZING", "TIMING", "MIXING", "MUXING", "VERIFYING"}

(* What the API takes for work of the worker. *)
WorkerStatuses == OfflineRunning \cup {"READY_OFFLINE", "READY_TRANSLATION", "READY_TTS"}

(* offline_idle: nobody is expected to be inside it. *)
OfflineIdle(r) ==
    \/ r.status \in {"READY_OFFLINE", "NEEDS_LANGUAGE", "READY_TRANSLATION", "READY_TTS"}
    \/ /\ r.status \in Parked
       /\ r.previous \in WorkerStatuses \cup {"NEEDS_LANGUAGE"}

-----------------------------------------------------------------------------
(* Program counters.  A record keeps only what the program holds then.     *)

ApiIdle == [at |-> "idle"]
ApiDown == [at |-> "down"]
ChooserIdle == [at |-> "idle"]
WorkerAt(p) == [at |-> p]

(* The worker inside a stage; status and flag are what its last read of    *)
(* the job returned, step is the step this run has reached.                *)
InRun(p, j, stage, status, flag, step, rewrites) ==
    [at |-> p, job |-> j, stage |-> stage, status |-> status, flag |-> flag,
     step |-> step, rewrites |-> rewrites]

(* Between Enter and Return the stage may hold the decoder, a model or a   *)
(* subprocess on the GPU.                                                  *)
HoldingSteps == {"in", "write", "progress", "progressing", "failing"}

Inside(j) == worker.at \in HoldingSteps /\ worker.job = j

Init ==
    /\ rows = [j \in Jobs |-> NoRow]
    /\ pending = [j \in Jobs |-> FALSE]
    /\ api = ApiIdle
    /\ chooser = ChooserIdle
    /\ worker = WorkerAt("list")
    /\ stopping = FALSE
    /\ crashes = [worker |-> 0, stop |-> 0, api |-> 0]

-----------------------------------------------------------------------------
(* Writes of the table.                                                    *)

IndexAllows(j, row) == row.slot => \A k \in Jobs \ {j} : ~rows[k].slot

SetRow(j, row, flag) ==
    /\ IndexAllows(j, row)
    /\ rows' = [rows EXCEPT ![j] = row]
    /\ pending' = [pending EXCEPT ![j] = flag]

UnchangedTable == UNCHANGED <<rows, pending>>

(* finalize_cancel.  Nothing but CANCELLED follows CANCELLING, so its read *)
(* and its write are one step; on CANCELLED it returns the row as it is.   *)
FinalizeCancel(j) ==
    IF rows[j].status = "CANCELLING"
    THEN SetRow(j, UpdatedRow(rows[j], "CANCELLED", FALSE, TRUE), pending[j])
    ELSE UnchangedTable

-----------------------------------------------------------------------------
(* The API process: creating, cancelling and resuming a job.               *)

CreateReadyOffline(j) ==
    /\ api.at = "idle"
    /\ rows[j] = NoRow
    /\ SetRow(j, InsertedRow("READY_OFFLINE"), FALSE)
    /\ UNCHANGED <<api, chooser, worker, stopping, crashes>>

(* cancel_job reads the job and decides by that read which branch it takes *)
(* for the rest of the request.  A job without a torrent that is neither   *)
(* running nor idle is finalized too, without a look at the flag.          *)
CancelBranch(j) ==
    CASE rows[j].status \in OfflineRunning -> "running"
      [] OfflineIdle(rows[j]) \/ pending[j] -> "idle"
      [] OTHER -> "other"

CancelRead(j) ==
    /\ api.at = "idle"
    /\ rows[j].status \in Statuses \ Terminal
    /\ api' = [at |-> "requesting", job |-> j, branch |-> CancelBranch(j)]
    /\ UNCHANGED <<rows, pending, chooser, worker, stopping, crashes>>

(* Mutant: the job is marked for the worker before it is cancelling. *)
CancelRequestMarksFirst ==
    /\ api.at = "requesting"
    /\ SetRow(api.job, rows[api.job], TRUE)
    /\ api' = [api EXCEPT !.at = "marking"]
    /\ UNCHANGED <<chooser, worker, stopping, crashes>>

(* request_cancel.  On CANCELLING it changes nothing; on an ended job it   *)
(* raises, or returns it if it was cancelled: the request ends.            *)
CancelRequest ==
    /\ api.at = "requesting"
    /\ LET j == api.job IN
       IF rows[j].status \in Terminal
       THEN /\ api' = ApiIdle
            /\ UnchangedTable
       ELSE /\ api' = [api EXCEPT !.at = IF api.branch = "running"
                                         THEN "marking" ELSE "finalizing"]
            /\ IF rows[j].status = "CANCELLING"
               THEN UnchangedTable
               ELSE SetRow(j, UpdatedRow(rows[j], "CANCELLING", FALSE, TRUE), pending[j])
    /\ UNCHANGED <<chooser, worker, stopping, crashes>>

(* The running branch marks the job for the worker, unless the worker has  *)
(* finalized it in between.                                                *)
CancelMark ==
    /\ api.at = "marking"
    /\ IF rows[api.job].status = "CANCELLING"
       THEN SetRow(api.job, UpdatedRow(rows[api.job], "CANCELLING", FALSE, TRUE), TRUE)
       ELSE UnchangedTable
    /\ api' = ApiIdle
    /\ UNCHANGED <<chooser, worker, stopping, crashes>>

(* Mutant: a marked job is finalized by the request. *)
LeftToNobody(branch, j) == FALSE

(* The idle branch leaves a marked job to the worker and finalizes the     *)
(* others itself.                                                          *)
LeftToWorker(branch, j) == branch = "idle" /\ pending[j]

CancelFinalize ==
    /\ api.at = "finalizing"
    /\ IF LeftToWorker(api.branch, api.job)
       THEN UnchangedTable
       ELSE FinalizeCancel(api.job)
    /\ api' = ApiIdle
    /\ UNCHANGED <<chooser, worker, stopping, crashes>>

(* resume_job: refused while another job holds the slot, and for a failure *)
(* that cannot be retried.                                                 *)
ResumeRead(j) ==
    /\ api.at = "idle"
    /\ rows[j].status \in Parked
    /\ rows[j].status = "FAILED" => rows[j].retryable
    /\ \A k \in Jobs \ {j} : ~rows[k].slot
    /\ api' = [at |-> "resuming", job |-> j, status |-> rows[j].status,
               target |-> ResumeTarget(rows[j].previous)]
    /\ UNCHANGED <<rows, pending, chooser, worker, stopping, crashes>>

(* Resuming a job that is being cancelled is refused; the handler of the   *)
(* refusal finalizes the cancellation of a job without a torrent.          *)
ResumeCancelling(j) ==
    /\ api.at = "idle"
    /\ rows[j].status = "CANCELLING"
    /\ \A k \in Jobs \ {j} : ~rows[k].slot
    /\ api' = [at |-> "finalizing", job |-> j, branch |-> "refused"]
    /\ UNCHANGED <<rows, pending, chooser, worker, stopping, crashes>>

ResumeWrite ==
    /\ api.at = "resuming"
    /\ LET row == UpdatedRow(rows[api.job], api.target, FALSE, FALSE) IN
       IF rows[api.job].status = api.status /\ IndexAllows(api.job, row)
       THEN SetRow(api.job, row, pending[api.job])
       ELSE UnchangedTable
    /\ api' = ApiIdle
    /\ UNCHANGED <<chooser, worker, stopping, crashes>>

(* select_source_language, in a thread: it copies the details it read.     *)
ChooseRead(j) ==
    /\ api.at # "down" /\ chooser.at = "idle"
    /\ rows[j].status = "NEEDS_LANGUAGE"
    /\ chooser' = [at |-> "writing", job |-> j, flag |-> pending[j]]
    /\ UNCHANGED <<rows, pending, api, worker, stopping, crashes>>

ChooseWrite ==
    /\ chooser.at = "writing"
    /\ LET j == chooser.job IN
       IF rows[j].status = "NEEDS_LANGUAGE"
       THEN SetRow(j, UpdatedRow(rows[j], "TRANSCRIBING", FALSE, rows[j].cancel), chooser.flag)
       ELSE UnchangedTable
    /\ chooser' = ChooserIdle
    /\ UNCHANGED <<api, worker, stopping, crashes>>

(* The API process dies in whatever it does.  When it is back, lifespan    *)
(* lists the jobs that are being cancelled and finalizes those without a   *)
(* torrent, before it serves requests.                                     *)
ApiCrash ==
    /\ api.at # "down"
    /\ crashes.api < MaxApiCrashes
    /\ api' = ApiDown
    /\ chooser' = ChooserIdle
    /\ crashes' = [crashes EXCEPT !.api = @ + 1]
    /\ UNCHANGED <<rows, pending, worker, stopping>>

ApiStart ==
    /\ api.at = "down"
    /\ api' = [at |-> "starting", todo |-> {j \in Jobs : rows[j].status = "CANCELLING"}]
    /\ UNCHANGED <<rows, pending, chooser, worker, stopping, crashes>>

ApiReconcile ==
    /\ api.at = "starting"
    /\ IF api.todo = {}
       THEN /\ api' = ApiIdle
            /\ UnchangedTable
       ELSE \E j \in api.todo :
                /\ FinalizeCancel(j)
                /\ api' = [api EXCEPT !.todo = @ \ {j}]
    /\ UNCHANGED <<chooser, worker, stopping, crashes>>

-----------------------------------------------------------------------------
(* The worker process: choosing a job.                                     *)

WorkerOnly == UNCHANGED <<rows, pending, api, chooser, stopping, crashes>>
WorkerAndTable == UNCHANGED <<api, chooser, stopping, crashes>>

Listed(stage, j) == [at |-> "guard", job |-> j, stage |-> stage]

(* Mutant: cancelled jobs are not listed. *)
ToTranscribeNoCancelled == {j \in Jobs : rows[j].status \in TranscriptQueue}

(* process_next_transcript_job lists jobs to transcribe and cancelled jobs *)
(* that the API left to the worker; it finalizes one of the latter at      *)
(* once, as no stage is running.  The other queues are listed only when    *)
(* the one before was empty.                                               *)
ToTranscribe ==
    {j \in Jobs : \/ rows[j].status \in TranscriptQueue
                  \/ rows[j].status = "CANCELLING" /\ pending[j]}

ListTranscript ==
    /\ worker.at = "list" /\ ~stopping
    /\ IF ToTranscribe = {}
       THEN worker' = WorkerAt("list2")
       ELSE \E j \in ToTranscribe :
                worker' = IF rows[j].status = "CANCELLING"
                          THEN [at |-> "finalize", job |-> j]
                          ELSE Listed("transcript", j)
    /\ WorkerOnly

ListTranslation ==
    /\ worker.at = "list2" /\ ~stopping
    /\ LET queue == {j \in Jobs : rows[j].status \in TranslationQueue} IN
       IF queue = {}
       THEN worker' = WorkerAt("list3")
       ELSE \E j \in queue : worker' = Listed("translation", j)
    /\ WorkerOnly

ListPhase4 ==
    /\ worker.at = "list3" /\ ~stopping
    /\ LET queue == {j \in Jobs : rows[j].status \in Phase4Queue} IN
       IF queue = {}
       THEN worker' = WorkerAt("list")
       ELSE \E j \in queue : worker' = Listed("phase4", j)
    /\ WorkerOnly

WorkerFinalize ==
    /\ worker.at = "finalize"
    /\ FinalizeCancel(worker.job)
    /\ worker' = WorkerAt("list")
    /\ WorkerAndTable

(* _ensure_selected_models_fit_vram.  A model that does not fit, or an     *)
(* unreadable catalog, fails the job from the status it is read with; if   *)
(* the job moves meanwhile it is left alone.                               *)
GuardPasses ==
    /\ worker.at = "guard"
    /\ worker' = [worker EXCEPT !.at = "enter"]
    /\ WorkerOnly

GuardReads ==
    /\ worker.at = "guard"
    /\ worker' = [at |-> "rejecting", job |-> worker.job, flag |-> pending[worker.job],
                  status |-> rows[worker.job].status]
    /\ WorkerOnly

GuardRejects ==
    /\ worker.at = "rejecting"
    /\ LET r == rows[worker.job] IN
       IF r.status = worker.status /\ MayBecome(r, "FAILED", FALSE)
       THEN \E retryable \in BOOLEAN :
               SetRow(worker.job, UpdatedRow(r, "FAILED", retryable, r.cancel), worker.flag)
       ELSE UnchangedTable
    /\ worker' = WorkerAt("list")
    /\ WorkerAndTable

-----------------------------------------------------------------------------
(* The worker process: inside a stage's run.                               *)

Returned(j) == [at |-> "returned", job |-> j]

(* An InvalidTransition that leaves run is caught by nobody: the process   *)
(* dies.  The record keeps the job for the properties.                     *)
Dead(j) == [at |-> "dead", job |-> j]

(* The status that ends a stage. *)
EndOf(stage) ==
    CASE stage = "transcript" -> "READY_TRANSLATION"
      [] stage = "translation" -> "READY_TTS"
      [] stage = "phase4" -> "COMPLETED"

(* The first read of run; phase 4 does not look at the shutdown event yet. *)
Enter ==
    /\ worker.at = "enter"
    /\ LET j == worker.job
           r == rows[j] IN
       worker' = IF \/ r.status \in Cancelled \cup {EndOf(worker.stage)}
                    \/ stopping /\ worker.stage # "phase4"
                 THEN Returned(j)
                 ELSE IF r.status \in Accepts(worker.stage)
                 THEN InRun("in", j, worker.stage, r.status, pending[j], "start", 0)
                 ELSE Dead(j)
    /\ WorkerOnly

(* A read before a write.  A stage that sees its job cancelled releases    *)
(* what it holds and returns.                                              *)
StageRead ==
    /\ worker.at = "in"
    /\ LET r == rows[worker.job] IN
       worker' = IF r.status \in Cancelled THEN Returned(worker.job)
                 ELSE [worker EXCEPT !.at = "write", !.status = r.status,
                                     !.flag = pending[worker.job]]
    /\ WorkerOnly

(* The checks between them look at the shutdown event too, which the reads *)
(* before a write do not.                                                  *)
StageStops ==
    /\ worker.at = "in" /\ stopping
    /\ worker' = Returned(worker.job)
    /\ WorkerOnly

(* Mutant: the rewrite attempts are not counted down. *)
Phase4AfterNoLimit(step) ==
    CASE step = "start" -> {"SEPARATING", "SYNTHESIZING"}
      [] step = "SEPARATING" -> {"SYNTHESIZING"}
      [] step = "SYNTHESIZING" -> {"TIMING"}
      [] step = "TIMING" -> {"MUXING", "VERIFYING", "SYNTHESIZING"}
      [] step = "MUXING" -> {"VERIFYING"}
      [] step = "VERIFYING" -> {"COMPLETED"}

(* The steps of one run of phase 4, in order.  Separation is skipped when  *)
(* its checkpoint still holds and muxing when the export does; fitting the *)
(* timeline may send narration back to be synthesized again.               *)
Phase4After(step) ==
    CASE step = "start" -> {"SEPARATING", "SYNTHESIZING"}
      [] step = "SEPARATING" -> {"SYNTHESIZING"}
      [] step = "SYNTHESIZING" -> {"TIMING"}
      [] step = "TIMING" -> {"MUXING", "VERIFYING"}
                            \cup (IF worker.rewrites < MaxRewrites
                                  THEN {"SYNTHESIZING"} ELSE {})
      [] step = "MUXING" -> {"VERIFYING"}
      [] step = "VERIFYING" -> {"COMPLETED"}

(* The next status a stage writes, given the one it read. *)
NextStatus(stage, status) ==
    CASE stage = "transcript" /\ status = "READY_OFFLINE" ->
            {"TRANSCRIBING", "SUBTITLE_SELECTED"}
      [] stage = "transcript" /\ status # "READY_OFFLINE" -> {"READY_TRANSLATION"}
      [] stage = "translation" /\ status = "READY_TRANSLATION" -> {"TRANSLATING"}
      [] stage = "translation" /\ status # "READY_TRANSLATION" -> {"READY_TTS"}
      [] stage = "phase4" -> Phase4After(worker.step)

(* force_reset of _set_status: every step but muxing, which is forced only *)
(* from VERIFYING.                                                         *)
Forced(stage, status, s) ==
    /\ stage = "phase4"
    /\ \/ s \in {"SEPARATING", "SYNTHESIZING", "TIMING", "VERIFYING"}
       \/ s = "MUXING" /\ status = "VERIFYING"

(* expected_status of the write: COMPLETED names VERIFYING, the others     *)
(* what was read.                                                          *)
Unmoved(j, s) ==
    rows[j].status = IF s = "COMPLETED" THEN "VERIFYING" ELSE worker.status

(* A refused write raises InvalidTransition inside run, which returns if   *)
(* the job was cancelled and raises it again otherwise.                    *)
AfterRefusal(j) ==
    IF rows[j].status \in Cancelled THEN Returned(j) ELSE Dead(j)

(* The stage moves the job on.  _set_status on the status the job already  *)
(* has becomes update_progress, which reads once more.                     *)
StageAdvance ==
    /\ worker.at = "write"
    /\ \E s \in NextStatus(worker.stage, worker.status) :
         LET j == worker.job
             r == rows[j]
             rewrites == IF worker.step = "TIMING" /\ s = "SYNTHESIZING"
                         THEN worker.rewrites + 1 ELSE worker.rewrites
         IN
         IF s = worker.status
         THEN /\ worker' = [worker EXCEPT !.at = "progress", !.step = s,
                                          !.rewrites = rewrites]
              /\ UnchangedTable
         ELSE IF Unmoved(j, s) /\ MayBecome(r, s, Forced(worker.stage, worker.status, s))
         THEN /\ SetRow(j, UpdatedRow(r, s, FALSE, r.cancel), worker.flag)
              /\ worker' = IF s = EndOf(worker.stage) THEN Returned(j)
                           ELSE [worker EXCEPT !.at = "in", !.step = s, !.status = s,
                                               !.rewrites = rewrites]
         ELSE /\ worker' = AfterRefusal(j)
              /\ UnchangedTable
    /\ WorkerAndTable

(* The stage only reports progress: the same status, with the details it   *)
(* read.  Transcription names the status it expects.                       *)
ReportTranscription ==
    /\ worker.at = "write"
    /\ worker.stage = "transcript" /\ worker.status = "TRANSCRIBING"
    /\ LET j == worker.job IN
       IF rows[j].status = "TRANSCRIBING"
       THEN /\ SetRow(j, UpdatedRow(rows[j], "TRANSCRIBING", FALSE, rows[j].cancel),
                      worker.flag)
            /\ worker' = [worker EXCEPT !.at = "in"]
       ELSE /\ worker' = AfterRefusal(j)
            /\ UnchangedTable
    /\ WorkerAndTable

(* Phase 4 reports from a callback: _update_progress takes the details     *)
(* from a first read, then update_progress takes the status from a second  *)
(* one and writes both with no expectation.  The report of a timing error  *)
(* is made in an except clause of run, where nothing catches a refusal.    *)
ReportPhase4 ==
    /\ worker.at = "in"
    /\ worker.stage = "phase4" /\ worker.step # "start"
    /\ rows[worker.job].status \notin Cancelled
    /\ worker' = [worker EXCEPT !.at = "progress", !.status = rows[worker.job].status,
                                !.flag = pending[worker.job]]
    /\ WorkerOnly

ProgressRead ==
    /\ worker.at = "progress"
    /\ worker' = [worker EXCEPT !.at = "progressing", !.status = rows[worker.job].status]
    /\ WorkerOnly

ProgressWrite ==
    /\ worker.at = "progressing"
    /\ LET j == worker.job
           r == rows[j] IN
       IF MayBecome(r, worker.status, FALSE)
       THEN /\ SetRow(j, UpdatedRow(r, worker.status, FALSE, r.cancel), worker.flag)
            /\ worker' = [worker EXCEPT !.at = "in"]
       ELSE /\ worker' \in {AfterRefusal(j), Dead(j)}
            /\ UnchangedTable
    /\ WorkerAndTable

(* An error of the stage.  _fail and _require_language read the job again  *)
(* and leave a cancelled one alone.                                        *)
FailRead ==
    /\ worker.at = "in"
    /\ LET r == rows[worker.job] IN
       worker' = IF r.status \in Cancelled THEN Returned(worker.job)
                 ELSE [worker EXCEPT !.at = "failing", !.status = r.status,
                                     !.flag = pending[worker.job]]
    /\ WorkerOnly

(* Both run inside an except clause of run: when the write is refused      *)
(* there, nothing catches the exception.                                   *)
FailureTargets ==
    IF worker.stage = "transcript" /\ worker.status = "TRANSCRIBING"
    THEN {"FAILED", "NEEDS_LANGUAGE"} ELSE {"FAILED"}

FailWrite ==
    /\ worker.at = "failing"
    /\ LET j == worker.job
           r == rows[j] IN
       IF r.status = worker.status
       THEN /\ \E s \in FailureTargets :
                \E retryable \in (IF s = "FAILED" THEN BOOLEAN ELSE {FALSE}) :
                   SetRow(j, UpdatedRow(r, s, retryable, r.cancel), worker.flag)
            /\ worker' = Returned(j)
       ELSE /\ worker' = Dead(j)
            /\ UnchangedTable
    /\ WorkerAndTable

(* Mutant: the loop goes on without looking at the job again. *)
AfterRunForgets ==
    /\ worker.at = "returned"
    /\ worker' = WorkerAt("list")
    /\ WorkerOnly

(* run has returned and released everything: a job found cancelling is     *)
(* finalized, marked or not.                                               *)
AfterRun ==
    /\ worker.at = "returned"
    /\ FinalizeCancel(worker.job)
    /\ worker' = WorkerAt("list")
    /\ WorkerAndTable

-----------------------------------------------------------------------------
(* The worker process: ends and restarts.                                  *)

Listing == {"list", "list2", "list3"}

WorkerStop ==
    /\ ~stopping /\ worker.at \notin {"down", "dead"}
    /\ crashes.stop < MaxStops
    /\ stopping' = TRUE
    /\ crashes' = [crashes EXCEPT !.stop = @ + 1]
    /\ UNCHANGED <<rows, pending, api, chooser, worker>>

WorkerExit ==
    /\ stopping /\ worker.at \in Listing
    /\ worker' = WorkerAt("down")
    /\ WorkerOnly

WorkerCrash ==
    /\ worker.at \notin {"down", "dead"}
    /\ crashes.worker < MaxCrashes
    /\ worker' = WorkerAt("down")
    /\ crashes' = [crashes EXCEPT !.worker = @ + 1]
    /\ UNCHANGED <<rows, pending, api, chooser, stopping>>

(* The supervisor starts the worker again, with a clear shutdown event. *)
WorkerRestart ==
    /\ worker.at \in {"down", "dead"}
    /\ worker' = WorkerAt("list")
    /\ stopping' = FALSE
    /\ UNCHANGED <<rows, pending, api, chooser, crashes>>

-----------------------------------------------------------------------------
User ==
    \E j \in Jobs : \/ CreateReadyOffline(j)
                    \/ CancelRead(j)
                    \/ ResumeRead(j)
                    \/ ResumeCancelling(j)
                    \/ ChooseRead(j)

Api ==
    \/ CancelRequest
    \/ CancelMark
    \/ CancelFinalize
    \/ ResumeWrite
    \/ ApiStart
    \/ ApiReconcile

Listings == ListTranscript \/ ListTranslation \/ ListPhase4

WorkerSteps ==
    \/ Listings
    \/ WorkerFinalize
    \/ GuardPasses
    \/ GuardReads
    \/ GuardRejects
    \/ Enter
    \/ StageRead
    \/ StageStops
    \/ StageAdvance
    \/ ReportTranscription
    \/ ReportPhase4
    \/ ProgressRead
    \/ ProgressWrite
    \/ FailRead
    \/ FailWrite
    \/ AfterRun
    \/ WorkerExit
    \/ WorkerRestart

Faults == ApiCrash \/ WorkerStop \/ WorkerCrash

Next == User \/ Api \/ ChooseWrite \/ WorkerSteps \/ Faults

Spec == Init /\ [][Next]_vars

(* The API finishes the request it serves and is restarted when it dies;   *)
(* the worker loop keeps running and is restarted (restart: unless-stopped *)
(* of compose.yaml).  A stage is finite work with finitely many reports:   *)
(* it does not for ever report progress without reading on, and does not   *)
(* for ever read on without moving.  Users do nothing they do not want.    *)
Fairness ==
    /\ WF_vars(Api)
    /\ WF_vars(ChooseWrite)
    /\ WF_vars(WorkerSteps)
    /\ SF_vars(StageRead)
    /\ SF_vars(StageAdvance)

FairSpec == Spec /\ Fairness

-----------------------------------------------------------------------------
(* Properties.                                                             *)

Stages == {"transcript", "translation", "phase4"}
Steps == {"start"} \cup OfflineRunning

ApiStates ==
    {ApiIdle, ApiDown}
    \cup [at : {"requesting", "marking", "finalizing"}, job : Jobs,
          branch : {"running", "idle", "other", "refused"}]
    \cup [at : {"resuming"}, job : Jobs, status : Parked, target : Live]
    \cup [at : {"starting"}, todo : SUBSET Jobs]

ChooserStates ==
    {ChooserIdle} \cup [at : {"writing"}, job : Jobs, flag : BOOLEAN]

WorkerStates ==
    [at : {"list", "list2", "list3", "down"}]
    \cup [at : {"finalize", "returned", "dead"}, job : Jobs]
    \cup [at : {"guard", "enter"}, job : Jobs, stage : Stages]
    \cup [at : {"rejecting"}, job : Jobs, status : Statuses, flag : BOOLEAN]
    \cup [at : HoldingSteps, job : Jobs, stage : Stages, status : Statuses,
          flag : BOOLEAN, step : Steps, rewrites : 0..MaxRewrites]

TypeOK ==
    /\ rows \in [Jobs -> Row \cup {NoRow}]
    /\ pending \in [Jobs -> BOOLEAN]
    /\ api \in ApiStates
    /\ chooser \in ChooserStates
    /\ worker \in WorkerStates
    /\ stopping \in BOOLEAN
    /\ crashes \in [worker : 0..MaxCrashes, stop : 0..MaxStops, api : 0..MaxApiCrashes]

(* The mark that leaves a cancellation to the worker is on no job that is  *)
(* at work or parked: a stage that writes back the details it read before  *)
(* cannot plant it there, where the next cancellation of an idle job would *)
(* read it and wait for a worker that never comes.                         *)
FlagOnlyWhileCancelling ==
    \A j \in Jobs : pending[j] => rows[j].status \in Cancelled

(* Whenever a stage holds a job, its decoder or its model, the job still   *)
(* holds the machine's slot, so no other job can be created or resumed     *)
(* beside it, unless the job was finalized under the stage's feet (see     *)
(* CancelledMeansReleased).                                                *)
WorkerHoldsSlot ==
    \A j \in Jobs :
        Inside(j) => rows[j].slot \/ rows[j].status = "CANCELLED"

(* The worker's loop catches nothing: a refused write or an unexpected     *)
(* status kills the process.  That can only happen to a job that is being  *)
(* cancelled, so the restarted worker never takes the same job and dies of *)
(* it again.  (A transcript source that contradicts the status also kills  *)
(* it; the source is not in this module.)                                  *)
DeathOnlyByCancel ==
    worker.at = "dead" => rows[worker.job].status \in Cancelled

(* While the worker is inside a job marked for it, no cancellation, a      *)
(* second one included, finalizes the job: the answer CANCELLED waits for  *)
(* the stage.  (A starting API and a refused resume are the exceptions of  *)
(* the code; see CancelledMeansReleased.)                                  *)
FlagDefersFinalize ==
    [][\A j \in Jobs :
          /\ pending[j] /\ Inside(j) /\ api.at # "starting"
          /\ api.at = "finalizing" => api.branch # "refused"
          /\ rows[j].status = "CANCELLING"
          => rows'[j].status = "CANCELLING"]_vars

WorkerNeverKilled == crashes.worker = 0

(* As long as the worker is not killed, somebody is always left to finish  *)
(* a cancellation: the request that made it, the stage that will return,   *)
(* the mark that makes the worker list the job, or a restart of the API.   *)
CancelHasOwner ==
    \A j \in Jobs : rows[j].status = "CANCELLING" /\ WorkerNeverKilled =>
        \/ pending[j]
        \/ api.at \in {"requesting", "marking", "finalizing"} /\ api.job = j
        \/ api.at = "starting" /\ j \in api.todo
        \/ api.at = "down"
        \/ Inside(j)
        \/ worker.at = "returned" /\ worker.job = j

(* The promise of JobLifecycle, kept by the two processes together. *)
Lifecycle == INSTANCE JobLifecycle
    WITH phase <- [j \in Jobs |-> PhaseOf(rows[j].status)],
         owners <- {j \in Jobs : rows[j].slot}

(* Whatever the two processes interleave, a job goes through the phases of *)
(* the life cycle: in particular an ended or cancelling job never comes    *)
(* back to work through a stale write, and nobody takes the slot while a   *)
(* cancellation still has it.                                              *)
ImplementsLifecycle == Lifecycle!Spec

(* A cancellation ends: every job that is being cancelled becomes          *)
(* CANCELLED and gives the slot back (as long as the worker is not killed).*)
CancelSettles ==
    \A j \in Jobs :
        rows[j].status = "CANCELLING" /\ WorkerNeverKilled
            ~> rows[j].status = "CANCELLED" \/ ~WorkerNeverKilled

(* No status the API takes for the worker's is a dead end: such a job is   *)
(* finished, failed, cancelled or handed to its user, through deaths and   *)
(* restarts of the worker and the loops of every stage.                    *)
WorkSettles ==
    \A j \in Jobs :
        rows[j].status \in WorkerStatuses ~> rows[j].status \notin WorkerStatuses

-----------------------------------------------------------------------------
(* What the repository says, and the code does not keep.                   *)

(* cancel_job: "The worker owns native/GPU cleanup and finalizes only      *)
(* after inference has returned and VRAM is released", and PHASE2_REPORT:  *)
(* the worker alone closes CANCELLED, after the model is released.  So no  *)
(* stage that has begun its work is still inside a job that reads          *)
(* CANCELLED.                                                              *)
CancelledMeansReleased ==
    \A j \in Jobs :
        rows[j].status = "CANCELLED" => ~(Inside(j) /\ worker.status \in OfflineRunning)

(* process_next_transcript_job: "If the API marked this as an offline      *)
(* cancellation, finalizing is now safe and idempotent" when the worker    *)
(* restarts.  So a job the API marked is finalized, worker crash or not.   *)
MarkedCancelSettles ==
    \A j \in Jobs : pending[j] ~> rows[j].status = "CANCELLED"

=============================================================================
