-------------------------- MODULE DownloadControl --------------------------
(***************************************************************************)
(* The acquisition half of the API process: the requests that create,      *)
(* resume and cancel a download, the monitor that polls it, the matching   *)
(* of subtitles, and what lifespan repairs after a restart.  qBittorrent   *)
(* and the subtitle services answer late, wrongly or not at all.           *)
(*                                                                         *)
(* The API is one asyncio loop: a coroutine runs alone between two awaits, *)
(* so a step is the code from one await to the next.  Nobody else writes   *)
(* the row of a job before it is READY_OFFLINE.  From then on it is the    *)
(* worker's (OfflineControl); here it is only taken, failed and completed. *)
(*                                                                         *)
(* All jobs are for the same release, hence for the same torrent: add      *)
(* finds the torrent an earlier job left behind and takes it over.  Jobs   *)
(* of different releases meet only at the slot and at the mutation lock.   *)
(***************************************************************************)
EXTENDS JobRows, FiniteSets, Naturals

CONSTANTS
    Jobs,           \* the jobs that may be created
    MaxErrors,      \* bound: calls of the backends that fail
    MaxStops,       \* bound: how often the user stops the torrent himself
    MaxApiCrashes   \* bound: how often the API process is killed

ASSUME DownloadAssumption ==
    MaxErrors \in Nat /\ MaxStops \in Nat /\ MaxApiCrashes \in Nat

VARIABLES
    rows,       \* the jobs table, as in JobStore
    task,       \* task[j]: details["task_id"] is set
    started,    \* started[j]: details["backend_started"]
    warned,     \* warned[j]: a cancellation ended in append_warning
    torrent,    \* external: state of the torrent, and whose directory it is in
    co,         \* co[w][j]: the coroutine of kind w that works for job j
    refresher,  \* refresher[j]: who has the coordinator's lock of job j
    boot,       \* where the API process is: "up", "down" or inside lifespan
    spent       \* how many of the bounded faults have happened

vars == <<rows, task, started, warned, torrent, co, refresher, boot, spent>>

-----------------------------------------------------------------------------
(* "op" is the request registered by track_job_operation, "cancel" a       *)
(* cancel_job past its first read, "rec" the task of                       *)
(* schedule_cancel_reconciliation.                                         *)
Workers == {"op", "cancel", "rec"}

Idle == [at |-> "idle", sent |-> FALSE]

(* at: the call awaited next; sent: it is out, and holds                   *)
(* backend_mutation_lock.  Of an operation: created (create_job or         *)
(* resume_job), known (its task id), tried (resume_attempted), and seen    *)
(* (the status and slot read before the pause of a failure).               *)
Op(at, created, known) ==
    [at |-> at, sent |-> FALSE, created |-> created, known |-> known,
     tried |-> FALSE, seen |-> "none", slot |-> FALSE]

Waiting(at) == [at |-> at, sent |-> FALSE]

InFlight(j) == co["op"][j].at # "idle"

LockFree == \A w \in Workers, j \in Jobs : ~co[w][j].sent

NoRefresh == [at |-> "idle", started |-> "unset"]

Init ==
    /\ rows = [j \in Jobs |-> NoRow]
    /\ task = [j \in Jobs |-> FALSE]
    /\ started = [j \in Jobs |-> "unset"]
    /\ warned = [j \in Jobs |-> FALSE]
    /\ torrent = [state |-> "none", home |-> "nowhere"]
    /\ co = [w \in Workers |-> [j \in Jobs |-> Idle]]
    /\ refresher = [j \in Jobs |-> NoRefresh]
    /\ boot = [at |-> "up"]
    /\ spent = [error |-> 0, stop |-> 0, crash |-> 0]

-----------------------------------------------------------------------------
(* The torrent in qBittorrent.  "held" is stopped by this program,         *)
(* "stopped" by the user, "done" is complete, running or not.              *)

Held(t) == IF t.state \in {"running", "stopped"} THEN [t EXCEPT !.state = "held"] ELSE t
Running(t) == IF t.state \in {"held", "stopped"} THEN [t EXCEPT !.state = "running"] ELSE t
Moved(t, j) == IF t.state = "none" THEN t ELSE [t EXCEPT !.home = j]

(* add(paused=True): a new torrent, or the one of the release, relocated   *)
(* and paused; an error may leave any of its requests done.                *)
Added(t, j) == Held([state |-> IF t.state = "none" THEN "held" ELSE t.state, home |-> j])
PartlyAdded(t, j) ==
    {t, Moved(t, j), Added(t, j)}
    \cup (IF t.state = "none" THEN {[state |-> "held", home |-> j]} ELSE {})

Keep == UNCHANGED <<rows, task, started, warned>>
Spend == /\ spent.error < MaxErrors
         /\ spent' = [spent EXCEPT !.error = @ + 1]

-----------------------------------------------------------------------------
(* Writes.                                                                 *)

IndexAllows(j, row) == row.slot => \A k \in Jobs \ {j} : ~rows[k].slot

CanWrite(j, s, force) ==
    /\ MayBecome(rows[j], s, force)
    /\ IndexAllows(j, UpdatedRow(rows[j], s, FALSE, rows[j].cancel))

Put(j, s, retryable) ==
    rows' = [rows EXCEPT ![j] = UpdatedRow(rows[j], s, retryable, @.cancel)]

Over(j) == rows[j].status \in Cancelled

(* finalize_cancel of a job that is CANCELLING or already CANCELLED. *)
Finalize(j) ==
    rows' = IF rows[j].status = "CANCELLING"
            THEN [rows EXCEPT ![j] = UpdatedRow(@, "CANCELLED", FALSE, TRUE)] ELSE rows

SetCo(w, j, c) == co' = [co EXCEPT ![w][j] = c]

(* Every action of the API happens while it serves. *)
Up == boot.at = "up"

Beside == UNCHANGED <<refresher, boot>>
NoDetails == UNCHANGED <<task, started, warned>>

-----------------------------------------------------------------------------
(* create_job and resume_job: one operation of a job at a time.            *)

CreateJob(j) ==
    /\ Up /\ rows[j] = NoRow
    /\ IndexAllows(j, InsertedRow("CREATED"))
    /\ rows' = [rows EXCEPT ![j] = InsertedRow("CREATED")]
    /\ SetCo("op", j, Op("add", TRUE, FALSE))
    /\ NoDetails /\ Beside /\ UNCHANGED <<torrent, spent>>

(* The statuses resume_job leaves to the GPU worker (those used here). *)
Offline == {"READY_OFFLINE", "TRANSCRIBING"}

(* resume_job refuses while another job is active and, in                  *)
(* track_job_operation, while an operation of the job is in flight.        *)
MayOperate(j) ==
    /\ Up /\ ~InFlight(j)
    /\ \A k \in Jobs \ {j} : ~rows[k].slot

(* The first await of a resumed download: the release may have to be       *)
(* searched for again; a known torrent is relocated first.                 *)
ResumeSteps(j) == IF task[j] THEN {"relocate"} ELSE {"search", "add"}

ResumeJob(j) ==
    /\ MayOperate(j)
    /\ rows[j].status \in Parked
    /\ rows[j].status = "FAILED" => rows[j].retryable
    /\ LET s == ResumeTarget(rows[j].previous) IN
       /\ rows' = [rows EXCEPT ![j] = UpdatedRow(@, s, FALSE, FALSE)]
       /\ IF s \in Offline
          THEN UNCHANGED <<co, started>>
          ELSE /\ \E at \in ResumeSteps(j) : SetCo("op", j, Op(at, FALSE, task[j]))
               /\ started' = IF task[j] /\ s = "DOWNLOADING"
                             THEN [started EXCEPT ![j] = "no"] ELSE started
    /\ Beside /\ UNCHANGED <<task, warned, torrent, spent>>

(* Resuming a job that is being cancelled is refused, and the handler of   *)
(* the refusal finishes the cancellation.                                  *)
ResumeCancelling(j) ==
    /\ MayOperate(j)
    /\ rows[j].status = "CANCELLING"
    /\ IF task[j]
       THEN /\ SetCo("op", j, Op("settle", FALSE, TRUE))
            /\ UNCHANGED rows
       ELSE /\ Finalize(j)
            /\ UNCHANGED co
    /\ NoDetails /\ Beside /\ UNCHANGED <<torrent, spent>>

(* A cancellation found by the operation itself: settle_created_task_      *)
(* cancel, settle_operation_cancel.  It records the task before the pause. *)
SettleOp(j) ==
    IF rows[j].status = "CANCELLED"
    THEN /\ SetCo("op", j, Idle)
         /\ UNCHANGED <<rows, task, started, warned>>
    ELSE /\ SetCo("op", j, [co["op"][j] EXCEPT !.at = "settle", !.sent = FALSE, !.known = TRUE])
         /\ task' = [task EXCEPT ![j] = TRUE]
         /\ UNCHANGED <<rows, started, warned>>

(* Writing FAILED over what is there; a refusal ends the request with an   *)
(* error and changes nothing.                                              *)
FailOp(j, force) ==
    /\ SetCo("op", j, Idle)
    /\ IF CanWrite(j, "FAILED", force)
       THEN \E retryable \in BOOLEAN : Put(j, "FAILED", retryable)
       ELSE UNCHANGED rows
    /\ UNCHANGED <<task, started, warned>>

(* The except clauses of both requests: an error finds the job cancelled,  *)
(* or fails it, after a pause if the torrent may have been started.        *)
OpError(j) ==
    LET o == co["op"][j] IN
    IF rows[j].status = "CANCELLING"
    THEN IF o.known
         THEN SettleOp(j)
         ELSE /\ Finalize(j)
              /\ SetCo("op", j, Idle)
              /\ UNCHANGED <<task, started, warned>>
    ELSE IF rows[j].status = "CANCELLED"
    THEN /\ SetCo("op", j, Idle)
         /\ UNCHANGED <<rows, task, started, warned>>
    ELSE IF o.tried
    THEN /\ SetCo("op", j, [o EXCEPT !.at = "fail", !.sent = FALSE,
                                     !.seen = rows[j].status, !.slot = rows[j].slot])
         /\ UNCHANGED <<rows, task, started, warned>>
    ELSE FailOp(j, ~o.created /\ rows[j].status = "PAUSED")

SearchReturns(j) ==
    /\ co["op"][j].at = "search"
    /\ \/ /\ SetCo("op", j, [co["op"][j] EXCEPT !.at = "add"])
          /\ Keep /\ UNCHANGED spent
       \/ Spend /\ OpError(j)
    /\ Beside /\ UNCHANGED torrent

(* mutate_backend: the lock, then the call. *)
SendCall(w, j) ==
    /\ co[w][j].at \in {"add", "relocate", "start"} /\ ~co[w][j].sent
    /\ LockFree
    /\ SetCo(w, j, [co[w][j] EXCEPT !.sent = TRUE])
    /\ Keep /\ Beside /\ UNCHANGED <<torrent, spent>>

Answered(j, at) == co["op"][j].at = at /\ co["op"][j].sent

(* The next call of the operation; to start the torrent is to have tried. *)
NextCall(j, at) ==
    SetCo("op", j, [co["op"][j] EXCEPT !.at = at, !.sent = FALSE, !.known = TRUE,
                                       !.tried = @ \/ at = "start"])

(* start_download(paused=True) has returned.  DOWNLOADING is written with  *)
(* the task, not yet acknowledged.                                         *)
AddReturns(j) ==
    /\ Answered(j, "add")
    /\ \/ /\ torrent' = Added(torrent, j)
          /\ UNCHANGED spent
          /\ IF Over(j)
             THEN SettleOp(j)
             ELSE IF CanWrite(j, "DOWNLOADING", FALSE)
             THEN /\ Put(j, "DOWNLOADING", FALSE)
                  /\ task' = [task EXCEPT ![j] = TRUE]
                  /\ started' = [started EXCEPT ![j] = "no"]
                  /\ NextCall(j, "start")
                  /\ UNCHANGED warned
             ELSE /\ SetCo("op", j, Idle)
                  /\ Keep
       \/ /\ Spend
          /\ torrent' \in PartlyAdded(torrent, j)
          /\ OpError(j)
    /\ Beside

RelocateReturns(j) ==
    /\ Answered(j, "relocate")
    /\ \/ /\ torrent' = Moved(torrent, j)
          /\ UNCHANGED spent
          /\ IF Over(j) THEN SettleOp(j) ELSE NextCall(j, "start") /\ Keep
       \/ /\ Spend
          /\ torrent' \in {torrent, Moved(torrent, j)}
          /\ OpError(j)
    /\ Beside

(* resume_download has returned: the start is acknowledged, or taken back  *)
(* if the job was cancelled meanwhile.                                     *)
StartReturns(j) ==
    /\ Answered(j, "start")
    /\ \/ /\ torrent' = Running(torrent)
          /\ UNCHANGED spent
          /\ IF Over(j)
             THEN SettleOp(j)
             ELSE /\ SetCo("op", j, Idle)
                  /\ started' = IF rows[j].status = "DOWNLOADING"
                                THEN [started EXCEPT ![j] = "yes"] ELSE started
                  /\ UNCHANGED <<rows, task, warned>>
       \/ /\ Spend
          /\ torrent' \in {torrent, Running(torrent)}
          /\ OpError(j)
    /\ Beside

-----------------------------------------------------------------------------
(* pause_backend_for_cancel, awaited by an operation that settles or       *)
(* fails, by a cancel request and by its reconciliation.                   *)

Pausing(w, j) == co[w][j].at \in {"settle", "fail", "pause"}

(* Mutant: the torrent of another job is paused. *)
DeferNever(j) == FALSE

(* A job without the slot leaves the torrent to the job that has it. *)
Deferred(j) == ~rows[j].slot /\ \E k \in Jobs \ {j} : rows[k].slot

(* What each caller does with the result "paused", "deferred" or "failed". *)
AfterPause(w, j, result) ==
    LET o == co[w][j] IN
    IF o.at # "fail"
    THEN /\ SetCo(w, j, Idle)
         /\ IF result = "paused"
            THEN Finalize(j) /\ UNCHANGED warned
            ELSE UNCHANGED rows /\ warned' = [warned EXCEPT ![j] = TRUE]
         /\ UNCHANGED <<task, started>>
    ELSE IF (o.created /\ result # "paused") \/ (result = "failed" /\ o.slot)
    THEN \* the old status is written back, with an uncertain start
         /\ SetCo(w, j, Idle)
         /\ IF CanWrite(j, o.seen, FALSE)
            THEN /\ Put(j, o.seen, TRUE)
                 /\ started' = [started EXCEPT ![j] = "unsure"]
            ELSE UNCHANGED <<rows, started>>
         /\ UNCHANGED <<task, warned>>
    ELSE FailOp(j, ~o.created /\ o.seen = "PAUSED")

PauseSend(w, j) ==
    /\ Pausing(w, j) /\ ~co[w][j].sent
    /\ LockFree
    /\ IF Deferred(j)
       THEN AfterPause(w, j, "deferred")
       ELSE SetCo(w, j, [co[w][j] EXCEPT !.sent = TRUE]) /\ Keep
    /\ Beside /\ UNCHANGED <<torrent, spent>>

PauseReturns(w, j) ==
    /\ Pausing(w, j) /\ co[w][j].sent
    /\ torrent' = Held(torrent)
    /\ AfterPause(w, j, "paused")
    /\ Beside /\ UNCHANGED spent

(* An error, or the time is over while it waits for the lock or an answer. *)
PauseFails(w, j) ==
    /\ Pausing(w, j)
    /\ Spend
    /\ torrent' \in (IF co[w][j].sent THEN {torrent, Held(torrent)} ELSE {torrent})
    /\ AfterPause(w, j, "failed")
    /\ Beside

-----------------------------------------------------------------------------
(* cancel_job, for a job of the acquisition.                               *)

Acquiring == {"CREATED", "DOWNLOADING", "SUBTITLE_MATCHING", "NEEDS_SUBTITLE_SELECTION"}

MayCancel(j) ==
    \/ rows[j].status \in Acquiring \cup {"CANCELLING"}
    \/ rows[j].status \in Parked /\ rows[j].previous \in Acquiring

(* request_cancel.  Then the request waits for the operation in flight, so *)
(* that a late add or start is taken back before the cancellation is       *)
(* final.  (With no operation the two transactions follow each other; here *)
(* other coroutines may come between, as they may during the wait.)        *)
CancelJob(j) ==
    /\ Up /\ co["cancel"][j] = Idle
    /\ MayCancel(j)
    /\ rows' = IF rows[j].status = "CANCELLING" THEN rows
               ELSE [rows EXCEPT ![j] = UpdatedRow(@, "CANCELLING", FALSE, TRUE)]
    /\ SetCo("cancel", j, Waiting("owner"))
    /\ NoDetails /\ Beside /\ UNCHANGED <<torrent, spent>>

(* Pause what is there, or finalize. *)
PauseOrFinalize(w, j) ==
    /\ IF rows[j].status = "CANCELLING" /\ task[j]
       THEN SetCo(w, j, Waiting("pause")) /\ UNCHANGED rows
       ELSE SetCo(w, j, Idle) /\ Finalize(j)
    /\ NoDetails /\ Beside /\ UNCHANGED <<torrent, spent>>

(* Mutant: the owner is not waited for. *)
OwnerDoneAlways(w, j) == co[w][j].at = "owner" /\ PauseOrFinalize(w, j)

(* No operation is left, for a cancel request or a reconciliation. *)
OwnerDone(w, j) ==
    /\ co[w][j].at = "owner" /\ ~InFlight(j)
    /\ PauseOrFinalize(w, j)

(* After 1.8 s the request answers, and leaves the wait to a task. *)
OwnerSlow(j) ==
    /\ co["cancel"][j].at = "owner" /\ InFlight(j)
    /\ co' = [co EXCEPT !["cancel"][j] = Idle,
                        !["rec"][j] = IF @ = Idle THEN Waiting("owner") ELSE @]
    /\ Keep /\ Beside /\ UNCHANGED <<torrent, spent>>

-----------------------------------------------------------------------------
(* AcquisitionCoordinator: one refresh or selection of a job at a time     *)
(* (_refresh_locks), by the monitor or by a request.                       *)

Refresh(j, at) == refresher' = [refresher EXCEPT ![j].at = at]
RefreshEnds(j) == refresher' = [refresher EXCEPT ![j] = NoRefresh]
Coordinator == UNCHANGED <<task, warned, torrent, co, boot>>

(* _fail, from any exception of a refresh. *)
RefreshFails(j) ==
    /\ RefreshEnds(j)
    /\ IF ~Over(j) /\ rows[j].status # "COMPLETED" /\ CanWrite(j, "FAILED", FALSE)
       THEN \E retryable \in BOOLEAN : Put(j, "FAILED", retryable)
       ELSE UNCHANGED rows

(* Mutant: an unacknowledged start is polled like any download. *)
PolledAlways(j) == rows[j].status = "DOWNLOADING" /\ task[j]

(* _refresh_download leaves a download alone whose start is not yet        *)
(* acknowledged: its torrent is still paused.                              *)
Polled(j) == rows[j].status = "DOWNLOADING" /\ started[j] # "no" /\ task[j]

PollBegins(j) ==
    /\ Up /\ refresher[j] = NoRefresh
    /\ Polled(j)
    /\ refresher' = [refresher EXCEPT ![j] = [at |-> "status", started |-> started[j]]]
    /\ UNCHANGED <<rows, started, spent>> /\ Coordinator

(* The status arrives.  The details read before the call are written back  *)
(* with it.                                                                *)
StatusArrives(j) ==
    /\ refresher[j].at = "status"
    /\ IF Over(j)
       THEN RefreshEnds(j) /\ UNCHANGED <<rows, started>>
       ELSE /\ started' = [started EXCEPT ![j] = refresher[j].started]
            /\ \/ /\ torrent.state \in {"held", "stopped"}
                  /\ IF CanWrite(j, "PAUSED", FALSE)
                     THEN Put(j, "PAUSED", FALSE) /\ RefreshEnds(j)
                     ELSE RefreshFails(j)
               \/ /\ torrent.state = "running"
                  /\ RefreshEnds(j)
                  /\ UNCHANGED rows
               \/ /\ torrent.state = "done"
                  /\ Refresh(j, "files")
                  /\ UNCHANGED rows
    /\ UNCHANGED spent /\ Coordinator

(* A typed error of any call of the coordinator, or a failed torrent. *)
RefreshError(j) ==
    /\ refresher[j].at \in {"status", "files", "find", "fetch"}
    /\ Spend
    /\ RefreshFails(j)
    /\ UNCHANGED started /\ Coordinator

(* READY_OFFLINE or NEEDS_SUBTITLE_SELECTION, if the graph still allows it *)
Matched(j, s) ==
    IF CanWrite(j, s, FALSE) THEN Put(j, s, FALSE) /\ RefreshEnds(j)
    ELSE RefreshFails(j)

(* The files and the probe of a complete download, in the directory of the *)
(* job; then the beginning of _match_subtitles, which may need no call.    *)
FilesArrive(j) ==
    /\ refresher[j].at = "files"
    /\ IF torrent.home # j
       THEN RefreshFails(j)
       ELSE IF Over(j)
       THEN RefreshEnds(j) /\ UNCHANGED rows
       ELSE IF CanWrite(j, "SUBTITLE_MATCHING", FALSE)
       THEN \/ /\ Put(j, "SUBTITLE_MATCHING", FALSE)
               /\ Refresh(j, "find")
            \/ /\ Put(j, "READY_OFFLINE", FALSE)
               /\ RefreshEnds(j)
       ELSE RefreshFails(j)
    /\ UNCHANGED <<started, spent>> /\ Coordinator

(* A job left in SUBTITLE_MATCHING, by a restart or a resume: its file must *)
(* still be in the directory of the job.                                   *)
MatchBegins(j) ==
    /\ Up /\ refresher[j] = NoRefresh
    /\ rows[j].status = "SUBTITLE_MATCHING"
    /\ IF torrent.home # j
       THEN RefreshFails(j)
       ELSE \/ Refresh(j, "find") /\ UNCHANGED rows
            \/ Matched(j, "READY_OFFLINE")
    /\ UNCHANGED <<started, spent>> /\ Coordinator

(* Candidates have been found: the user chooses, or the best is fetched,   *)
(* or recognition has to do (as after an error in mode prefer).            *)
CandidatesArrive(j) ==
    /\ refresher[j].at = "find"
    /\ IF Over(j)
       THEN RefreshEnds(j) /\ UNCHANGED rows
       ELSE \/ Matched(j, "NEEDS_SUBTITLE_SELECTION")
            \/ Refresh(j, "fetch") /\ UNCHANGED rows
            \/ Matched(j, "READY_OFFLINE")
    /\ UNCHANGED <<started, spent>> /\ Coordinator

(* The subtitle is fetched, or every candidate has failed: the fall-back   *)
(* does not read the job again before it writes.                           *)
SubtitleArrives(j) ==
    /\ refresher[j].at = "fetch"
    /\ \/ Over(j) /\ RefreshEnds(j) /\ UNCHANGED rows
       \/ Matched(j, "READY_OFFLINE")
    /\ UNCHANGED <<started, spent>> /\ Coordinator

(* select_asr decides at once; select_subtitle finds and fetches first.    *)
SelectAsr(j) ==
    /\ Up /\ refresher[j] = NoRefresh
    /\ rows[j].status = "NEEDS_SUBTITLE_SELECTION"
    /\ Put(j, "READY_OFFLINE", FALSE)
    /\ UNCHANGED <<refresher, started, spent>> /\ Coordinator

SelectSubtitle(j) ==
    /\ Up /\ refresher[j] = NoRefresh
    /\ rows[j].status = "NEEDS_SUBTITLE_SELECTION"
    /\ Refresh(j, "select")
    /\ UNCHANGED <<rows, started, spent>> /\ Coordinator

(* Errors and refusals only end the request. *)
SelectionArrives(j) ==
    /\ refresher[j].at = "select"
    /\ RefreshEnds(j)
    /\ \/ /\ ~Over(j) /\ CanWrite(j, "READY_OFFLINE", FALSE)
          /\ Put(j, "READY_OFFLINE", FALSE)
       \/ UNCHANGED rows
    /\ UNCHANGED <<started, spent>> /\ Coordinator

-----------------------------------------------------------------------------
(* The API process dies and is restarted; lifespan repairs.                *)

ApiCrash ==
    /\ boot.at # "down"
    /\ spent.crash < MaxApiCrashes
    /\ spent' = [spent EXCEPT !.crash = @ + 1]
    /\ boot' = [at |-> "down"]
    /\ co' = [w \in Workers |-> [j \in Jobs |-> Idle]]
    /\ refresher' = [j \in Jobs |-> NoRefresh]
    /\ Keep /\ UNCHANGED torrent

Lifespan == UNCHANGED <<co, refresher, warned>>

(* Mutant: interrupted creations are left as they are. *)
ApiStartForgets ==
    /\ boot.at = "down"
    /\ boot' = [at |-> "starting", called |-> "none",
                todo |-> {j \in Jobs : rows[j].status = "DOWNLOADING" /\ started[j] = "no"}]
    /\ UNCHANGED <<rows, task, started, torrent, spent>> /\ Lifespan

(* A creation that was interrupted failed.  A download whose start was not *)
(* acknowledged is started again below.                                    *)
ApiStart ==
    /\ boot.at = "down"
    /\ rows' = [j \in Jobs |-> IF rows[j].status = "CREATED"
                               THEN UpdatedRow(rows[j], "FAILED", TRUE, rows[j].cancel)
                               ELSE rows[j]]
    /\ boot' = [at |-> "starting", called |-> "none",
                todo |-> {j \in Jobs : rows[j].status = "DOWNLOADING" /\ started[j] = "no"}]
    /\ UNCHANGED <<task, started, torrent, spent>> /\ Lifespan

(* resume_download, and on an error the pause, as seen by qBittorrent. *)
BootCalls ==
    /\ boot.at = "starting" /\ boot.called = "none"
    /\ boot.todo # {}
    /\ \/ /\ torrent' = Running(torrent)
          /\ boot' = [boot EXCEPT !.called = "ok"]
          /\ UNCHANGED spent
       \/ /\ Spend
          /\ torrent' = Held(torrent)
          /\ boot' = [boot EXCEPT !.called = "paused"]
       \/ /\ Spend
          /\ torrent' \in {torrent, Running(torrent), Held(torrent)}
          /\ boot' = [boot EXCEPT !.called = "failed"]
    /\ UNCHANGED <<rows, task, started>> /\ Lifespan

BootRecords ==
    /\ boot.at = "starting" /\ boot.called # "none"
    /\ \E j \in boot.todo :
          /\ boot' = [boot EXCEPT !.called = "none", !.todo = @ \ {j}]
          /\ IF boot.called = "paused"
             THEN Put(j, "FAILED", TRUE) /\ UNCHANGED started
             ELSE /\ started' = [started EXCEPT ![j] = IF boot.called = "ok"
                                                       THEN "yes" ELSE "unsure"]
                  /\ UNCHANGED rows
    /\ UNCHANGED <<task, torrent, spent>> /\ Lifespan

(* Mutant: a restart leaves cancellations as they are. *)
BootCancelsNone ==
    /\ boot.at = "starting" /\ boot.todo = {}
    /\ boot' = [at |-> "settling", todo |-> {}]
    /\ UNCHANGED <<rows, task, started, torrent, spent>> /\ Lifespan

BootCancels ==
    /\ boot.at = "starting" /\ boot.todo = {}
    /\ boot' = [at |-> "settling", todo |-> {j \in Jobs : rows[j].status = "CANCELLING"}]
    /\ UNCHANGED <<rows, task, started, torrent, spent>> /\ Lifespan

(* A cancellation is finalized once its torrent is paused; a crash between *)
(* the two repeats the pause.                                              *)
BootSettles ==
    /\ boot.at = "settling"
    /\ IF boot.todo = {}
       THEN boot' = [at |-> "up"] /\ UNCHANGED <<rows, warned, torrent, spent>>
       ELSE \E j \in boot.todo :
              /\ boot' = [boot EXCEPT !.todo = @ \ {j}]
              /\ \/ /\ task[j] => ~Deferred(j)
                    /\ Finalize(j)
                    /\ torrent' = IF task[j] THEN Held(torrent) ELSE torrent
                    /\ UNCHANGED <<warned, spent>>
                 \/ /\ task[j] /\ Deferred(j)
                    /\ warned' = [warned EXCEPT ![j] = TRUE]
                    /\ UNCHANGED <<rows, torrent, spent>>
                 \/ /\ task[j] /\ ~Deferred(j) /\ Spend
                    /\ warned' = [warned EXCEPT ![j] = TRUE]
                    /\ torrent' \in {torrent, Held(torrent)}
                    /\ UNCHANGED rows
    /\ UNCHANGED <<task, started, co, refresher>>

-----------------------------------------------------------------------------
(* The environment.                                                        *)

World == UNCHANGED <<task, started, warned, co, refresher, boot>>

TorrentCompletes ==
    /\ torrent.state = "running"
    /\ torrent' = [torrent EXCEPT !.state = "done"]
    /\ UNCHANGED <<rows, spent>> /\ World

(* Someone stops the torrent in qBittorrent's own interface. *)
UserStopsTorrent ==
    /\ torrent.state = "running"
    /\ spent.stop < MaxStops
    /\ torrent' = [torrent EXCEPT !.state = "stopped"]
    /\ spent' = [spent EXCEPT !.stop = @ + 1]
    /\ UNCHANGED rows /\ World

(* The worker process, seen from here. *)
WorkerTakes(j) ==
    /\ rows[j].status = "READY_OFFLINE"
    /\ Put(j, "TRANSCRIBING", FALSE)
    /\ UNCHANGED <<torrent, spent>> /\ World

WorkerLeaves(j) ==
    /\ rows[j].status = "TRANSCRIBING"
    /\ \E s \in {"FAILED", "COMPLETED"} : Put(j, s, s = "FAILED")
    /\ UNCHANGED <<torrent, spent>> /\ World

-----------------------------------------------------------------------------
User ==
    \E j \in Jobs :
        \/ CreateJob(j)
        \/ ResumeJob(j)
        \/ ResumeCancelling(j)
        \/ CancelJob(j)
        \/ SelectAsr(j)
        \/ SelectSubtitle(j)

Operation(j) ==
    \/ SearchReturns(j)
    \/ SendCall("op", j)
    \/ AddReturns(j)
    \/ RelocateReturns(j)
    \/ StartReturns(j)

Pauses(w, j) == PauseSend(w, j) \/ PauseReturns(w, j) \/ PauseFails(w, j)

Cancelling(j) ==
    \/ OwnerDone("cancel", j)
    \/ OwnerDone("rec", j)
    \/ OwnerSlow(j)

Coordination(j) ==
    \/ PollBegins(j)
    \/ StatusArrives(j)
    \/ RefreshError(j)
    \/ FilesArrive(j)
    \/ MatchBegins(j)
    \/ CandidatesArrive(j)
    \/ SubtitleArrives(j)
    \/ SelectionArrives(j)

Boot == ApiStart \/ BootCalls \/ BootRecords \/ BootCancels \/ BootSettles

Environment ==
    \/ TorrentCompletes
    \/ UserStopsTorrent
    \/ \E j \in Jobs : WorkerTakes(j) \/ WorkerLeaves(j)

Next ==
    \/ User
    \/ \E j \in Jobs : \/ Operation(j)
                       \/ Cancelling(j)
                       \/ Coordination(j)
                       \/ \E w \in Workers : Pauses(w, j)
    \/ Boot
    \/ ApiCrash
    \/ Environment

Spec == Init /\ [][Next]_vars
(* The event loop runs every coroutine on to its end, and each await of a  *)
(* backend ends: with an answer, an error or a time-out.  The lock of the  *)
(* mutations is an asyncio.Lock, served in the order of the requests.  The *)
(* API is started again when it died (restart: unless-stopped), and the    *)
(* monitor polls every job for ever.  Users and torrents owe nothing.      *)
Fairness ==
    /\ \A j \in Jobs :
          /\ WF_vars(Operation(j))
          /\ SF_vars(SendCall("op", j))
          /\ WF_vars(Cancelling(j))
          /\ WF_vars(Coordination(j))
          /\ \A w \in Workers : /\ WF_vars(Pauses(w, j))
                                /\ SF_vars(PauseSend(w, j))
    /\ WF_vars(Boot)

FairSpec == Spec /\ Fairness

-----------------------------------------------------------------------------
(* Properties.                                                             *)

(* A torrent that runs is somebody's download: a job that knows it and has *)
(* not been cancelled, or a request in flight that will still take its     *)
(* late start back.  No cancellation leaves the torrent downloading for    *)
(* nobody, whatever order the calls were answered in.                      *)
RunningIsOwned ==
    torrent.state = "running" =>
        \E j \in Jobs :
            \/ task[j] /\ rows[j].status # "CANCELLED"
            \/ InFlight(j) /\ co["op"][j].known

(* A download whose start was acknowledged is not paused by the program:   *)
(* neither the cancellation of another job that knew the same torrent nor  *)
(* a late pause of an earlier request of this one.                         *)
AcknowledgedRuns ==
    \A j \in Jobs :
        rows[j].status = "DOWNLOADING" /\ started[j] = "yes" /\ boot.at = "up" =>
            torrent.state \in {"running", "stopped", "done"}

(* The monitor parks a download only if the user stopped it in             *)
(* qBittorrent, or if nobody knows how its last start or pause ended.      *)
PausedOnlyByUser ==
    [][\A j \in Jobs :
          rows[j].status = "DOWNLOADING" /\ rows'[j].status = "PAUSED" =>
              torrent.state = "stopped" \/ started[j] = "unsure"]_vars

(* While a request of a job may still be answered by the backend, the job  *)
(* is not reported cancelled: the answer would come too late to be seen.   *)
CancelOutlivesCalls ==
    \A j \in Jobs :
        rows[j].status = "CANCELLED" =>
            ~(InFlight(j) /\ co["op"][j].sent
              /\ co["op"][j].at \in {"add", "relocate", "start"})

(* Nothing polls a job in CREATED: as long as the API serves, a request    *)
(* works on it.                                                            *)
CreatedIsOwned ==
    \A j \in Jobs : Up /\ rows[j].status = "CREATED" => InFlight(j)

(* The promise of JobLifecycle, kept by requests, monitor and restarts.    *)
Lifecycle == INSTANCE JobLifecycle
    WITH phase <- [j \in Jobs |-> PhaseOf(rows[j].status)],
         owners <- {j \in Jobs : rows[j].slot}

ImplementsLifecycle == Lifecycle!Spec

(* A cancellation ends, or its warning tells the user to try again: errors *)
(* of the backend, deferrals and restarts included.                        *)
CancelSettles ==
    \A j \in Jobs :
        rows[j].status = "CANCELLING" ~> rows[j].status = "CANCELLED" \/ warned[j]

(* A download that was asked for is acknowledged, failed, parked or        *)
(* cancelled: no crash, error or late answer leaves it waiting unpolled.   *)
StartSettles ==
    \A j \in Jobs :
        rows[j].status = "CREATED" \/ (rows[j].status = "DOWNLOADING" /\ started[j] = "no")
        ~> ~(rows[j].status = "CREATED" \/ (rows[j].status = "DOWNLOADING" /\ started[j] = "no"))

=============================================================================
