------------------------------ MODULE JobFiles ------------------------------
(***************************************************************************)
(* The files of one local upload and of the job made of it: the session    *)
(* under incoming/<id>, the directory jobs/<id> and the finished video.    *)
(* Clients send, finalize and delete; the API sweeps sessions whose time   *)
(* has run out; the job runs; the maintenance script removes what ended    *)
(* jobs leave behind.                                                      *)
(*                                                                         *)
(* The lock of the session makes the requests and the sweep take turns: at *)
(* most one is under way, and api says where it is.  The API may die       *)
(* between any two steps, and every write or removal may fail.  A file is  *)
(* its content, and a digest is the content it was taken of.  An empty     *)
(* directory is none.                                                      *)
(***************************************************************************)
EXTENDS Naturals

CONSTANTS
    Contents,       \* what a client may send
    MaxRevisions,   \* bound: writes of the row of the job
    MaxFaults       \* bound: deaths of the API, failed writes and removals

(* A file that is there is told from none: an empty body is refused. *)
ASSUME ContentsAssumption == "none" \notin Contents

VARIABLES
    session,    \* .upload-session.json
    incoming,   \* the media and the subtitles of incoming/<id>
    expired,    \* .upload-session.json is older than the TTL
    listed,     \* the monitor found the session expired and waits to sweep it
    api,        \* the request or the sweep under way
    job,        \* the row of the job, with its revision
    aged,       \* the row is older than the retention of retries
    files,      \* jobs/<id> and the finished video
    plan,       \* what the maintenance script has planned to remove
    made,       \* ghost: the digests the client was told, when the job was made
    sealLost,   \* ghost: the job was made and the session not finalized
    cleaned,    \* ghost: the maintenance script removed the subtitles in jobs/<id>
    torn,       \* ghost: a removal stopped after the record, before the files
    faults

upload == <<session, incoming, expired, listed>>
ghosts == <<made, sealLost, cleaned, torn>>
vars == <<upload, api, job, aged, files, plan, ghosts, faults>>

-----------------------------------------------------------------------------
None == "none"
Nothing == <<>>
Artifacts == {"media", "subtitle"}
NoArtifacts == [k \in Artifacts |-> None]
Idle == [at |-> "idle"]
To(place) == api' = [at |-> place]
NoJob == [phase |-> "absent", retryable |-> FALSE, revision |-> 0]
NoFiles == [subtitle |-> None, work |-> FALSE, video |-> FALSE]
NoPlan == <<>>

Init ==
    /\ session = Nothing /\ incoming = NoArtifacts
    /\ expired = FALSE /\ listed = FALSE
    /\ api = Idle
    /\ job = NoJob /\ aged = FALSE
    /\ files = NoFiles /\ plan = NoPlan
    /\ made = NoArtifacts /\ sealLost = FALSE /\ cleaned = FALSE /\ torn = FALSE
    /\ faults = 0

Fault == faults < MaxFaults /\ faults' = faults + 1
At(place) == api.at = place /\ UNCHANGED <<job, aged, plan>>
Exists == job.phase # "absent"

(* _next_upload_status.  A session that names its job is finalized. *)
Status ==
    CASE session.job -> "finalized"
      [] ~session.job /\ session.media = None -> "awaiting_media"
      [] ~session.job /\ session.media # None ->
            IF session.wants /\ session.subtitle = None
            THEN "awaiting_subtitle" ELSE "ready"

(* Writing the session makes it young again. *)
SaveSession(s) == session' = s /\ expired' = FALSE

(* create_upload_session; every session has a directory of its own. *)
CreateSession ==
    /\ At("idle")
    /\ session = Nothing /\ incoming = NoArtifacts /\ files = NoFiles /\ ~Exists
    /\ \E wants \in BOOLEAN :
          SaveSession([wants |-> wants, media |-> None, subtitle |-> None, job |-> FALSE])
    /\ UNCHANGED <<incoming, listed, api, files, ghosts, faults>>

(* The time to live runs out. *)
Expire ==
    /\ session # Nothing /\ ~expired
    /\ expired' = TRUE
    /\ UNCHANGED <<session, incoming, listed, api, job, aged, files, plan, ghosts, faults>>

-----------------------------------------------------------------------------
(* Sending a file: the body goes to a part of its own, which replaces the  *)
(* file; only then the session records size and digest.                    *)

MayPut(kind) ==
    /\ session # Nothing
    /\ Status # "finalized"
    /\ kind = "subtitle" => session.wants

PutBegins(kind, content) ==
    /\ At("idle")
    /\ MayPut(kind)
    /\ api' = [at |-> "body", put |-> kind, content |-> content]
    /\ UNCHANGED <<upload, files, ghosts, faults>>

Putting(place) ==
    /\ At(place)
    /\ UNCHANGED <<files, ghosts, listed>>

(* The body comes as the client sends it, with no limit of time, and the   *)
(* lock is held meanwhile.  It is cut off, too large or empty: its part is *)
(* removed.                                                                *)
PutAborts ==
    /\ Putting("body")
    /\ To("idle")
    /\ UNCHANGED <<session, incoming, expired, faults>>

PutPublishes ==
    /\ Putting("body")
    /\ incoming' = [incoming EXCEPT ![api.put] = api.content]
    /\ api' = [api EXCEPT !.at = "save"]
    /\ UNCHANGED <<session, expired, faults>>

PutSaves ==
    /\ Putting("save")
    /\ SaveSession([session EXCEPT ![api.put] = api.content])
    /\ To("idle")
    /\ UNCHANGED <<incoming, faults>>

(* upload_write_failed: the file is new, its digest in the session is not. *)
PutSaveFails ==
    /\ Putting("save")
    /\ Fault
    /\ To("idle")
    /\ UNCHANGED <<session, incoming, expired>>

-----------------------------------------------------------------------------
(* finalize_upload.                                                        *)

(* Both files still have the digests the session recorded. *)
Verified ==
    /\ incoming.media = session.media
    /\ session.wants => incoming.subtitle = session.subtitle

(* The refusals change nothing.  Nobody else touches the files while they  *)
(* are hashed and probed: the lock is held.                                *)
FinalizeNew ==
    /\ At("idle")
    /\ session # Nothing /\ ~Exists
    /\ Status = "ready"
    /\ Verified
    /\ To(IF session.wants THEN "copy" ELSE "insert")
    /\ UNCHANGED <<upload, files, ghosts, faults>>

(* A job of that name is there already: only its session is mended. *)
FinalizeAgain ==
    /\ At("idle")
    /\ session # Nothing /\ Exists
    /\ To(IF session.job THEN "unlink" ELSE "mend")
    /\ UNCHANGED <<upload, files, ghosts, faults>>

CopySubtitle ==
    /\ At("copy")
    /\ files' = [files EXCEPT !.subtitle = incoming.subtitle]
    /\ To("insert")
    /\ UNCHANGED <<upload, ghosts, faults>>

(* subtitle_store_failed, uploaded_subtitle_invalid, or a job of somebody  *)
(* else holds the heavy slot: what was prepared stays for the next try.    *)
FinalizeRefused ==
    /\ api.at \in {"copy", "insert"}
    /\ To("idle")
    /\ UNCHANGED <<upload, job, aged, files, plan, ghosts, faults>>

(* create_ready_offline_job *)
InsertJob ==
    /\ api.at = "insert"
    /\ job' = [NoJob EXCEPT !.phase = "active"]
    /\ aged' = FALSE
    /\ made' = [k \in Artifacts |-> session[k]]
    /\ To("seal")
    /\ UNCHANGED <<upload, files, plan, sealLost, cleaned, torn, faults>>

(* The session records its job, after the job is there to be run. *)
Seal ==
    /\ At("seal")
    /\ SaveSession([session EXCEPT !.job = TRUE])
    /\ To(IF session.wants THEN "unlink" ELSE "idle")
    /\ UNCHANGED <<incoming, listed, files, ghosts, faults>>

(* Only warned of: the client is told the job. *)
SealFails ==
    /\ At("seal")
    /\ Fault
    /\ sealLost' = TRUE
    /\ To("idle")
    /\ UNCHANGED <<upload, files, made, cleaned, torn>>

Mend ==
    /\ At("mend")
    /\ SaveSession([session EXCEPT !.job = TRUE])
    /\ To("unlink")
    /\ UNCHANGED <<incoming, listed, files, ghosts, faults>>

MendFails ==
    /\ At("mend")
    /\ Fault
    /\ To("unlink")
    /\ UNCHANGED <<upload, files, ghosts>>

(* The subtitles now belong to the job, in its own directory. *)
Unlink ==
    /\ At("unlink")
    /\ incoming' = [incoming EXCEPT !.subtitle = None]
    /\ To("idle")
    /\ UNCHANGED <<session, expired, listed, files, ghosts, faults>>

UnlinkFails ==
    /\ At("unlink")
    /\ Fault
    /\ To("idle")
    /\ UNCHANGED <<upload, files, ghosts>>

-----------------------------------------------------------------------------
(* Removing a session that never became a job.                             *)

(* Mutant: the sweep trusts what its scan found. *)
SweepableAsListed == session # Nothing

(* _cleanup_stale_upload_sessions: everything is looked at again. *)
Sweepable == session # Nothing /\ expired /\ Status # "finalized" /\ ~Exists

(* delete_upload *)
DeleteBegins ==
    /\ At("idle")
    /\ session # Nothing /\ Status # "finalized" /\ ~Exists
    /\ To("removePrepared")
    /\ UNCHANGED <<upload, files, ghosts, faults>>

(* Mutant: only a start of the API looks for old sessions. *)
SweepListsNever == FALSE /\ UNCHANGED vars

(* The monitor scans incoming without any lock. *)
SweepLists ==
    /\ api.at # "boot"
    /\ session # Nothing /\ expired /\ ~listed
    /\ listed' = TRUE
    /\ UNCHANGED <<session, incoming, expired, api, job, aged, files, plan, ghosts, faults>>

(* Then it takes the lock of the session. *)
SweepBegins ==
    /\ At("idle")
    /\ listed
    /\ listed' = FALSE
    /\ To(IF Sweepable THEN "removePrepared" ELSE "idle")
    /\ UNCHANGED <<session, incoming, expired, files, ghosts, faults>>

(* First what an unfinished finalize left in jobs/<id>, then the session. *)
RemovePrepared ==
    /\ At("removePrepared")
    /\ files' = NoFiles
    /\ To("removeSession")
    /\ UNCHANGED <<upload, ghosts, faults>>

RemoveSession ==
    /\ At("removeSession")
    /\ session' = Nothing /\ incoming' = NoArtifacts /\ expired' = FALSE
    /\ To("idle")
    /\ UNCHANGED <<listed, files, ghosts, faults>>

RemovePreparedFails ==
    /\ At("removePrepared")
    /\ Fault
    /\ To("idle")
    /\ UNCHANGED <<upload, files, ghosts>>

(* A tree is removed file by file, in any order.  Once the record is gone  *)
(* no scan lists the directory and no request accepts the session.         *)
PartlyRemoved ==
    /\ \E gone \in SUBSET Artifacts :
          incoming' = [k \in Artifacts |-> IF k \in gone THEN None ELSE incoming[k]]
    /\ \/ UNCHANGED <<session, expired, torn>>
       \/ session' = Nothing /\ expired' = FALSE /\ torn' = (incoming' # NoArtifacts)

RemoveSessionFails ==
    /\ At("removeSession")
    /\ Fault
    /\ PartlyRemoved
    /\ To("idle")
    /\ UNCHANGED <<listed, files, made, sealLost, cleaned>>

ApiDies ==
    /\ api.at # "boot"
    /\ Fault
    /\ sealLost' = (sealLost \/ api.at = "seal")
    /\ IF api.at = "removeSession" THEN PartlyRemoved
       ELSE UNCHANGED <<session, incoming, expired, torn>>
    /\ To("boot") /\ listed' = FALSE
    /\ UNCHANGED <<job, aged, files, plan, made, cleaned>>

(* The lifespan sweeps before the first request is served. *)
Boot ==
    /\ At("boot")
    /\ To(IF Sweepable THEN "removePrepared" ELSE "idle")
    /\ UNCHANGED <<upload, files, ghosts, faults>>

-----------------------------------------------------------------------------
(* The job, as the worker and the API move it: "active" is every status    *)
(* that is worked on, waits for the user or is paused.                     *)
Moves ==
    [absent |-> {}, active |-> {"active", "failed", "cancelling", "completed"},
     failed |-> (IF job.retryable THEN {"active"} ELSE {}) \cup {"cancelling"},
     cancelling |-> {"cancelled"}, completed |-> {}, cancelled |-> {}]

(* Every write of the row counts its revision up and makes it young. *)
JobMoves(phase) ==
    /\ job.revision < MaxRevisions
    /\ phase \in Moves[job.phase]
    /\ phase = "completed" => files.work /\ files.video
    /\ \E retryable \in IF phase = "failed" THEN BOOLEAN ELSE {FALSE} :
          job' = [phase |-> phase, retryable |-> retryable, revision |-> job.revision + 1]
    /\ aged' = FALSE
    /\ UNCHANGED <<upload, api, files, plan, ghosts, faults>>

(* A stage keeps its checkpoints in jobs/<id> and publishes the video,     *)
(* also while the job is being cancelled.                                  *)
WorkerWrites(file) ==
    /\ job.phase \in {"active", "cancelling"}
    /\ ~files[file]
    /\ files' = [files EXCEPT ![file] = TRUE]
    /\ UNCHANGED <<upload, api, job, aged, plan, ghosts, faults>>

Age ==
    /\ job.phase = "failed" /\ ~aged
    /\ aged' = TRUE
    /\ UNCHANGED <<upload, api, job, files, plan, ghosts, faults>>

-----------------------------------------------------------------------------
(* The maintenance script.                                                 *)

(* _eligible_reason *)
Eligible ==
    \/ job.phase = "cancelled"
    \/ job.phase = "failed" /\ job.retryable /\ aged

(* plan_artifact_cleanup: only paths that are there are planned. *)
PlanCleanup ==
    /\ plan = NoPlan
    /\ Eligible
    /\ plan' = [revision |-> job.revision,
                directory |-> files.work \/ files.subtitle # None,
                video |-> files.video]
    /\ UNCHANGED <<upload, api, job, aged, files, ghosts, faults>>

(* Mutant: the row is not read again. *)
PlanHoldsAnyway == TRUE

(* run_if_job_revision and the checks of the callback.  An unchanged       *)
(* revision is an unchanged row, with the age it was planned with.         *)
PlanHolds == job.revision = plan.revision

(* What of the planned paths is there and may still be removed. *)
Removable ==
    {f \in {"subtitle", "work", "video"} :
        /\ PlanHolds
        /\ IF f = "video" THEN plan.video ELSE plan.directory
        /\ files[f] # NoFiles[f]}

(* execute_cleanup, with the row locked against every other writer; what   *)
(* cannot be removed, of a directory some part, is reported and left.      *)
ExecuteCleanup ==
    /\ plan # NoPlan
    /\ plan' = NoPlan
    /\ \E gone \in SUBSET Removable :
          /\ IF gone = Removable THEN UNCHANGED faults ELSE Fault
          /\ files' = [subtitle |-> IF "subtitle" \in gone THEN None ELSE files.subtitle,
                       work |-> files.work /\ "work" \notin gone,
                       video |-> files.video /\ "video" \notin gone]
          /\ cleaned' = (cleaned \/ "subtitle" \in gone)
    /\ UNCHANGED <<upload, api, job, aged, made, sealLost, torn>>

-----------------------------------------------------------------------------
Sends ==
    \/ \E k \in Artifacts, c \in Contents : PutBegins(k, c)
    \/ PutAborts \/ PutPublishes \/ PutSaves \/ PutSaveFails

Finalizes ==
    \/ FinalizeNew \/ FinalizeAgain \/ CopySubtitle \/ FinalizeRefused
    \/ InsertJob \/ Seal \/ SealFails \/ Mend \/ MendFails \/ Unlink \/ UnlinkFails

Removes ==
    \/ DeleteBegins \/ SweepLists \/ SweepBegins
    \/ RemovePrepared \/ RemoveSession \/ RemovePreparedFails \/ RemoveSessionFails

Runs ==
    \/ \E p \in DOMAIN Moves : JobMoves(p)
    \/ \E f \in {"work", "video"} : WorkerWrites(f)
    \/ Age

Next ==
    \/ CreateSession \/ Expire \/ Sends \/ Finalizes \/ Removes
    \/ ApiDies \/ Boot
    \/ Runs
    \/ PlanCleanup \/ ExecuteCleanup

Spec == Init /\ [][Next]_vars

(* A request that has its body ends, and a dead API is started again.  The *)
(* monitor scans for ever, and the locks of asyncio are given in the order *)
(* they are asked for.  Nothing is fair about a body: its client may stall *)
(* it for ever.                                                            *)
Fairness ==
    /\ WF_vars(PutSaves)
    /\ WF_vars(CopySubtitle \/ FinalizeRefused \/ InsertJob \/ Seal \/ Mend \/ Unlink)
    /\ WF_vars(RemovePrepared \/ RemoveSession \/ Boot)
    /\ WF_vars(SweepLists)
    /\ SF_vars(SweepBegins)

FairSpec == Spec /\ Fairness

-----------------------------------------------------------------------------
(* Properties.                                                             *)

(* A job never loses what it was made of: its session and its media are    *)
(* kept by deletion, sweep and maintenance alike, whatever died or failed  *)
(* between the making of the job and the sealing of its session.  They     *)
(* have the digests its client was told, also when the file replaced and   *)
(* the digest recorded were not of one upload.  The one way to change the  *)
(* media of a job is to send it again through a session whose seal was     *)
(* lost, which receive_upload_artifact accepts.  The subtitles in jobs/<id> *)
(* stay until the maintenance script takes the whole directory.            *)
JobKeepsItsSources ==
    Exists =>
        /\ session # Nothing
        /\ incoming.media # None
        /\ incoming.media = made.media \/ sealLost
        /\ files.subtitle = made.subtitle \/ cleaned

(* No file of a job is removed while the job runs, may be resumed within   *)
(* the retention, or has succeeded: neither by a cleanup planned before    *)
(* the job was resumed, nor by a deletion or a sweep that decided before   *)
(* the job was made.                                                       *)
LivingFilesStay ==
    [][ /\ Exists
        /\ \/ files.subtitle # None /\ files'.subtitle = None
           \/ files.work /\ ~files'.work
           \/ files.video /\ ~files'.video
        => \/ job.phase = "cancelled"
           \/ job.phase = "failed" /\ job.retryable /\ aged ]_vars

(* Nothing of the session is left: no record, no file that was sent and no *)
(* subtitles prepared in jobs/<id>.                                        *)
Swept == session = Nothing /\ incoming = NoArtifacts /\ files = NoFiles
UsedAgain == session # Nothing /\ ~expired

(* No client stalls a body for ever.  The server does not see to that.     *)
BodiesEnd == []<>(api.at # "body")

(* A session nobody finalizes is swept once its time has run out, record,  *)
(* files and prepared subtitles, although the API dies or a removal fails; *)
(* unless it is used again or becomes a job.  In two cases the code keeps  *)
(* abandoned files, and the formula excepts both: while a body is stalled  *)
(* the sweep waits for the lock that the upload holds (BodiesEnd); and     *)
(* when a removal failed or was killed after the record and before the     *)
(* files, nothing lists what is left (torn).                               *)
AbandonedIsSwept ==
    BodiesEnd =>
        ((session # Nothing /\ expired) ~> (Swept \/ UsedAgain \/ Exists \/ torn))

=============================================================================
