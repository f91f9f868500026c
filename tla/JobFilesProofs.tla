--------------------------- MODULE JobFilesProofs ---------------------------
(***************************************************************************)
(* Proofs about JobFiles, for any contents and any number of faults and of *)
(* writes of the row.                                                      *)
(*                                                                         *)
(* What a request relies on is what it saw when it took the lock of the    *)
(* session; the invariant says at which places of which request that is    *)
(* still so (LockProtects), what the session of a job is (SessionOfJob),   *)
(* and what a plan of the maintenance script still knows (PlanKnows).      *)
(***************************************************************************)
EXTENDS JobFiles, TLAPS

File == Contents \cup {None}
Phases == {"absent", "active", "failed", "cancelling", "completed", "cancelled"}

Session == [wants : BOOLEAN, media : File, subtitle : File, job : BOOLEAN]
Places == {"idle", "copy", "insert", "seal", "mend", "unlink",
           "removePrepared", "removeSession", "boot"}
Api == [at : Places] \cup [at : {"body", "save"}, put : Artifacts, content : Contents]
Plan == [revision : Nat, directory : BOOLEAN, video : BOOLEAN]

TypeOK ==
    /\ session \in Session \cup {Nothing}
    /\ incoming \in [Artifacts -> File]
    /\ expired \in BOOLEAN /\ listed \in BOOLEAN
    /\ api \in Api
    /\ job \in [phase : Phases, retryable : BOOLEAN, revision : Nat]
    /\ aged \in BOOLEAN
    /\ files \in [subtitle : File, work : BOOLEAN, video : BOOLEAN]
    /\ plan \in Plan \cup {NoPlan}
    /\ made \in [Artifacts -> File]
    /\ sealLost \in BOOLEAN /\ cleaned \in BOOLEAN /\ torn \in BOOLEAN

(* As long as there is no job nothing speaks of one, and what is prepared  *)
(* in jobs/<id> belongs to a session with subtitles.                       *)
BeforeJob ==
    ~Exists =>
        /\ plan = NoPlan
        /\ ~files.work /\ ~files.video
        /\ session # Nothing => ~session.job
        /\ files.subtitle # None => session # Nothing /\ session.wants

(* A session without subtitles has received none. *)
SubtitleWanted ==
    session # Nothing /\ ~session.wants => session.subtitle = None

(* The session of a job says so, unless that is still to be written or was *)
(* lost.                                                                   *)
SessionOfJob ==
    Exists => session # Nothing /\ (session.job \/ sealLost \/ api.at = "seal")

(* What the request that holds the lock found, and still relies on. *)
LockProtects ==
    /\ api.at \in {"body", "save"} =>
         /\ session # Nothing /\ ~session.job
         /\ api.put = "subtitle" => session.wants
         /\ Exists => sealLost
    /\ api.at \in {"copy", "insert"} =>
         /\ ~Exists /\ session # Nothing
         /\ session.media # None /\ incoming.media = session.media
         /\ session.wants => incoming.subtitle = session.subtitle
    /\ api.at = "copy" => session.wants
    /\ api.at = "insert" => files.subtitle = session.subtitle
    /\ api.at \in {"seal", "mend", "unlink"} => Exists
    /\ api.at \in {"removePrepared", "removeSession"} => ~Exists
    /\ api.at = "removeSession" => files = NoFiles

(* A plan made of an earlier revision is void; one made of the present     *)
(* revision is still right.                                                *)
PlanKnows ==
    plan # NoPlan =>
        /\ plan.revision <= job.revision
        /\ plan.revision = job.revision => Eligible

IInv ==
    /\ TypeOK
    /\ BeforeJob
    /\ SubtitleWanted
    /\ SessionOfJob
    /\ JobKeepsItsSources
    /\ LockProtects
    /\ PlanKnows

-----------------------------------------------------------------------------
(* A session or a plan that is there is told from none.                    *)
LEMMA RecordIsThere ==
    /\ \A s \in Session : s # Nothing
    /\ \A p \in Plan : p # NoPlan
<1>1. \A s \in Session : DOMAIN s = {"wants", "media", "subtitle", "job"}
  BY DEF Session
<1>2. \A p \in Plan : DOMAIN p = {"revision", "directory", "video"}
  BY DEF Plan
<1>3. DOMAIN <<>> = {}
  OBVIOUS
<1> QED BY <1>1, <1>2, <1>3 DEF Nothing, NoPlan

(* The invariant holds before the first upload.                            *)
LEMMA InitEstablishes == Init => IInv
<1> SUFFICES ASSUME Init PROVE IInv
  OBVIOUS
<1> USE DEF Init
<1>1. TypeOK
  <2>1. NoArtifacts \in [Artifacts -> File]
    BY DEF NoArtifacts, File, Artifacts
  <2>2. Idle \in Api
    BY DEF Idle, Api, Places
  <2>3. NoJob \in [phase : Phases, retryable : BOOLEAN, revision : Nat]
    BY DEF NoJob, Phases
  <2>4. NoFiles \in [subtitle : File, work : BOOLEAN, video : BOOLEAN]
    BY DEF NoFiles, File
  <2> QED BY <2>1, <2>2, <2>3, <2>4 DEF TypeOK
<1>2. ~Exists
  BY DEF Exists, NoJob
<1>3. BeforeJob /\ SubtitleWanted /\ SessionOfJob /\ JobKeepsItsSources
  BY <1>2 DEF BeforeJob, SubtitleWanted, SessionOfJob, JobKeepsItsSources, NoFiles
<1>4. LockProtects
  BY DEF LockProtects, Idle
<1>5. PlanKnows
  BY DEF PlanKnows
<1> QED BY <1>1, <1>3, <1>4, <1>5 DEF IInv


(* Writing a session leaves a session. *)
LEMMA SessionWritten ==
    /\ \A wants \in BOOLEAN :
          [wants |-> wants, media |-> None, subtitle |-> None, job |-> FALSE] \in Session
    /\ \A s \in Session : [s EXCEPT !.job = TRUE] \in Session
    /\ \A s \in Session, k \in Artifacts, f \in File : [s EXCEPT ![k] = f] \in Session
<1> USE DEF Session, File, None
<1>1. \A s \in Session, f \in File : /\ [s EXCEPT !["media"] = f] \in Session
                                     /\ [s EXCEPT !["subtitle"] = f] \in Session
  OBVIOUS
<1> QED BY <1>1 DEF Artifacts

(* A tree removed in part leaves a session or none, and what was there.    *)
LEMMA RemovedInPart ==
    ASSUME TypeOK, PartlyRemoved
    PROVE  /\ session' \in Session \cup {Nothing} /\ incoming' \in [Artifacts -> File]
           /\ expired' \in BOOLEAN /\ torn' \in BOOLEAN
<1>1. PICK gone \in SUBSET Artifacts :
          incoming' = [k \in Artifacts |-> IF k \in gone THEN None ELSE incoming[k]]
  BY DEF PartlyRemoved
<1>2. incoming' \in [Artifacts -> File]
  BY <1>1 DEF TypeOK, File
<1> QED BY <1>2 DEF PartlyRemoved, TypeOK

-----------------------------------------------------------------------------
(* Types, action by action.                                                *)
LEMMA TypePreserved ==
    ASSUME TypeOK, [Next]_vars,
           api.at \in {"save", "insert", "seal", "mend"} => session # Nothing
    PROVE  TypeOK'
<1> USE DEF TypeOK, To, At, Fault, SaveSession, upload, ghosts
<1>0. \A place \in Places : [at |-> place] \in Api
  BY DEF Api
<1>1. ASSUME CreateSession PROVE TypeOK'
  BY <1>1, SessionWritten DEF CreateSession
<1>2. ASSUME Expire PROVE TypeOK'
  BY <1>2 DEF Expire
<1>3. ASSUME Sends PROVE TypeOK'
  <2> USE DEF Putting, Api, Places
  <2>1. ASSUME NEW k \in Artifacts, NEW c \in Contents, PutBegins(k, c) PROVE TypeOK'
    BY <2>1 DEF PutBegins
  <2>2. ASSUME PutAborts PROVE TypeOK'
    BY <2>2 DEF PutAborts
  <2>3. ASSUME PutPublishes PROVE TypeOK'
    BY <2>3 DEF PutPublishes, File
  <2>4. ASSUME PutSaves PROVE TypeOK'
    <3>1. api.put \in Artifacts /\ api.content \in File /\ session \in Session
      BY <2>4 DEF PutSaves, File
    <3> QED BY <2>4, <3>1, SessionWritten DEF PutSaves
  <2>5. ASSUME PutSaveFails PROVE TypeOK'
    BY <2>5 DEF PutSaveFails
  <2> QED BY <1>3, <2>1, <2>2, <2>3, <2>4, <2>5 DEF Sends
<1>4. ASSUME Finalizes PROVE TypeOK'
  <2> USE <1>0 DEF Places
  <2>1. ASSUME FinalizeNew \/ FinalizeAgain \/ FinalizeRefused PROVE TypeOK'
    BY <2>1 DEF FinalizeNew, FinalizeAgain, FinalizeRefused
  <2>2. ASSUME CopySubtitle PROVE TypeOK'
    BY <2>2 DEF CopySubtitle, Artifacts
  <2>3. ASSUME InsertJob PROVE TypeOK'
    <3>1. session \in Session
      BY <2>3 DEF InsertJob
    <3>2. [k \in Artifacts |-> session[k]] \in [Artifacts -> File]
      BY <3>1 DEF Artifacts, Session
    <3>3. [NoJob EXCEPT !.phase = "active"]
              \in [phase : Phases, retryable : BOOLEAN, revision : Nat]
      BY DEF NoJob, Phases
    <3> QED BY <2>3, <3>2, <3>3 DEF InsertJob
  <2>4. ASSUME Seal PROVE TypeOK'
    <3>1. [session EXCEPT !.job = TRUE] \in Session
      BY <2>4, SessionWritten DEF Seal
    <3> QED BY <2>4, <3>1 DEF Seal
  <2>5. ASSUME Mend PROVE TypeOK'
    <3>1. [session EXCEPT !.job = TRUE] \in Session
      BY <2>5, SessionWritten DEF Mend
    <3> QED BY <2>5, <3>1 DEF Mend
  <2>6. ASSUME SealFails PROVE TypeOK'
    BY <2>6 DEF SealFails
  <2>7. ASSUME MendFails PROVE TypeOK'
    BY <2>7 DEF MendFails
  <2>8. ASSUME Unlink \/ UnlinkFails PROVE TypeOK'
    BY <2>8 DEF Unlink, UnlinkFails, File
  <2> QED
    BY <1>4, <2>1, <2>2, <2>3, <2>4, <2>5, <2>6, <2>7, <2>8 DEF Finalizes
<1>5. ASSUME Removes PROVE TypeOK'
  <2> USE <1>0 DEF Places
  <2>1. ASSUME DeleteBegins PROVE TypeOK'
    BY <2>1 DEF DeleteBegins
  <2>2. ASSUME SweepLists PROVE TypeOK'
    BY <2>2 DEF SweepLists
  <2>3. ASSUME SweepBegins PROVE TypeOK'
    BY <2>3 DEF SweepBegins
  <2>4. ASSUME RemovePrepared PROVE TypeOK'
    BY <2>4 DEF RemovePrepared, NoFiles, File
  <2>5. ASSUME RemovePreparedFails PROVE TypeOK'
    BY <2>5 DEF RemovePreparedFails
  <2>6. ASSUME RemoveSession PROVE TypeOK'
    BY <2>6 DEF RemoveSession, NoArtifacts, File
  <2>7. ASSUME RemoveSessionFails PROVE TypeOK'
    BY <2>7, RemovedInPart DEF RemoveSessionFails
  <2> QED BY <1>5, <2>1, <2>2, <2>3, <2>4, <2>5, <2>6, <2>7 DEF Removes
<1>6. ASSUME ApiDies \/ Boot PROVE TypeOK'
  <2>1. ASSUME ApiDies PROVE TypeOK'
    BY <1>0, <2>1, RemovedInPart DEF ApiDies, Places
  <2>2. ASSUME Boot PROVE TypeOK'
    BY <1>0, <2>2 DEF Boot, Places
  <2> QED BY <1>6, <2>1, <2>2
<1>7. ASSUME Runs PROVE TypeOK'
  <2>1. ASSUME NEW p \in DOMAIN Moves, JobMoves(p) PROVE TypeOK'
    <3>1. p \in Phases
      BY <2>1 DEF Moves, Phases
    <3>2. PICK retryable \in BOOLEAN :
              job' = [phase |-> p, retryable |-> retryable, revision |-> job.revision + 1]
      BY <2>1 DEF JobMoves
    <3>3. job' \in [phase : Phases, retryable : BOOLEAN, revision : Nat]
      BY <3>1, <3>2
    <3> QED BY <2>1, <3>3 DEF JobMoves
  <2>2. ASSUME NEW f \in {"work", "video"}, WorkerWrites(f) PROVE TypeOK'
    BY <2>2 DEF WorkerWrites
  <2>3. ASSUME Age PROVE TypeOK'
    BY <2>3 DEF Age
  <2> QED BY <1>7, <2>1, <2>2, <2>3 DEF Runs
<1>8. ASSUME PlanCleanup PROVE TypeOK'
  BY <1>8 DEF PlanCleanup, Plan
<1>9. ASSUME ExecuteCleanup PROVE TypeOK'
  BY <1>9 DEF ExecuteCleanup, File
<1>10. CASE UNCHANGED vars
  BY <1>10 DEF vars
<1> QED
  BY <1>1, <1>2, <1>3, <1>4, <1>5, <1>6, <1>7, <1>8, <1>9, <1>10 DEF Next

-----------------------------------------------------------------------------
(* What the invariant says beyond the types. *)
Relations ==
    /\ BeforeJob
    /\ SubtitleWanted
    /\ SessionOfJob
    /\ JobKeepsItsSources
    /\ LockProtects
    /\ PlanKnows

(* Sessions are created, filled and expire.                                *)
LEMMA SendPreserves ==
    ASSUME IInv, CreateSession \/ Expire \/ Sends PROVE Relations'
<1> USE RecordIsThere, ContentsAssumption
    DEF IInv, TypeOK, Relations, BeforeJob, SubtitleWanted, SessionOfJob,
        JobKeepsItsSources, LockProtects, PlanKnows, Exists, Eligible, Status,
        To, At, Fault, SaveSession, upload, ghosts, None
<1>1. ASSUME CreateSession PROVE Relations'
  BY <1>1, SessionWritten DEF CreateSession
<1>2. ASSUME Expire PROVE Relations'
  BY <1>2 DEF Expire
<1>3. ASSUME NEW k \in Artifacts, NEW c \in Contents, PutBegins(k, c) PROVE Relations'
  BY <1>3 DEF PutBegins, MayPut
<1>4. ASSUME PutAborts PROVE Relations'
  BY <1>4 DEF PutAborts, Putting
<1>5. ASSUME PutPublishes PROVE Relations'
  <2>1. api \in [at : {"body", "save"}, put : Artifacts, content : Contents]
    BY <1>5 DEF PutPublishes, Putting, Api, Places
  <2>2. api'.at = "save" /\ api'.put = api.put /\ api.content # "none"
    BY <1>5, <2>1 DEF PutPublishes
  <2>3. incoming'.media = IF api.put = "media" THEN api.content ELSE incoming.media
    BY <1>5, <2>1 DEF PutPublishes, Artifacts
  <2> QED BY <1>5, <2>2, <2>3 DEF PutPublishes, Putting
<1>6. ASSUME PutSaves PROVE Relations'
  <2>1. api \in [at : {"body", "save"}, put : Artifacts, content : Contents]
    BY <1>6 DEF PutSaves, Putting, Api, Places
  <2>2. session \in Session /\ session' \in Session
    BY <1>6, <2>1, SessionWritten DEF PutSaves, Putting, File
  <2>3. /\ session'.wants = session.wants /\ session'.job = session.job
        /\ api.put # "subtitle" => session'.subtitle = session.subtitle
    BY <1>6, <2>1, <2>2 DEF PutSaves, Artifacts, Session
  <2>4. session # Nothing /\ session' # Nothing
    BY <2>2
  <2>5. UNCHANGED <<incoming, listed, job, files, made, sealLost, cleaned, plan, aged>>
        /\ api'.at = "idle"
    BY <1>6 DEF PutSaves, Putting
  <2>6. api.at = "save"
    BY <1>6 DEF PutSaves, Putting
  <2> QED BY <2>3, <2>4, <2>5, <2>6
<1>7. ASSUME PutSaveFails PROVE Relations'
  BY <1>7 DEF PutSaveFails, Putting
<1> QED BY <1>1, <1>2, <1>3, <1>4, <1>5, <1>6, <1>7 DEF Sends

(* A session becomes a job.                                                *)
LEMMA FinalizePreserves ==
    ASSUME IInv, Finalizes PROVE Relations'
<1> USE RecordIsThere, ContentsAssumption
    DEF IInv, TypeOK, Relations, BeforeJob, SubtitleWanted, SessionOfJob,
        JobKeepsItsSources, LockProtects, PlanKnows, Exists, Eligible, Status,
        To, At, Fault, SaveSession, upload, ghosts, None
<1>1. ASSUME FinalizeNew PROVE Relations'
  BY <1>1 DEF FinalizeNew, Verified
<1>2. ASSUME FinalizeAgain PROVE Relations'
  BY <1>2 DEF FinalizeAgain
<1>3. ASSUME CopySubtitle PROVE Relations'
  BY <1>3 DEF CopySubtitle
<1>4. ASSUME FinalizeRefused PROVE Relations'
  BY <1>4 DEF FinalizeRefused
<1>5. ASSUME InsertJob PROVE Relations'
  BY <1>5 DEF InsertJob, NoJob, Artifacts
<1>6. ASSUME Seal PROVE Relations'
  BY <1>6, SessionWritten DEF Seal
<1>7. ASSUME SealFails PROVE Relations'
  BY <1>7 DEF SealFails
<1>8. ASSUME Mend PROVE Relations'
  BY <1>8, SessionWritten DEF Mend
<1>9. ASSUME MendFails PROVE Relations'
  BY <1>9 DEF MendFails
<1>10. ASSUME Unlink PROVE Relations'
  BY <1>10 DEF Unlink
<1>11. ASSUME UnlinkFails PROVE Relations'
  BY <1>11 DEF UnlinkFails
<1> QED
  BY <1>1, <1>2, <1>3, <1>4, <1>5, <1>6, <1>7, <1>8, <1>9, <1>10, <1>11 DEF Finalizes
(* Sessions and their files are removed, by requests, by a death or by     *)
(* the start of the API.                                                   *)
LEMMA RemovePreserves ==
    ASSUME IInv, Removes \/ ApiDies \/ Boot PROVE Relations'
<1> USE RecordIsThere, ContentsAssumption
    DEF IInv, TypeOK, Relations, BeforeJob, SubtitleWanted, SessionOfJob,
        JobKeepsItsSources, LockProtects, PlanKnows, Exists, Eligible, Status,
        To, At, Fault, SaveSession, upload, ghosts, None
<1>1. ASSUME DeleteBegins PROVE Relations'
  BY <1>1 DEF DeleteBegins
<1>2. ASSUME SweepLists PROVE Relations'
  BY <1>2 DEF SweepLists
<1>3. ASSUME SweepBegins PROVE Relations'
  BY <1>3 DEF SweepBegins, Sweepable
<1>4. ASSUME RemovePrepared PROVE Relations'
  BY <1>4 DEF RemovePrepared, NoFiles
<1>5. ASSUME RemovePreparedFails PROVE Relations'
  BY <1>5 DEF RemovePreparedFails
<1>6. ASSUME RemoveSession PROVE Relations'
  BY <1>6 DEF RemoveSession, NoFiles
<1>7. ASSUME RemoveSessionFails PROVE Relations'
  BY <1>7 DEF RemoveSessionFails, PartlyRemoved, NoFiles
<1>8. ASSUME ApiDies PROVE Relations'
  <2>1. CASE api.at = "removeSession"
    BY <1>8, <2>1 DEF ApiDies, PartlyRemoved, NoFiles
  <2>2. CASE api.at # "removeSession"
    BY <1>8, <2>2 DEF ApiDies
  <2> QED BY <2>1, <2>2
<1>9. ASSUME Boot PROVE Relations'
  BY <1>9 DEF Boot, Sweepable
<1> QED
  BY <1>1, <1>2, <1>3, <1>4, <1>5, <1>6, <1>7, <1>8, <1>9 DEF Removes

(* Jobs run and are cleaned up.                                            *)
LEMMA RunPreserves ==
    ASSUME IInv, Runs \/ PlanCleanup \/ ExecuteCleanup PROVE Relations'
<1> USE RecordIsThere, ContentsAssumption
    DEF IInv, TypeOK, Relations, BeforeJob, SubtitleWanted, SessionOfJob,
        JobKeepsItsSources, LockProtects, PlanKnows, Exists, Eligible, Status,
        To, At, Fault, SaveSession, upload, ghosts, None
<1>1. ASSUME NEW p \in DOMAIN Moves, JobMoves(p) PROVE Relations'
  <2>1. job.phase # "absent" /\ p # "absent"
    BY <1>1 DEF JobMoves, Moves, Phases
  <2>2. job'.phase # "absent" /\ job'.revision = job.revision + 1
    BY <1>1, <2>1 DEF JobMoves
  <2>3. plan # NoPlan => plan.revision # job'.revision /\ plan.revision <= job'.revision
    BY <2>2 DEF Plan
  <2>4. UNCHANGED <<session, incoming, expired, listed, api, files, plan, made,
                    sealLost, cleaned>>
    BY <1>1 DEF JobMoves
  <2> QED BY <2>1, <2>2, <2>3, <2>4
<1>2. ASSUME NEW f \in {"work", "video"}, WorkerWrites(f) PROVE Relations'
  BY <1>2 DEF WorkerWrites
<1>3. ASSUME Age PROVE Relations'
  BY <1>3 DEF Age
<1>4. ASSUME PlanCleanup PROVE Relations'
  BY <1>4 DEF PlanCleanup
<1>5. ASSUME ExecuteCleanup PROVE Relations'
  <2>1. PICK gone \in SUBSET Removable :
            /\ files'.subtitle = (IF "subtitle" \in gone THEN "none" ELSE files.subtitle)
            /\ cleaned' = (cleaned \/ "subtitle" \in gone)
    BY <1>5 DEF ExecuteCleanup
  <2>2. UNCHANGED <<session, incoming, expired, listed, api, job, aged, made, sealLost>>
        /\ plan # NoPlan /\ plan' = NoPlan
    BY <1>5 DEF ExecuteCleanup
  <2>3. Exists
    BY <2>2
  <2> QED BY <2>1, <2>2, <2>3
<1> QED
  BY <1>1, <1>2, <1>3, <1>4, <1>5 DEF Runs

(* Every step keeps the invariant.                                         *)
LEMMA NextPreserves ==
    IInv /\ [Next]_vars => IInv'
<1> SUFFICES ASSUME IInv, [Next]_vars PROVE IInv'
  OBVIOUS
<1>1. TypeOK'
  <2>1. api.at \in {"save", "insert", "seal", "mend"} => session # Nothing
    BY DEF IInv, LockProtects, SessionOfJob
  <2> QED BY <2>1, TypePreserved DEF IInv
<1>2. CASE UNCHANGED vars
  BY <1>2 DEF vars, upload, ghosts, IInv, TypeOK, BeforeJob, SubtitleWanted,
     SessionOfJob, JobKeepsItsSources, LockProtects, PlanKnows, Exists, Eligible
<1>3. CASE Next
  <2>1. Relations'
    BY <1>3, SendPreserves, FinalizePreserves, RemovePreserves, RunPreserves DEF Next
  <2> QED BY <1>1, <2>1 DEF IInv, Relations
<1> QED BY <1>2, <1>3

-----------------------------------------------------------------------------
(* Every reachable state of the files of a job satisfies the invariant. *)
THEOREM Invariant == Spec => []IInv
<1> QED
  BY InitEstablishes, NextPreserves, PTL DEF Spec

(* Sessions, files, rows and plans keep their types: the API is never at a *)
(* place of a request that its session could not have reached. *)
THEOREM TypeCorrect == Spec => []TypeOK
<1>1. IInv => TypeOK
  BY DEF IInv
<1> QED
  BY <1>1, Invariant, PTL

(* A job keeps its session, its media and its subtitles through every      *)
(* deletion, sweep, maintenance, death of the API and failed write.        *)
THEOREM SourcesAreKept == Spec => []JobKeepsItsSources
<1>1. IInv => JobKeepsItsSources
  BY DEF IInv
<1> QED
  BY <1>1, Invariant, PTL

(* Nothing removes the files of a job that runs, may still be resumed, or  *)
(* has succeeded, whenever the removal was planned or decided.             *)
THEOREM LivingFilesAreKept == Spec => LivingFilesStay
<1> DEFINE Lost == \/ files.subtitle # None /\ files'.subtitle = None
                   \/ files.work /\ ~files'.work
                   \/ files.video /\ ~files'.video
           Kept == Exists /\ Lost => \/ job.phase = "cancelled"
                                     \/ job.phase = "failed" /\ job.retryable /\ aged
<1> USE RecordIsThere
    DEF IInv, TypeOK, At, upload, ghosts, Exists, Eligible
<1>1. ASSUME IInv, UNCHANGED files PROVE Kept
  BY <1>1
<1>2. ASSUME IInv, CopySubtitle \/ RemovePrepared PROVE Kept
  BY <1>2 DEF CopySubtitle, RemovePrepared, LockProtects
<1>3. ASSUME IInv, ExecuteCleanup PROVE Kept
  BY <1>3 DEF ExecuteCleanup, Removable, PlanHolds, PlanKnows
<1>4. ASSUME IInv, NEW f \in {"work", "video"}, WorkerWrites(f) PROVE Kept
  BY <1>4 DEF WorkerWrites
<1>5. ASSUME IInv, Next PROVE Kept
  <2>1. CASE Sends \/ CreateSession \/ Expire
    BY <1>1, <1>5, <2>1 DEF Sends, CreateSession, Expire, PutBegins, PutAborts,
       PutPublishes, PutSaves, PutSaveFails, Putting
  <2>2. CASE Finalizes
    BY <1>1, <1>2, <1>5, <2>2 DEF Finalizes, FinalizeNew, FinalizeAgain,
       FinalizeRefused, InsertJob, Seal, SealFails, Mend, MendFails, Unlink, UnlinkFails
  <2>3. CASE Removes \/ ApiDies \/ Boot
    BY <1>1, <1>2, <1>5, <2>3 DEF Removes, DeleteBegins, SweepLists, SweepBegins,
       RemoveSession, RemovePreparedFails, RemoveSessionFails, ApiDies, Boot
  <2>4. CASE Runs \/ PlanCleanup
    BY <1>1, <1>4, <1>5, <2>4 DEF Runs, JobMoves, Age, PlanCleanup
  <2> QED BY <1>3, <1>5, <2>1, <2>2, <2>3, <2>4 DEF Next
<1>6. IInv /\ [Next]_vars => [Kept]_vars
  BY <1>5
<1> QED
  BY <1>6, Invariant, PTL DEF Spec, LivingFilesStay

=============================================================================
