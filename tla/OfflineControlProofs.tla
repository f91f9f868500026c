------------------------ MODULE OfflineControlProofs ------------------------
(***************************************************************************)
(* Proofs about OfflineControl, for any number of jobs, of deaths, of      *)
(* stops and of timing rewrites.                                           *)
(*                                                                         *)
(* Each process keeps what it read of the job while the other one writes.  *)
(* The inductive invariant says what is still true of every such read: of  *)
(* the worker's (WorkerSees), of the request's (ApiSees) and of the        *)
(* thread's that chooses a language (ChooserSees).  All three say that the *)
(* job is where it was read or has been cancelled since, which is what the *)
(* properties rest on.                                                     *)
(***************************************************************************)
EXTENDS OfflineControl, RowProofs

(* The worker has taken a job for a stage. *)
Taken == {"guard", "enter"} \cup HoldingSteps

StepsOf(stage) ==
    CASE stage = "transcript" -> {"start", "TRANSCRIBING", "SUBTITLE_SELECTED"}
      [] stage = "translation" -> {"start", "TRANSLATING"}
      [] stage = "phase4" -> {"start", "SEPARATING", "SYNTHESIZING", "TIMING",
                              "MUXING", "VERIFYING"}

(* The job is where the worker read it, or cancelled. *)
ReadHolds == rows[worker.job].status \in {worker.status} \cup Cancelled

WorkerSees ==
    /\ worker.at \in Taken =>
         rows[worker.job].status \in Accepts(worker.stage) \cup Cancelled
    /\ worker.at \in HoldingSteps =>
         /\ rows[worker.job].status = "CANCELLING" => rows[worker.job].slot
         /\ worker.step \in StepsOf(worker.stage)
         /\ worker.step # "start" =>
              rows[worker.job].status \in {worker.step} \cup Cancelled
         /\ worker.flag = FALSE
    /\ worker.at \in {"write", "failing"} =>
         worker.status \in Accepts(worker.stage) /\ ReadHolds
    /\ worker.at = "progressing" =>
         /\ worker.status \in Accepts(worker.stage) \cup Cancelled /\ ReadHolds
         /\ worker.status = "CANCELLED" => rows[worker.job].status = "CANCELLED"
    /\ worker.at = "rejecting" =>
         /\ worker.status \in (Live \ {"NEEDS_LANGUAGE"}) \cup Cancelled /\ ReadHolds
         /\ worker.flag => worker.status \in Cancelled

(* A job that is being resumed stays parked, and a cancellation that found *)
(* a job neither running nor idle nor marked finds it unmarked to the end. *)
ApiSees ==
    /\ api.at = "requesting" => rows[api.job].status # "absent"
    /\ api.at = "finalizing" => api.branch # "running"
    /\ api.at = "resuming" => rows[api.job].status = api.status
    /\ api.at \in {"requesting", "finalizing"} /\ api.branch = "other" =>
         ~pending[api.job]

ChooserSees ==
    chooser.at = "writing" =>
        /\ rows[chooser.job].status \in {"NEEDS_LANGUAGE"} \cup Cancelled
        /\ chooser.flag = FALSE

(* CancelHasOwner, with the stage as an owner only where its next look at  *)
(* the job makes it return.                                                *)
OwnerKnown ==
    \A j \in Jobs : rows[j].status = "CANCELLING" /\ WorkerNeverKilled =>
        \/ pending[j]
        \/ api.at \in {"requesting", "marking", "finalizing"} /\ api.job = j
        \/ api.at = "starting" /\ j \in api.todo
        \/ api.at = "down"
        \/ worker.at \in {"in", "returned"} /\ worker.job = j

IInv ==
    /\ TypeOK
    /\ TableOK(Jobs, rows)
    /\ WorkerSees
    /\ ApiSees
    /\ ChooserSees
    /\ FlagOnlyWhileCancelling
    /\ DeathOnlyByCancel
    /\ OwnerKnown

-----------------------------------------------------------------------------
(* What the program counters hold, place by place. *)
LEMMA WorkerFields ==
    ASSUME worker \in WorkerStates
    PROVE  /\ worker.at \in Taken => worker.job \in Jobs /\ worker.stage \in Stages
           /\ worker.at \in {"guard", "enter"} =>
                worker \in [at : {"guard", "enter"}, job : Jobs, stage : Stages]
           /\ worker.at \in HoldingSteps =>
                worker \in [at : HoldingSteps, job : Jobs, stage : Stages,
                            status : Statuses, flag : BOOLEAN, step : Steps,
                            rewrites : 0..MaxRewrites]
           /\ worker.at \in {"finalize", "returned", "dead", "rejecting"} =>
                worker.job \in Jobs
           /\ worker.at = "rejecting" =>
                worker.status \in Statuses /\ worker.flag \in BOOLEAN
BY DEF WorkerStates, Taken, HoldingSteps

(* What the record of a request says at each of its points.                *)
LEMMA ApiFields ==
    ASSUME api \in ApiStates
    PROVE  /\ api.at \in {"requesting", "marking", "finalizing"} =>
                api \in [at : {"requesting", "marking", "finalizing"}, job : Jobs,
                         branch : {"running", "idle", "other", "refused"}]
           /\ api.at = "resuming" =>
                api \in [at : {"resuming"}, job : Jobs, status : Parked, target : Live]
           /\ api.at = "starting" => api \in [at : {"starting"}, todo : SUBSET Jobs]
BY DEF ApiStates, ApiIdle, ApiDown

(* What the record of a choice of language says.                           *)
LEMMA ChooserFields ==
    ASSUME chooser \in ChooserStates
    PROVE  chooser.at = "writing" => chooser.job \in Jobs /\ chooser.flag \in BOOLEAN
BY DEF ChooserStates, ChooserIdle

(* What a stage accepts is at work and holds the slot. *)
LEMMA AcceptsRange ==
    ASSUME NEW stage \in Stages
    PROVE  /\ Accepts(stage) \subseteq Live \ {"NEEDS_LANGUAGE"}
           /\ Accepts(stage) \subseteq Statuses \ (Parked \cup Cancelled \cup Terminal)
BY DEF Stages, Accepts, TranscriptQueue, TranslationQueue, Phase4Queue,
       Live, Active, Cancelled, Statuses, Parked, Terminal

(* How the sets of statuses lie to one another.                            *)
LEMMA Names ==
    /\ Cancelled = {"CANCELLING", "CANCELLED"}
    /\ Cancelled \cap (Parked \cup Live \cup {"NEEDS_LANGUAGE", "absent"}) = {}
    /\ Parked \cap (Live \cup Terminal) = {}
    /\ Live \cap Terminal = {}
    /\ "NEEDS_LANGUAGE" \in Live /\ "CANCELLED" \in Terminal
    /\ "CANCELLING" \notin Terminal \cup Parked \cup Live
    /\ Live \cup Parked \cup Cancelled \cup Terminal \subseteq Statuses
    /\ "absent" \notin Statuses
BY DEF Cancelled, Parked, Live, Active, Terminal, Statuses

-----------------------------------------------------------------------------
(* What each process does to the table. *)

(* The API cancels rows, and otherwise touches only those the worker has   *)
(* no business with. *)
ApiRow(r, q) ==
    \/ q.status \in Cancelled /\ (q.status = "CANCELLING" => q.slot = r.slot)
    \/ r.status \in {"absent", "NEEDS_LANGUAGE"} \cup Parked

ApiTable ==
    \/ UnchangedTable
    \/ \E j \in Jobs, q \in Row, flag \in BOOLEAN :
          /\ SetRow(j, q, flag)
          /\ Move(rows[j], q) /\ ApiRow(rows[j], q)
          /\ flag => pending[j] \/ q.status \in Cancelled

(* The worker moves rows at work, finalizes cancellations, and marks none; *)
(* it takes the mark off a cancellation only where it looks at it next. *)
WorkerRow(r, q) ==
    \/ q.status = r.status
    \/ r.status \in Live \ {"NEEDS_LANGUAGE"} /\ q.status \notin Cancelled
    \/ r.status = "CANCELLING" /\ q.status = "CANCELLED"

WorkerTable ==
    \/ UnchangedTable
    \/ \E j \in Jobs, q \in Row, flag \in BOOLEAN :
          /\ SetRow(j, q, flag)
          /\ Move(rows[j], q) /\ WorkerRow(rows[j], q)
          /\ flag => pending[j]
          /\ q.status = "CANCELLING" => worker'.at = "in" /\ worker'.job = j
          /\ rows[j].status = "CANCELLING" /\ q.status = "CANCELLED" =>
               worker.at \in {"finalize", "returned"}

(* What the table says of one row.                                         *)
LEMMA RowFacts ==
    ASSUME IInv, NEW j \in Jobs
    PROVE  /\ RowOK(rows[j]) /\ rows[j] \in Row \cup {NoRow}
           /\ rows[j].status # "absent" <=> rows[j] \in Row
           /\ rows[j].status # "absent" <=> rows[j] # NoRow
           /\ pending[j] \in BOOLEAN
BY NoRowIsNoRow DEF IInv, TypeOK, TableOK, Row, Statuses, Active, Parked, Terminal

(* finalize_cancel is a move, or nothing. *)
LEMMA FinalizeMoves ==
    ASSUME IInv, NEW j \in Jobs, FinalizeCancel(j)
    PROVE  \/ UnchangedTable /\ rows[j].status # "CANCELLING"
           \/ \E q \in Row : /\ SetRow(j, q, pending[j])
                             /\ Move(rows[j], q)
                             /\ rows[j].status = "CANCELLING" /\ q.status = "CANCELLED"
<1>1. CASE rows[j].status # "CANCELLING"
  BY <1>1 DEF FinalizeCancel
<1>2. CASE rows[j].status = "CANCELLING"
  <2> DEFINE q == UpdatedRow(rows[j], "CANCELLED", FALSE, TRUE)
  <2>1. SetRow(j, q, pending[j])
    BY <1>2 DEF FinalizeCancel
  <2>2. rows[j] \in Row /\ RowOK(rows[j])
    BY <1>2, RowFacts
  <2>3. MayBecome(rows[j], "CANCELLED", FALSE)
    BY <1>2, Names DEF MayBecome, Transitions
  <2>4. Move(rows[j], q)
    BY <1>2, <2>2, <2>3, CancelMove, Names
  <2>5. q.status = "CANCELLED" /\ q \in Row
    BY <2>4, Names, NoRowIsNoRow DEF UpdatedRow, Move, RowOK
  <2> QED BY <1>2, <2>1, <2>4, <2>5
<1> QED BY <1>1, <1>2
(* A cancelling request moves the row, unless it is cancelling already. *)
LEMMA CancelMoves ==
    ASSUME IInv, NEW j \in Jobs, rows[j].status \in Statuses \ Terminal
    PROVE  LET q == UpdatedRow(rows[j], "CANCELLING", FALSE, TRUE) IN
           /\ q \in Row /\ Move(rows[j], q) /\ ApiRow(rows[j], q)
           /\ q.status = "CANCELLING"
<1>1. rows[j] \in Row /\ RowOK(rows[j])
  BY RowFacts, Names
<1>2. MayBecome(rows[j], "CANCELLING", FALSE)
  BY DEF MayBecome
<1> DEFINE q == UpdatedRow(rows[j], "CANCELLING", FALSE, TRUE)
<1>3. Move(rows[j], q)
  BY <1>1, <1>2, CancelMove, Names
<1>4. q.status = "CANCELLING" /\ q.slot = rows[j].slot
  BY DEF UpdatedRow, SlotAfter
<1> QED BY <1>3, <1>4, Names, NoRowIsNoRow DEF Move, RowOK, ApiRow

(* The steps of the API change rows as requests may, and leave the worker  *)
(* where it is.                                                            *)
LEMMA ApiTableStep ==
    ASSUME IInv, User \/ Api \/ ChooseWrite \/ ApiCrash
    PROVE  ApiTable /\ UNCHANGED <<worker, stopping>>
<1>1. ASSUME NEW j \in Jobs, CreateReadyOffline(j) PROVE ApiTable
  <2>1. rows[j] = NoRow /\ SetRow(j, InsertedRow("READY_OFFLINE"), FALSE)
    BY <1>1 DEF CreateReadyOffline
  <2>2. Move(rows[j], InsertedRow("READY_OFFLINE"))
    BY <2>1, InsertedMove
  <2>3. InsertedRow("READY_OFFLINE") \in Row /\ ApiRow(rows[j], InsertedRow("READY_OFFLINE"))
    BY <2>1, <2>2, NoRowIsNoRow DEF Move, RowOK, ApiRow
  <2> QED BY <2>1, <2>2, <2>3 DEF ApiTable
<1>2. ASSUME CancelRequest PROVE ApiTable
  <2> DEFINE j == api.job
  <2>1. j \in Jobs
    BY <1>2, ApiFields DEF CancelRequest, IInv, TypeOK
  <2>2. CASE UnchangedTable
    BY <2>2 DEF ApiTable
  <2>3. CASE ~UnchangedTable
    <3>1. /\ rows[j].status \notin Terminal \cup {"CANCELLING"}
          /\ SetRow(j, UpdatedRow(rows[j], "CANCELLING", FALSE, TRUE), pending[j])
      BY <1>2, <2>3 DEF CancelRequest
    <3>2. rows[j].status \in Statuses \ Terminal
      BY <1>2, <2>1, <3>1, RowFacts DEF CancelRequest, IInv, ApiSees, Row
    <3> QED BY <2>1, <3>1, <3>2, RowFacts, CancelMoves DEF ApiTable
  <2> QED BY <2>2, <2>3
<1>3. ASSUME CancelMark PROVE ApiTable
  <2>1. api.job \in Jobs
    BY <1>3, ApiFields DEF CancelMark, IInv, TypeOK
  <2> QED BY <1>3, <2>1, CancelMoves, Names DEF CancelMark, ApiTable
<1>4. ASSUME NEW j \in Jobs, FinalizeCancel(j) PROVE ApiTable
  BY <1>4, FinalizeMoves, RowFacts, Names DEF ApiTable, ApiRow
<1>5. ASSUME CancelFinalize PROVE ApiTable
  <2>1. api.job \in Jobs
    BY <1>5, ApiFields DEF CancelFinalize, IInv, TypeOK
  <2> QED BY <1>4, <1>5, <2>1 DEF CancelFinalize, ApiTable
<1>6. ASSUME ApiReconcile PROVE ApiTable
  <2>1. api.todo \subseteq Jobs
    BY <1>6, ApiFields DEF ApiReconcile, IInv, TypeOK
  <2> QED BY <1>4, <1>6, <2>1 DEF ApiReconcile, ApiTable
<1>7. ASSUME ResumeWrite PROVE ApiTable
  <2> DEFINE j == api.job
             q == UpdatedRow(rows[j], api.target, FALSE, FALSE)
  <2>1. j \in Jobs /\ api.status \in Parked /\ api.target \in Live
    BY <1>7, ApiFields DEF ResumeWrite, IInv, TypeOK
  <2>2. CASE UnchangedTable
    BY <2>2 DEF ApiTable
  <2>3. CASE ~UnchangedTable
    <3>1. rows[j].status \in Parked /\ SetRow(j, q, pending[j])
      BY <1>7, <2>1, <2>3 DEF ResumeWrite
    <3>2. rows[j] \in Row /\ RowOK(rows[j])
      BY <2>1, <3>1, RowFacts, Names
    <3>3. Move(rows[j], q)
      BY <2>1, <3>1, <3>2, ForcedMove, Names
    <3>4. q \in Row /\ ApiRow(rows[j], q)
      BY <3>1, <3>3 DEF Move, RowOK, ApiRow
    <3> QED BY <2>1, <3>1, <3>3, <3>4, RowFacts DEF ApiTable
  <2> QED BY <2>2, <2>3
<1>8. ASSUME ChooseWrite PROVE ApiTable
  <2> DEFINE j == chooser.job
             q == UpdatedRow(rows[j], "TRANSCRIBING", FALSE, rows[j].cancel)
  <2>1. j \in Jobs /\ chooser.flag = FALSE
    BY <1>8, ChooserFields DEF ChooseWrite, IInv, TypeOK, ChooserSees
  <2>2. CASE rows[j].status # "NEEDS_LANGUAGE"
    BY <1>8, <2>2 DEF ChooseWrite, ApiTable
  <2>3. CASE rows[j].status = "NEEDS_LANGUAGE"
    <3>1. rows[j] \in Row /\ RowOK(rows[j]) /\ SetRow(j, q, FALSE)
      BY <1>8, <2>1, <2>3, RowFacts DEF ChooseWrite
    <3>2. /\ MayBecome(rows[j], "TRANSCRIBING", FALSE)
          /\ "TRANSCRIBING" \in Statuses \ Cancelled
      BY <2>3, Names DEF MayBecome, Transitions, Forward, Statuses, Active, Cancelled
    <3>3. Move(rows[j], q)
      BY <3>1, <3>2, UnforcedMove
    <3>4. q \in Row /\ ApiRow(rows[j], q)
      BY <2>3, <3>3 DEF Move, RowOK, ApiRow
    <3> QED BY <2>1, <3>1, <3>3, <3>4 DEF ApiTable
  <2> QED BY <2>2, <2>3
<1>9. ASSUME UnchangedTable PROVE ApiTable
  BY <1>9 DEF ApiTable
<1>10. CASE User
  BY <1>1, <1>9, <1>10 DEF User, CancelRead, ResumeRead, ResumeCancelling, ChooseRead,
     CreateReadyOffline, UnchangedTable
<1>11. CASE Api
  BY <1>2, <1>3, <1>5, <1>6, <1>7, <1>9, <1>11 DEF Api, CancelRequest, CancelMark,
     CancelFinalize, ResumeWrite, ApiStart, ApiReconcile, UnchangedTable
<1>12. CASE ChooseWrite \/ ApiCrash
  BY <1>8, <1>9, <1>12 DEF ChooseWrite, ApiCrash, UnchangedTable
<1> QED BY <1>10, <1>11, <1>12
(* The next status of a stage, and that the graph lets it be written. *)
LEMMA NextStatusRange ==
    ASSUME NEW stage \in Stages, NEW status \in Accepts(stage),
           worker.step \in StepsOf(stage),
           worker.step # "start" => status = worker.step,
           NEW s \in NextStatus(stage, status)
    PROVE  /\ s \in Statuses \ Cancelled
           /\ s # EndOf(stage) => s \in Accepts(stage) /\ s \in StepsOf(stage) \ {"start"}
           /\ s \in Live \cup {"COMPLETED"}
           /\ s = "COMPLETED" => status = "VERIFYING"
           /\ Forced(stage, status, s) => s \in Live
           /\ Forced(stage, status, s) \/ s \in Transitions(status) \/ s = status
<1>1. CASE stage = "transcript"
  BY <1>1 DEF NextStatus, Accepts, TranscriptQueue, EndOf, StepsOf, Forced, Transitions,
     Forward, Live, Active, Cancelled, Statuses
<1>2. CASE stage = "translation"
  BY <1>2 DEF NextStatus, Accepts, TranslationQueue, EndOf, StepsOf, Forced, Transitions,
     Forward, Live, Active, Cancelled, Statuses
<1>3. CASE stage = "phase4"
  <2>1. s \in {"SEPARATING", "SYNTHESIZING", "TIMING", "MUXING", "VERIFYING", "COMPLETED"}
    BY <1>3 DEF NextStatus, StepsOf, Phase4After
  <2>2. /\ s = "COMPLETED" => status = "VERIFYING"
        /\ s = "MUXING" => status = "TIMING"
    BY <1>3 DEF NextStatus, StepsOf, Phase4After
  <2>3. Forced(stage, status, s) <=>
          s \in {"SEPARATING", "SYNTHESIZING", "TIMING", "VERIFYING"}
    BY <1>3, <2>1, <2>2 DEF Forced
  <2>4. EndOf(stage) = "COMPLETED" /\ Accepts(stage) = Phase4Queue
    BY <1>3 DEF EndOf, Accepts
  <2>5. {"SEPARATING", "SYNTHESIZING", "TIMING", "MUXING", "VERIFYING"} \subseteq
           Phase4Queue \cap (StepsOf(stage) \ {"start"}) \cap Live \cap (Statuses \ Cancelled)
    BY <1>3 DEF Phase4Queue, StepsOf, Live, Active, Cancelled, Statuses
  <2>6. "COMPLETED" \in Statuses \ Cancelled
    BY DEF Statuses, Terminal, Cancelled
  <2>7. "COMPLETED" \in Transitions("VERIFYING") /\ "MUXING" \in Transitions("TIMING")
    BY DEF Transitions, Forward, Live, Active, Cancelled
  <2> QED BY <2>1, <2>2, <2>3, <2>4, <2>5, <2>6, <2>7
<1> QED BY <1>1, <1>2, <1>3 DEF Stages
(* Whatever became of the row, a stage goes on to one of its own steps or  *)
(* to its end, which is no status it works from. *)
LEMMA NextStepKnown ==
    ASSUME NEW stage \in Stages, NEW status, worker.step \in StepsOf(stage),
           NEW s \in NextStatus(stage, status)
    PROVE  /\ s \in StepsOf(stage) \cup {EndOf(stage)}
           /\ EndOf(stage) \notin Accepts(stage)
BY DEF Stages, NextStatus, StepsOf, Phase4After, EndOf, Accepts, TranscriptQueue,
   TranslationQueue, Phase4Queue

(* The worker writes a row at work as it read it: to the status a stage     *)
(* comes to, to a failure, or back to the same status. *)
LEMMA WorkMoves ==
    ASSUME IInv, NEW j \in Jobs, rows[j].status \in Live \ {"NEEDS_LANGUAGE"},
           NEW s \in Statuses \ Cancelled, NEW retryable \in BOOLEAN,
           \/ MayBecome(rows[j], s, FALSE)
           \/ s \in Live
    PROVE  LET q == UpdatedRow(rows[j], s, retryable, rows[j].cancel) IN
           q \in Row /\ Move(rows[j], q) /\ WorkerRow(rows[j], q) /\ q.status \notin Cancelled
<1>1. rows[j] \in Row /\ RowOK(rows[j])
  BY RowFacts, Names
<1> DEFINE q == UpdatedRow(rows[j], s, retryable, rows[j].cancel)
<1>2. Move(rows[j], q)
  <2>1. CASE MayBecome(rows[j], s, FALSE)
    BY <1>1, <2>1, UnforcedMove
  <2>2. CASE s \in Live
    <3>1. Move(rows[j], UpdatedRow(rows[j], s, retryable, FALSE)) /\ ~rows[j].cancel
      BY <1>1, <2>2, ForcedMove, Names
    <3>2. rows[j].cancel = FALSE
      BY <1>1, <3>1 DEF Row
    <3> QED BY <3>1, <3>2
  <2> QED BY <2>1, <2>2
<1>3. q.status = s
  BY DEF UpdatedRow
<1> QED BY <1>2, <1>3, NoRowIsNoRow DEF Move, RowOK, WorkerRow

(* A report is written only onto the status it was made of. *)
LEMMA SameStatus ==
    ASSUME IInv, worker.at = "progressing", MayBecome(rows[worker.job], worker.status, FALSE)
    PROVE  rows[worker.job].status = worker.status
<1> DEFINE r == rows[worker.job]
<1>1. /\ r.status \in {worker.status} \cup Cancelled
      /\ worker.status = "CANCELLED" => r.status = "CANCELLED"
  BY DEF IInv, WorkerSees, ReadHolds
<1>2. CASE r.status = "CANCELLED"
  BY <1>2, Names DEF MayBecome, Transitions
<1>3. CASE r.status = "CANCELLING"
  <2>1. worker.status \in {"CANCELLING", "CANCELLED"}
    BY <1>3, Names DEF MayBecome, Transitions
  <2> QED BY <1>1, <1>3, <2>1
<1> QED BY <1>1, <1>2, <1>3, Names

(* The steps of the worker change rows as stages may, and leave the        *)
(* requests where they are.                                                *)
LEMMA WorkerTableStep ==
    ASSUME IInv, WorkerSteps \/ WorkerStop \/ WorkerCrash
    PROVE  WorkerTable /\ UNCHANGED <<api, chooser>>
<1>1. ASSUME NEW j \in Jobs, FinalizeCancel(j), worker.at \in {"finalize", "returned"}
      PROVE  WorkerTable
  BY <1>1, FinalizeMoves, RowFacts DEF WorkerTable, WorkerRow
<1>0. ASSUME NEW j \in Jobs, rows[j].status \in Live \ {"NEEDS_LANGUAGE"},
             NEW s \in Statuses \ Cancelled, NEW retryable \in BOOLEAN,
             MayBecome(rows[j], s, FALSE) \/ s \in Live,
             SetRow(j, UpdatedRow(rows[j], s, retryable, rows[j].cancel), FALSE)
      PROVE  WorkerTable
  <2> DEFINE q == UpdatedRow(rows[j], s, retryable, rows[j].cancel)
  <2>1. q \in Row /\ Move(rows[j], q) /\ WorkerRow(rows[j], q) /\ q.status \notin Cancelled
    BY <1>0, WorkMoves
  <2>2. q.status # "CANCELLING"
    BY <2>1, Names
  <2>3. q.status # "CANCELLED"
    BY <2>1, Names
  <2> QED BY <1>0, <2>1, <2>2, <2>3 DEF WorkerTable
<1>2. ASSUME WorkerFinalize \/ AfterRun PROVE WorkerTable
  <2>1. worker.job \in Jobs
    BY <1>2, WorkerFields DEF WorkerFinalize, AfterRun, IInv, TypeOK
  <2> QED BY <1>1, <1>2, <2>1 DEF WorkerFinalize, AfterRun
<1> DEFINE j == worker.job
<1>3. ASSUME GuardRejects PROVE WorkerTable
  <2>1. /\ j \in Jobs /\ worker.status \notin Parked
        /\ worker.flag \in BOOLEAN /\ (worker.flag => worker.status \in Cancelled)
    BY <1>3, WorkerFields, Names DEF GuardRejects, IInv, TypeOK, WorkerSees
  <2>2. CASE UnchangedTable
    BY <2>2 DEF WorkerTable
  <2>3. CASE ~UnchangedTable
    <3>1. PICK retryable \in BOOLEAN :
            /\ rows[j].status = worker.status /\ MayBecome(rows[j], "FAILED", FALSE)
            /\ SetRow(j, UpdatedRow(rows[j], "FAILED", retryable, rows[j].cancel), worker.flag)
      BY <1>3, <2>3 DEF GuardRejects
    <3>2. "FAILED" \in Statuses \ Cancelled /\ "FAILED" \in Parked
      BY Names DEF Parked
    <3>3. rows[j].status \in Live \ {"NEEDS_LANGUAGE"}
      <4>1. "FAILED" \in Transitions(rows[j].status)
        BY <2>1, <3>1, <3>2, Names DEF MayBecome
      <4>2. "FAILED" \notin Live \cup {"COMPLETED"}
        BY DEF Live, Active, Cancelled
      <4> QED BY <4>1, <4>2, ForwardRange DEF Transitions, CannotFail
    <3>4. worker.flag = FALSE
      BY <2>1, <3>1, <3>3, Names
    <3> QED BY <2>1, <3>1, <3>2, <3>3, <3>4, <1>0
  <2> QED BY <2>2, <2>3
<1>4. ASSUME worker.at \in HoldingSteps
      PROVE  /\ j \in Jobs /\ worker.stage \in Stages /\ worker.flag = FALSE
             /\ Accepts(worker.stage) \subseteq Live \ {"NEEDS_LANGUAGE"}
             /\ rows[j].status \in Accepts(worker.stage) \cup Cancelled
             /\ worker.step \in StepsOf(worker.stage)
             /\ worker.step # "start" => rows[j].status \in {worker.step} \cup Cancelled
  BY <1>4, WorkerFields, AcceptsRange DEF IInv, TypeOK, WorkerSees, Taken
<1>5. ASSUME StageAdvance PROVE WorkerTable
  <2> DEFINE r == rows[j]
  <2>1. worker.at = "write"
    BY <1>5 DEF StageAdvance
  <2>2. worker.at \in HoldingSteps
    BY <2>1 DEF HoldingSteps
  <2>3. worker.status \in Accepts(worker.stage) /\ r.status \in {worker.status} \cup Cancelled
    BY <2>1 DEF IInv, WorkerSees, ReadHolds
  <2>4. CASE UnchangedTable
    BY <2>4 DEF WorkerTable
  <2>5. CASE ~UnchangedTable
    <3>1. PICK s \in NextStatus(worker.stage, worker.status) :
            /\ s # worker.status
            /\ Unmoved(j, s) /\ MayBecome(r, s, Forced(worker.stage, worker.status, s))
            /\ SetRow(j, UpdatedRow(r, s, FALSE, r.cancel), worker.flag)
      BY <1>5, <2>5 DEF StageAdvance
    <3>2. r.status = worker.status
      BY <1>4, <2>2, <2>3, <3>1, NextStatusRange, AcceptsRange DEF Unmoved, Cancelled
    <3>6. /\ worker.stage \in Stages /\ worker.status \in Accepts(worker.stage)
          /\ worker.step \in StepsOf(worker.stage)
          /\ worker.step # "start" => worker.status = worker.step
      BY <1>4, <2>2, <2>3, <3>2, AcceptsRange, Names
    <3>3. /\ s \in Statuses \ Cancelled
          /\ Forced(worker.stage, worker.status, s) => s \in Live
      BY <3>6, NextStatusRange
    <3>4. MayBecome(r, s, FALSE) \/ s \in Live
      BY <3>1, <3>3 DEF MayBecome
    <3>5. r.status \in Live \ {"NEEDS_LANGUAGE"}
      BY <1>4, <2>2, <2>3, <3>2
    <3> QED BY <1>4, <2>2, <3>1, <3>3, <3>4, <1>0, <3>5
  <2> QED BY <2>4, <2>5
<1>6. ASSUME ReportTranscription PROVE WorkerTable
  <2>1. worker.at \in HoldingSteps
    BY <1>6 DEF ReportTranscription, HoldingSteps
  <2>2. CASE UnchangedTable
    BY <2>2 DEF WorkerTable
  <2>3. CASE ~UnchangedTable
    <3>1. /\ rows[j].status = "TRANSCRIBING"
          /\ SetRow(j, UpdatedRow(rows[j], "TRANSCRIBING", FALSE, rows[j].cancel), worker.flag)
      BY <1>6, <2>3 DEF ReportTranscription
    <3>2. /\ "TRANSCRIBING" \in Live \ {"NEEDS_LANGUAGE"}
          /\ "TRANSCRIBING" \in Statuses \ Cancelled
      BY DEF Live, Active, Cancelled, Statuses
    <3> QED BY <1>4, <2>1, <3>1, <3>2, <1>0
  <2> QED BY <2>2, <2>3
<1>7. ASSUME ProgressWrite PROVE WorkerTable
  <2> DEFINE r == rows[j]
             q == UpdatedRow(r, worker.status, FALSE, r.cancel)
  <2>1. worker.at \in HoldingSteps /\ worker.at = "progressing"
    BY <1>7 DEF ProgressWrite, HoldingSteps
  <2>2. /\ worker.status \in Accepts(worker.stage) \cup Cancelled
        /\ r.status \in {worker.status} \cup Cancelled
    BY <2>1 DEF IInv, WorkerSees, ReadHolds
  <2>3. CASE UnchangedTable
    BY <2>3 DEF WorkerTable
  <2>4. CASE ~UnchangedTable
    <3>1. /\ MayBecome(r, worker.status, FALSE) /\ SetRow(j, q, FALSE)
          /\ worker' = [worker EXCEPT !.at = "in"]
      BY <1>4, <1>7, <2>1, <2>4 DEF ProgressWrite
    <3>2. r \in Row /\ RowOK(r) /\ j \in Jobs
      BY <1>4, <2>1, <2>2, RowFacts, Names, AcceptsRange
    <3>3. r.status = worker.status
      BY <2>1, <3>1, SameStatus
    <3>4. CASE r.status \notin Cancelled
      <4>1. r.status \in Live \ {"NEEDS_LANGUAGE"} /\ r.status \in Statuses
        BY <1>4, <2>1, <2>2, <3>4, Names
      <4> QED BY <3>1, <3>2, <3>3, <3>4, <4>1, <1>0
    <3>5. CASE r.status \in Cancelled
      <4>1. r.cancel = TRUE
        BY <3>2, <3>5, NoRowIsNoRow DEF RowOK, Row
      <4>2. Move(r, q)
        BY <3>1, <3>2, <3>3, <3>5, <4>1, CancelMove
      <4>3. q.status = r.status
        BY <3>3 DEF UpdatedRow
      <4>4. q \in Row /\ WorkerRow(r, q)
        BY <4>2, <4>3 DEF Move, RowOK, WorkerRow
      <4>5. worker'.at = "in" /\ worker'.job = j
        BY <2>1, <3>1, WorkerFields DEF IInv, TypeOK
      <4>6. ~(r.status = "CANCELLING" /\ q.status = "CANCELLED")
        BY <4>3
      <4> QED BY <3>1, <3>2, <4>2, <4>4, <4>5, <4>6 DEF WorkerTable
    <3> QED BY <3>4, <3>5
  <2> QED BY <2>3, <2>4
<1>8. ASSUME FailWrite PROVE WorkerTable
  <2> DEFINE r == rows[j]
  <2>1. worker.at \in HoldingSteps /\ worker.at = "failing"
    BY <1>8 DEF FailWrite, HoldingSteps
  <2>2. /\ worker.status \in Accepts(worker.stage)
        /\ r.status \in {worker.status} \cup Cancelled
    BY <2>1 DEF IInv, WorkerSees, ReadHolds
  <2>3. CASE UnchangedTable
    BY <2>3 DEF WorkerTable
  <2>4. CASE ~UnchangedTable
    <3>1. PICK s \in FailureTargets, retryable \in BOOLEAN :
            /\ r.status = worker.status
            /\ SetRow(j, UpdatedRow(r, s, retryable, r.cancel), worker.flag)
      BY <1>8, <2>4 DEF FailWrite
    <3>2. r.status \in Live \ {"NEEDS_LANGUAGE"}
      BY <1>4, <2>1, <2>2, <3>1
    <3>3. s \in Statuses \ Cancelled
      BY DEF FailureTargets, Statuses, Active, Parked, Cancelled
    <3>4. MayBecome(r, s, FALSE) \/ s \in Live
      <4>1. CASE s = "FAILED"
        <5>1. r.status \notin CannotFail
          BY <1>4, <2>1, <2>2, <3>1, <3>2, AcceptsRange
          DEF CannotFail, Accepts, TranscriptQueue, TranslationQueue, Phase4Queue, Stages
        <5> QED BY <3>2, <4>1, <5>1 DEF MayBecome, Transitions
      <4>2. CASE s # "FAILED"
        BY <4>2, Names DEF FailureTargets
      <4> QED BY <4>1, <4>2
    <3> QED BY <1>4, <2>1, <3>1, <3>2, <3>3, <3>4, <1>0
  <2> QED BY <2>3, <2>4
<1>9. ASSUME UnchangedTable PROVE WorkerTable
  BY <1>9 DEF WorkerTable
<1>10. WorkerTable
  BY <1>2, <1>3, <1>5, <1>6, <1>7, <1>8, <1>9
  DEF WorkerSteps, Listings, ListTranscript, ListTranslation, ListPhase4, GuardPasses,
      GuardReads, Enter, StageRead, StageStops, ReportPhase4, ProgressRead, FailRead,
      WorkerExit, WorkerRestart, WorkerStop, WorkerCrash, WorkerOnly, UnchangedTable
<1>11. UNCHANGED <<api, chooser>>
  BY DEF WorkerSteps, Listings, ListTranscript, ListTranslation, ListPhase4,
      WorkerFinalize, GuardPasses, GuardReads, GuardRejects, Enter, StageRead, StageStops,
      StageAdvance, ReportTranscription, ReportPhase4, ProgressRead, ProgressWrite,
      FailRead, FailWrite, AfterRun, WorkerExit, WorkerRestart, WorkerStop, WorkerCrash,
      WorkerOnly, WorkerAndTable
<1> QED BY <1>10, <1>11
-----------------------------------------------------------------------------
(* What a step of one process leaves true. *)

(* Row by row, what the API's and the worker's steps do. *)
LEMMA ApiRows ==
    ASSUME IInv, ApiTable, NEW k \in Jobs
    PROVE  /\ rows'[k] = rows[k] \/ (Move(rows[k], rows'[k]) /\ ApiRow(rows[k], rows'[k]))
           /\ pending'[k] => pending[k] \/ rows'[k].status \in Cancelled
BY DEF ApiTable, UnchangedTable, SetRow, IInv, TypeOK

(* The rows after a step of the worker: what it moves, and which marks     *)
(* and cancellations it settles.                                           *)
LEMMA WorkerRows ==
    ASSUME IInv, WorkerTable, NEW k \in Jobs
    PROVE  /\ rows'[k] = rows[k] \/ (Move(rows[k], rows'[k]) /\ WorkerRow(rows[k], rows'[k]))
           /\ pending'[k] => pending[k]
           /\ rows'[k].status = "CANCELLING" =>
                \/ pending'[k] = pending[k]
                \/ worker'.at = "in" /\ worker'.job = k
           /\ rows[k].status = "CANCELLING" /\ rows'[k].status = "CANCELLED" =>
                worker.at \in {"finalize", "returned"}
BY DEF WorkerTable, UnchangedTable, SetRow, IInv, TypeOK

(* Whoever steps, the table stays one with a single heavy slot and marks   *)
(* on cancelled jobs only.                                                 *)
LEMMA TablePreserved ==
    ASSUME IInv, ApiTable \/ WorkerTable
    PROVE  /\ TableOK(Jobs, rows') /\ rows' \in [Jobs -> Row \cup {NoRow}]
           /\ pending' \in [Jobs -> BOOLEAN]
           /\ FlagOnlyWhileCancelling'
<1>1. CASE UnchangedTable
  BY <1>1 DEF UnchangedTable, IInv, TypeOK, FlagOnlyWhileCancelling
<1>2. ASSUME NEW j \in Jobs, NEW q \in Row, NEW flag \in BOOLEAN,
             SetRow(j, q, flag), Move(rows[j], q)
      PROVE  /\ TableOK(Jobs, rows') /\ rows' \in [Jobs -> Row \cup {NoRow}]
             /\ pending' \in [Jobs -> BOOLEAN]
  <2>1. TableOK(Jobs, rows')
    BY <1>2, TableWritten DEF SetRow, IndexAllows, IInv
  <2> QED BY <1>2, <2>1 DEF TableOK, SetRow, IInv, TypeOK
<1>3. TableOK(Jobs, rows') /\ rows' \in [Jobs -> Row \cup {NoRow}]
      /\ pending' \in [Jobs -> BOOLEAN]
  BY <1>1, <1>2 DEF ApiTable, WorkerTable
<1>4. ASSUME NEW k \in Jobs, pending'[k] PROVE rows'[k].status \in Cancelled
  <2>1. pending[k] \/ rows'[k].status \in Cancelled
    BY <1>4, ApiRows, WorkerRows
  <2>2. rows[k].status \in Cancelled => rows'[k].status \in Cancelled
    BY ApiRows, WorkerRows DEF Move
  <2> QED BY <2>1, <2>2 DEF IInv, FlagOnlyWhileCancelling
<1> QED BY <1>3, <1>4 DEF FlagOnlyWhileCancelling

(* A step of the API leaves the worker right about its job. *)
LEMMA WorkerUndisturbed ==
    ASSUME IInv, ApiTable, UNCHANGED worker
    PROVE  WorkerSees' /\ DeathOnlyByCancel'
<1> DEFINE j == worker.job
           r == rows[j]
           q == rows'[j]
<1>1. ASSUME j \in Jobs
      PROVE  /\ r.status \in Cancelled => q.status \in Cancelled
             /\ r.status \in Terminal => q.status = r.status
             /\ q.status = "CANCELLING" => q.slot = r.slot
             /\ \/ q.status = r.status \/ q.status \in Cancelled
                \/ r.status \in {"absent", "NEEDS_LANGUAGE"} \cup Parked
  BY <1>1, ApiRows DEF Move, ApiRow
<1>2. DeathOnlyByCancel'
  BY <1>1, WorkerFields DEF DeathOnlyByCancel, IInv, TypeOK
<1>3. ASSUME worker.at \in Taken
      PROVE  q.status \in {r.status} \cup Cancelled
  <2>1. j \in Jobs /\ worker.stage \in Stages
        /\ r.status \in Accepts(worker.stage) \cup Cancelled
    BY <1>3, WorkerFields DEF IInv, TypeOK, WorkerSees
  <2>2. r.status \notin {"absent", "NEEDS_LANGUAGE"} \cup Parked
    BY <2>1, AcceptsRange, Names
  <2> QED BY <1>1, <2>1, <2>2
<1>4. ASSUME worker.at = "rejecting"
      PROVE  ReadHolds' /\ UNCHANGED worker
  <2>1. /\ j \in Jobs /\ r.status \in {worker.status} \cup Cancelled
        /\ worker.status \in (Live \ {"NEEDS_LANGUAGE"}) \cup Cancelled
    BY <1>4, WorkerFields DEF IInv, TypeOK, WorkerSees, ReadHolds
  <2>2. r.status \notin {"absent", "NEEDS_LANGUAGE"} \cup Parked
    BY <2>1, Names
  <2> QED BY <1>1, <2>1, <2>2 DEF ReadHolds
<1>5. WorkerSees'
  <2>1. worker.at \in HoldingSteps => worker.at \in Taken
    BY DEF Taken
  <2>2. /\ worker.at \in {"write", "failing", "progressing"} => worker.at \in HoldingSteps
        /\ worker.at \in HoldingSteps => worker.at # "rejecting"
    BY DEF HoldingSteps
  <2>3. worker.at \in Taken => j \in Jobs
    BY WorkerFields DEF IInv, TypeOK
  <2>4. q.status = "CANCELLING" /\ worker.at \in HoldingSteps => q.slot
    <3> SUFFICES ASSUME q.status = "CANCELLING", worker.at \in HoldingSteps PROVE q.slot
      OBVIOUS
    <3>1. q.slot = r.slot
      BY <1>1, <2>1, <2>3
    <3>2. r.status \in Live \cup {"CANCELLING"}
      BY <1>1, <1>3, <2>1, <2>3, WorkerFields, AcceptsRange, Names
      DEF IInv, TypeOK, WorkerSees
    <3> QED BY <2>1, <2>3, <3>1, <3>2, RowFacts, SlotOfRow DEF IInv, WorkerSees
  <2> QED
    BY <1>1, <1>3, <1>4, <2>1, <2>2, <2>3, <2>4 DEF IInv, WorkerSees, ReadHolds, Terminal, Cancelled
<1> QED BY <1>2, <1>5

(* A step of the worker leaves the request and the thread right about      *)
(* theirs. *)
LEMMA OthersUndisturbed ==
    ASSUME IInv, WorkerTable, UNCHANGED <<api, chooser>>
    PROVE  ApiSees' /\ ChooserSees'
<1>1. ASSUME NEW k \in Jobs
      PROVE  /\ rows[k].status \in Parked => rows'[k].status = rows[k].status
             /\ rows[k].status = "NEEDS_LANGUAGE" => rows'[k].status = rows[k].status
             /\ rows[k].status \in Cancelled => rows'[k].status \in Cancelled
             /\ rows[k].status # "absent" => rows'[k].status # "absent"
             /\ pending'[k] => pending[k]
  <2>1. CASE rows'[k] = rows[k]
    BY <2>1, WorkerRows
  <2>2. CASE rows'[k] # rows[k]
    <3>1. Move(rows[k], rows'[k]) /\ WorkerRow(rows[k], rows'[k]) /\ (pending'[k] => pending[k])
      BY <2>2, WorkerRows
    <3>2. rows'[k].status # "absent"
      BY <3>1, Names DEF Move, RowOK, Row
    <3> QED BY <3>1, <3>2, Names DEF Move, WorkerRow
  <2> QED BY <2>1, <2>2
<1>2. ApiSees'
  BY <1>1, ApiFields DEF IInv, TypeOK, ApiSees
<1>3. ChooserSees'
  BY <1>1, ChooserFields DEF IInv, TypeOK, ChooserSees
<1> QED BY <1>2, <1>3
-----------------------------------------------------------------------------
(* The worker's own steps. *)
WorkerGood == worker \in WorkerStates /\ WorkerSees /\ DeathOnlyByCancel

(* At these places the worker relies on no read. *)
LEMMA Forgets ==
    ASSUME \/ \E p \in {"list", "list2", "list3", "down"} : worker' = WorkerAt(p)
           \/ \E j \in Jobs : worker' \in {Returned(j), [at |-> "finalize", job |-> j]}
           \/ \E j \in Jobs : worker' = Dead(j) /\ rows'[j].status \in Cancelled
    PROVE  WorkerGood'
BY DEF WorkerAt, Returned, Dead, WorkerGood, WorkerStates, WorkerSees, DeathOnlyByCancel,
   Taken, HoldingSteps

(* The worker inside a stage. *)
LEMMA Holds ==
    ASSUME NEW p \in HoldingSteps, NEW j \in Jobs, NEW stage \in Stages,
           NEW status \in Statuses, NEW step \in StepsOf(stage), NEW rewrites \in 0..MaxRewrites,
           worker' = InRun(p, j, stage, status, FALSE, step, rewrites),
           rows'[j].status \in Accepts(stage) \cup Cancelled,
           rows'[j].status = "CANCELLING" => rows'[j].slot,
           step # "start" => rows'[j].status \in {step} \cup Cancelled,
           p \in {"write", "failing", "progressing"} =>
               rows'[j].status \in {status} \cup Cancelled,
           p \in {"write", "failing"} => status \in Accepts(stage),
           p = "progressing" =>
               /\ status \in Accepts(stage) \cup Cancelled
               /\ status = "CANCELLED" => rows'[j].status = "CANCELLED"
    PROVE  WorkerGood'
<1>1. worker' \in [at : HoldingSteps, job : Jobs, stage : Stages, status : Statuses,
                   flag : BOOLEAN, step : Steps, rewrites : 0..MaxRewrites]
  <2>1. step \in Steps
    BY DEF StepsOf, Stages, Steps, OfflineRunning
  <2> QED BY <2>1 DEF InRun
<1>2. worker'.at = p /\ worker'.job = j /\ worker'.stage = stage /\ worker'.status = status
      /\ worker'.flag = FALSE /\ worker'.step = step
  BY DEF InRun
<1>3. p \notin {"rejecting", "dead"}
  BY DEF HoldingSteps
<1>4. WorkerSees'
  BY <1>2, <1>3 DEF WorkerSees, ReadHolds
<1> QED BY <1>1, <1>2, <1>3, <1>4 DEF WorkerGood, WorkerStates, DeathOnlyByCancel

(* What the worker holds inside a stage, unfolded. *)
LEMMA Holding ==
    ASSUME IInv, worker.at \in HoldingSteps
    PROVE  LET r == rows[worker.job] IN
           /\ worker = InRun(worker.at, worker.job, worker.stage, worker.status, FALSE,
                             worker.step, worker.rewrites)
           /\ worker.job \in Jobs /\ worker.stage \in Stages
           /\ worker.status \in Statuses /\ worker.rewrites \in 0..MaxRewrites
           /\ worker.step \in StepsOf(worker.stage) /\ worker.flag = FALSE
           /\ r.status \in Accepts(worker.stage) \cup Cancelled
           /\ r.status = "CANCELLING" => r.slot
           /\ worker.step # "start" => r.status \in {worker.step} \cup Cancelled
           /\ r.status \in Statuses
           /\ r.status \notin Cancelled => pending[worker.job] = FALSE
<1>1. worker \in [at : HoldingSteps, job : Jobs, stage : Stages, status : Statuses,
                  flag : BOOLEAN, step : Steps, rewrites : 0..MaxRewrites]
  BY WorkerFields DEF IInv, TypeOK
<1>2. WorkerSees /\ worker.at \in Taken
  BY DEF IInv, Taken
<1>3. rows[worker.job].status \notin Cancelled => pending[worker.job] = FALSE
  BY <1>1, RowFacts DEF IInv, FlagOnlyWhileCancelling
<1>4. rows[worker.job].status \in Statuses
  BY <1>1, <1>2, AcceptsRange, Names DEF WorkerSees
<1>5. worker = InRun(worker.at, worker.job, worker.stage, worker.status, FALSE,
                     worker.step, worker.rewrites)
  BY <1>1, <1>2 DEF WorkerSees, InRun
<1> QED BY <1>1, <1>2, <1>3, <1>4, <1>5 DEF WorkerSees

(* What the worker knows after the steps between stages.                   *)
LEMMA WorkerListStep ==
    ASSUME IInv, \/ Listings \/ WorkerFinalize \/ GuardPasses \/ GuardReads \/ GuardRejects
                 \/ Enter \/ AfterRun \/ WorkerExit \/ WorkerRestart
                 \/ WorkerStop \/ WorkerCrash
    PROVE  WorkerGood'
<1>1. ASSUME NEW stage \in Stages, NEW j \in Jobs, UNCHANGED rows,
             rows[j].status \in Accepts(stage) \cup Cancelled,
             \/ worker' = Listed(stage, j)
             \/ worker' = [at |-> "enter", job |-> j, stage |-> stage]
      PROVE  WorkerGood'
  BY <1>1 DEF WorkerGood, WorkerStates, WorkerSees, DeathOnlyByCancel, Listed, Taken, HoldingSteps
<1>2. CASE ListTranscript
  <2>1. UNCHANGED rows
    BY <1>2 DEF ListTranscript, WorkerOnly
  <2>2. \/ worker' = WorkerAt("list2")
        \/ \E j \in ToTranscribe :
             \/ worker' = [at |-> "finalize", job |-> j]
             \/ rows[j].status # "CANCELLING" /\ worker' = Listed("transcript", j)
    BY <1>2 DEF ListTranscript
  <2> QED BY <1>1, <2>1, <2>2, Forgets DEF ToTranscribe, Stages, Accepts
<1>3. CASE ListTranslation
  <2>1. UNCHANGED rows
    BY <1>3 DEF ListTranslation, WorkerOnly
  <2>2. \/ worker' = WorkerAt("list3")
        \/ \E j \in Jobs : rows[j].status \in TranslationQueue /\ worker' = Listed("translation", j)
    BY <1>3 DEF ListTranslation
  <2> QED BY <1>1, <2>1, <2>2, Forgets DEF Stages, Accepts
<1>4. CASE ListPhase4
  <2>1. UNCHANGED rows
    BY <1>4 DEF ListPhase4, WorkerOnly
  <2>2. \/ worker' = WorkerAt("list")
        \/ \E j \in Jobs : rows[j].status \in Phase4Queue /\ worker' = Listed("phase4", j)
    BY <1>4 DEF ListPhase4
  <2> QED BY <1>1, <2>1, <2>2, Forgets DEF Stages, Accepts
<1>5. CASE WorkerFinalize \/ GuardRejects \/ AfterRun \/ WorkerExit \/ WorkerRestart \/ WorkerCrash
  BY <1>5, Forgets DEF WorkerFinalize, GuardRejects, AfterRun, WorkerExit, WorkerRestart, WorkerCrash
<1>6. CASE GuardPasses
  <2>1. /\ worker.job \in Jobs /\ worker.stage \in Stages /\ UNCHANGED rows
        /\ worker' = [at |-> "enter", job |-> worker.job, stage |-> worker.stage]
        /\ rows[worker.job].status \in Accepts(worker.stage) \cup Cancelled
    BY <1>6, WorkerFields DEF GuardPasses, WorkerOnly, IInv, TypeOK, WorkerSees, Taken
  <2> QED BY <1>1, <2>1
<1>7. CASE GuardReads
  <2>1. /\ worker.job \in Jobs /\ worker.stage \in Stages /\ UNCHANGED rows
        /\ rows[worker.job].status \in Accepts(worker.stage) \cup Cancelled
    BY <1>7, WorkerFields DEF GuardReads, WorkerOnly, IInv, TypeOK, WorkerSees, Taken
  <2>2. /\ worker'.at = "rejecting" /\ worker'.job = worker.job
        /\ worker'.status = rows[worker.job].status /\ worker'.flag = pending[worker.job]
        /\ worker' = [at |-> "rejecting", job |-> worker.job, flag |-> pending[worker.job],
                      status |-> rows[worker.job].status]
    BY <1>7 DEF GuardReads
  <2>3. /\ rows[worker.job].status \in Statuses
        /\ rows[worker.job].status \in (Live \ {"NEEDS_LANGUAGE"}) \cup Cancelled
        /\ pending[worker.job] \in BOOLEAN
        /\ pending[worker.job] => rows[worker.job].status \in Cancelled
    BY <2>1, RowFacts, AcceptsRange, Names DEF IInv, FlagOnlyWhileCancelling
  <2>4. worker' \in WorkerStates
    BY <2>1, <2>2, <2>3 DEF WorkerStates
  <2>5. WorkerSees' /\ DeathOnlyByCancel'
    BY <2>1, <2>2, <2>3 DEF WorkerSees, DeathOnlyByCancel, ReadHolds, Taken, HoldingSteps
  <2> QED BY <2>4, <2>5 DEF WorkerGood
<1>8. CASE Enter
  <2>1. /\ worker.job \in Jobs /\ worker.stage \in Stages /\ UNCHANGED rows
        /\ rows[worker.job].status \in Accepts(worker.stage) \cup Cancelled
    BY <1>8, WorkerFields DEF Enter, WorkerOnly, IInv, TypeOK, WorkerSees, Taken
  <2>2. \/ worker' = Returned(worker.job)
        \/ /\ rows[worker.job].status \in Accepts(worker.stage)
           /\ worker' = InRun("in", worker.job, worker.stage, rows[worker.job].status,
                              pending[worker.job], "start", 0)
    BY <1>8, <2>1 DEF Enter
  <2>3. CASE worker' = Returned(worker.job)
    BY <2>1, <2>3, Forgets
  <2>4. CASE worker' # Returned(worker.job)
    <3>1. rows[worker.job].status \in Accepts(worker.stage)
      BY <2>2, <2>4
    <3>2. rows[worker.job].status \in Statuses \ Cancelled
      BY <2>1, <3>1, AcceptsRange
    <3>3. pending[worker.job] = FALSE
      BY <2>1, <3>2, RowFacts DEF IInv, FlagOnlyWhileCancelling
    <3>4. "in" \in HoldingSteps /\ "start" \in StepsOf(worker.stage) /\ 0 \in 0..MaxRewrites
      BY <2>1, BoundsAssumption DEF HoldingSteps, StepsOf, Stages
    <3>5. worker' = InRun("in", worker.job, worker.stage, rows[worker.job].status,
                          FALSE, "start", 0)
      BY <2>2, <2>4, <3>3
    <3> QED BY <2>1, <3>1, <3>2, <3>4, <3>5, Holds, Names
  <2> QED BY <2>3, <2>4
<1>9. CASE WorkerStop
  BY <1>9 DEF WorkerStop, IInv, TypeOK, WorkerGood, WorkerSees, ReadHolds, DeathOnlyByCancel
<1> QED
  BY <1>2, <1>3, <1>4, <1>5, <1>6, <1>7, <1>8, <1>9 DEF Listings
(* What the worker knows after the steps inside a stage.                   *)
LEMMA WorkerStageStep ==
    ASSUME IInv, \/ StageRead \/ StageStops \/ StageAdvance \/ ReportTranscription
                 \/ ReportPhase4 \/ ProgressRead \/ ProgressWrite \/ FailRead \/ FailWrite
    PROVE  WorkerGood'
<1> DEFINE j == worker.job
           r == rows[j]
           At(p, status, step, rewrites) ==
               InRun(p, j, worker.stage, status, FALSE, step, rewrites)
<1>1. worker.at \in HoldingSteps
  BY DEF StageRead, StageStops, StageAdvance, ReportTranscription, ReportPhase4,
     ProgressRead, ProgressWrite, FailRead, FailWrite, HoldingSteps
<1>2. /\ worker = At(worker.at, worker.status, worker.step, worker.rewrites)
      /\ j \in Jobs /\ worker.stage \in Stages /\ worker.status \in Statuses
      /\ worker.rewrites \in 0..MaxRewrites
      /\ worker.step \in StepsOf(worker.stage) /\ worker.flag = FALSE
      /\ r.status \in Accepts(worker.stage) \cup Cancelled
      /\ r.status = "CANCELLING" => r.slot
      /\ worker.step # "start" => r.status \in {worker.step} \cup Cancelled
      /\ r.status \in Statuses
      /\ r.status \notin Cancelled => pending[j] = FALSE
  BY <1>1, Holding
<1>3. /\ {"in", "write", "progress", "progressing", "failing"} \subseteq HoldingSteps
      /\ {"in", "progress"} \cap {"write", "failing", "progressing"} = {}
      /\ {"write", "failing"} \cap {"progressing"} = {}
  BY DEF HoldingSteps
<1>4. ASSUME worker' = Returned(j) \/ (worker' = Dead(j) /\ rows'[j].status \in Cancelled)
      PROVE  WorkerGood'
  BY <1>2, <1>4, Forgets
<1>5. CASE StageRead \/ FailRead
  <2>1. UNCHANGED rows
    BY <1>5 DEF StageRead, FailRead, WorkerOnly
  <2>2. CASE r.status \in Cancelled
    BY <1>4, <1>5, <2>2 DEF StageRead, FailRead
  <2>3. CASE r.status \notin Cancelled
    <3>1. PICK p \in {"write", "failing"} : worker' = At(p, r.status, worker.step, worker.rewrites)
      BY <1>2, <1>5, <2>3 DEF StageRead, FailRead, InRun
    <3>2. /\ p \in HoldingSteps /\ p # "progressing" /\ rows'[j] = r
          /\ r.status \in Accepts(worker.stage) /\ r.status # "CANCELLING"
      BY <1>2, <1>3, <2>1, <2>3, Names
    <3>3. /\ r.status \in Accepts(worker.stage) \cup Cancelled
          /\ r.status \in {r.status} \cup Cancelled
      BY <3>2
    <3> QED BY <1>2, <3>1, <3>2, <3>3, Holds
  <2> QED BY <2>2, <2>3
<1>6. CASE StageStops
  BY <1>4, <1>6 DEF StageStops
<1>7. CASE ReportPhase4
  <2>1. UNCHANGED rows /\ worker' = At("progress", r.status, worker.step, worker.rewrites)
    BY <1>2, <1>7 DEF ReportPhase4, WorkerOnly, InRun
  <2>2. /\ "progress" \in HoldingSteps \ {"write", "failing"}
        /\ rows'[j] = r /\ r.status \in {r.status} \cup Cancelled
    BY <1>3, <2>1
  <2> HIDE DEF At
  <2>3. worker' = InRun("progress", j, worker.stage, r.status, FALSE, worker.step, worker.rewrites)
    BY <2>1 DEF At
  <2> QED BY <1>2, <2>2, <2>3, Holds
<1>8. CASE ProgressRead
  <2>1. UNCHANGED rows /\ worker' = At("progressing", r.status, worker.step, worker.rewrites)
    BY <1>2, <1>8 DEF ProgressRead, WorkerOnly, InRun
  <2>2. /\ "progressing" \in HoldingSteps \ {"write", "failing"}
        /\ rows'[j] = r /\ r.status \in {r.status} \cup Cancelled
    BY <1>3, <2>1
  <2> HIDE DEF At
  <2>3. worker' = InRun("progressing", j, worker.stage, r.status, FALSE, worker.step, worker.rewrites)
    BY <2>1 DEF At
  <2> QED BY <1>2, <2>2, <2>3, Holds
<1>9. CASE StageAdvance
  <2>1. worker.at = "write" /\ worker.status \in Accepts(worker.stage)
        /\ r.status \in {worker.status} \cup Cancelled
    BY <1>9 DEF StageAdvance, IInv, WorkerSees, ReadHolds
  <2>2. worker.status \notin Cancelled
    BY <1>2, <2>1, AcceptsRange
  <2> DEFINE rewrites(s) == IF worker.step = "TIMING" /\ s = "SYNTHESIZING"
                            THEN worker.rewrites + 1 ELSE worker.rewrites
  <2>3. PICK s \in NextStatus(worker.stage, worker.status) :
          \/ /\ s = worker.status /\ UNCHANGED rows
             /\ worker' = [worker EXCEPT !.at = "progress", !.step = s, !.rewrites = rewrites(s)]
          \/ /\ s # worker.status
             /\ Unmoved(j, s) /\ MayBecome(r, s, Forced(worker.stage, worker.status, s))
             /\ SetRow(j, UpdatedRow(r, s, FALSE, r.cancel), worker.flag)
             /\ worker' = IF s = EndOf(worker.stage) THEN Returned(j)
                          ELSE [worker EXCEPT !.at = "in", !.step = s, !.status = s,
                                              !.rewrites = rewrites(s)]
          \/ /\ s # worker.status /\ UNCHANGED rows
             /\ ~(Unmoved(j, s) /\ MayBecome(r, s, Forced(worker.stage, worker.status, s)))
             /\ worker' = AfterRefusal(j)
    BY <1>9 DEF StageAdvance, UnchangedTable
  <2>4. CASE r.status \in Cancelled /\ UNCHANGED rows /\ worker' = AfterRefusal(j)
    BY <1>4, <2>4 DEF AfterRefusal
  <2>5. rewrites(s) \in 0..MaxRewrites
    <3>1. CASE worker.step = "TIMING" /\ s = "SYNTHESIZING"
      <4>1. worker.stage = "phase4"
        BY <1>2, <3>1 DEF StepsOf, Stages
      <4>2. worker.rewrites < MaxRewrites
        BY <2>3, <3>1, <4>1 DEF NextStatus, Phase4After
      <4> QED BY <1>2, <3>1, <4>2, BoundsAssumption
    <3>2. CASE ~(worker.step = "TIMING" /\ s = "SYNTHESIZING")
      BY <1>2, <3>2
    <3> QED BY <3>1, <3>2
  <2>6. CASE r.status = worker.status
    <3>1. /\ s \in Statuses \ Cancelled
          /\ s # EndOf(worker.stage) =>
               s \in Accepts(worker.stage) /\ s \in StepsOf(worker.stage) \ {"start"}
          /\ s = "COMPLETED" => worker.status = "VERIFYING"
          /\ \/ Forced(worker.stage, worker.status, s)
             \/ s \in Transitions(worker.status) \/ s = worker.status
      BY <1>2, <2>1, <2>2, <2>6, NextStatusRange
    <3>2. Unmoved(j, s) /\ MayBecome(r, s, Forced(worker.stage, worker.status, s))
      BY <2>6, <3>1 DEF Unmoved, MayBecome
    <3>3. EndOf(worker.stage) \notin Accepts(worker.stage)
      BY <1>2 DEF EndOf, Accepts, TranscriptQueue, TranslationQueue, Phase4Queue, Stages
    <3>4. CASE s = worker.status
      <4>1. UNCHANGED rows /\ worker' = At("progress", worker.status, s, rewrites(s))
        BY <1>2, <2>3, <3>4 DEF InRun
      <4>2. s \in StepsOf(worker.stage)
        BY <2>1, <3>1, <3>3, <3>4
      <4> QED BY <1>2, <1>3, <2>5, <2>6, <3>4, <4>1, <4>2, Holds
    <3>5. CASE s # worker.status
      <4>1. /\ SetRow(j, UpdatedRow(r, s, FALSE, r.cancel), worker.flag)
            /\ worker' = IF s = EndOf(worker.stage) THEN Returned(j)
                         ELSE [worker EXCEPT !.at = "in", !.step = s, !.status = s,
                                             !.rewrites = rewrites(s)]
        BY <2>3, <3>2, <3>5
      <4>2. CASE s = EndOf(worker.stage)
        BY <1>4, <4>1, <4>2
      <4>3. CASE s # EndOf(worker.stage)
        <5>1. worker' = At("in", s, s, rewrites(s))
          BY <1>2, <4>1, <4>3 DEF InRun
        <5>2. rows'[j].status = s
          BY <1>2, <4>1 DEF SetRow, UpdatedRow, IInv, TypeOK
        <5>3. s # "CANCELLING"
          BY <3>1, Names
        <5>4. /\ rows'[j].status \in Accepts(worker.stage) \cup Cancelled
              /\ rows'[j].status = "CANCELLING" => rows'[j].slot
              /\ rows'[j].status \in {s} \cup Cancelled
          BY <3>1, <4>3, <5>2, <5>3
        <5>5. "in" \in HoldingSteps /\ s \in StepsOf(worker.stage) /\ s \in Statuses
              /\ "in" \notin {"write", "failing", "progressing"}
          BY <1>3, <3>1, <4>3
        <5> QED BY <1>2, <2>5, <5>1, <5>4, <5>5, Holds
      <4> QED BY <4>2, <4>3
    <3> QED BY <3>4, <3>5
  <2>7. CASE r.status # worker.status
    <3>1. r.status \in Cancelled
      BY <2>1, <2>7
    <3>2. CASE s = worker.status
      <4>1. UNCHANGED rows /\ worker' = At("progress", worker.status, s, rewrites(s))
        BY <1>2, <2>3, <3>2 DEF InRun
      <4>2. s \in StepsOf(worker.stage)
        BY <1>2, <2>1, <3>2, NextStepKnown
      <4> QED BY <1>2, <1>3, <2>5, <3>1, <4>1, <4>2, Holds
    <3>3. CASE s # worker.status
      <4>1. ~Unmoved(j, s)
        BY <2>7, <3>1, Names DEF Unmoved, Cancelled
      <4> QED BY <2>3, <2>4, <3>1, <3>3, <4>1
    <3> QED BY <3>2, <3>3
  <2> QED BY <2>6, <2>7
<1>10. CASE ReportTranscription
  <2>1. CASE r.status # "TRANSCRIBING"
    <3>1. worker.at = "write" /\ worker.status = "TRANSCRIBING" /\ worker' = AfterRefusal(j)
          /\ UNCHANGED rows
      BY <1>10, <2>1 DEF ReportTranscription, UnchangedTable
    <3>2. r.status \in Cancelled
      BY <2>1, <3>1 DEF IInv, WorkerSees, ReadHolds
    <3> QED BY <1>4, <3>1, <3>2 DEF AfterRefusal
  <2>2. CASE r.status = "TRANSCRIBING"
    <3>1. /\ SetRow(j, UpdatedRow(r, "TRANSCRIBING", FALSE, r.cancel), worker.flag)
          /\ worker' = At("in", worker.status, worker.step, worker.rewrites)
      BY <1>2, <1>10, <2>2 DEF ReportTranscription, InRun
    <3>2. rows'[j].status = r.status /\ r.status # "CANCELLING"
      BY <1>2, <2>2, <3>1 DEF SetRow, UpdatedRow, IInv, TypeOK
    <3> QED BY <1>2, <1>3, <3>1, <3>2, Holds
  <2> QED BY <2>1, <2>2
<1>11. CASE ProgressWrite
  <2>1. CASE ~MayBecome(r, worker.status, FALSE)
    <3>1. worker.at = "progressing" /\ worker' \in {AfterRefusal(j), Dead(j)} /\ UNCHANGED rows
      BY <1>11, <2>1 DEF ProgressWrite, UnchangedTable
    <3>2. r.status \in Cancelled
      BY <2>1, <3>1 DEF IInv, WorkerSees, ReadHolds, MayBecome
    <3> QED BY <1>4, <3>1, <3>2 DEF AfterRefusal
  <2>2. CASE MayBecome(r, worker.status, FALSE)
    <3>1. /\ worker.at = "progressing"
          /\ SetRow(j, UpdatedRow(r, worker.status, FALSE, r.cancel), worker.flag)
          /\ worker' = At("in", worker.status, worker.step, worker.rewrites)
      BY <1>2, <1>11, <2>2 DEF ProgressWrite, InRun
    <3>2. r.status = worker.status
      BY <1>2, <2>2, <3>1, SameStatus
    <3>3. rows'[j].status = r.status /\ (r.status = "CANCELLING" => rows'[j].slot = r.slot)
      BY <1>2, <3>1, <3>2 DEF SetRow, UpdatedRow, SlotAfter, IInv, TypeOK
    <3> QED BY <1>2, <1>3, <3>1, <3>3, Holds
  <2> QED BY <2>1, <2>2
<1>12. CASE FailWrite
  <2>1. CASE r.status = worker.status
    BY <1>4, <1>12, <2>1 DEF FailWrite
  <2>2. CASE r.status # worker.status
    <3>1. worker.at = "failing" /\ worker' = Dead(j) /\ UNCHANGED rows
      BY <1>12, <2>2 DEF FailWrite, UnchangedTable
    <3>2. r.status \in Cancelled
      BY <2>2, <3>1 DEF IInv, WorkerSees, ReadHolds
    <3> QED BY <1>4, <3>1, <3>2
  <2> QED BY <2>1, <2>2
<1> QED BY <1>5, <1>6, <1>7, <1>8, <1>9, <1>10, <1>11, <1>12
-----------------------------------------------------------------------------
(* The steps of the API process. *)
ApiGood == api \in ApiStates /\ ApiSees
ChooserGood == chooser \in ChooserStates /\ ChooserSees

(* What a request knows after the steps of the API.                        *)
LEMMA ApiStep ==
    ASSUME IInv, User \/ Api \/ ChooseWrite \/ ApiCrash
    PROVE  ApiGood'
<1> USE DEF IInv, TypeOK
<1>1. ASSUME api' \in {ApiIdle, ApiDown} PROVE ApiGood'
  BY <1>1 DEF ApiGood, ApiStates, ApiSees, ApiIdle, ApiDown
<1>2. ASSUME NEW j \in Jobs, CreateReadyOffline(j) PROVE ApiGood'
  BY <1>2 DEF CreateReadyOffline, ApiGood, ApiSees
<1>3. ASSUME NEW j \in Jobs, CancelRead(j) PROVE ApiGood'
  <2>1. CancelBranch(j) \in {"running", "idle", "other"}
        /\ (CancelBranch(j) = "other" => ~pending[j])
    BY DEF CancelBranch
  <2>2. api' \in [at : {"requesting", "marking", "finalizing"}, job : Jobs,
                  branch : {"running", "idle", "other", "refused"}]
    BY <1>3, <2>1 DEF CancelRead
  <2>3. ApiSees'
    BY <1>3, <2>1, Names DEF CancelRead, ApiSees
  <2> QED BY <2>2, <2>3 DEF ApiGood, ApiStates
<1>4. ASSUME NEW j \in Jobs, ResumeRead(j) PROVE ApiGood'
  <2>1. rows[j].previous \in Live \cup {"PAUSED"}
    BY <1>4, RowFacts, Names DEF ResumeRead, RowOK
  <2>2. ResumeTarget(rows[j].previous) \in Live
    BY <2>1, Names DEF ResumeTarget, Live, Active, Cancelled, Parked
  <2>3. api' \in [at : {"resuming"}, job : Jobs, status : Parked, target : Live]
    BY <1>4, <2>2 DEF ResumeRead
  <2>4. ApiSees'
    BY <1>4 DEF ResumeRead, ApiSees
  <2> QED BY <2>3, <2>4 DEF ApiGood, ApiStates
<1>5. ASSUME NEW j \in Jobs, ResumeCancelling(j) PROVE ApiGood'
  BY <1>5 DEF ResumeCancelling, ApiGood, ApiStates, ApiSees
<1>6. ASSUME NEW j \in Jobs, ChooseRead(j) PROVE ApiGood'
  BY <1>6 DEF ChooseRead, ApiGood, ApiSees
<1>7. ASSUME CancelRequest PROVE ApiGood'
  <2>1. api \in [at : {"requesting", "marking", "finalizing"}, job : Jobs,
                 branch : {"running", "idle", "other", "refused"}]
    BY <1>7, ApiFields DEF CancelRequest
  <2>2. CASE api' = ApiIdle
    BY <1>1, <2>2
  <2>3. CASE api' # ApiIdle
    <3>1. PICK p \in {"marking", "finalizing"} :
              api' = [api EXCEPT !.at = p] /\ (p = "finalizing" => api.branch # "running")
      BY <1>7, <2>3 DEF CancelRequest
    <3>2. pending'[api.job] = pending[api.job]
      BY <1>7, <2>1, <2>3 DEF CancelRequest, SetRow, UnchangedTable
    <3>3. api' \in [at : {"requesting", "marking", "finalizing"}, job : Jobs,
                    branch : {"running", "idle", "other", "refused"}]
      BY <2>1, <3>1
    <3>4. api'.at = p /\ api'.job = api.job /\ api'.branch = api.branch
      BY <2>1, <3>1
    <3>5. ApiSees'
      BY <1>7, <3>1, <3>2, <3>4 DEF ApiSees, CancelRequest
    <3> QED BY <3>3, <3>5 DEF ApiGood, ApiStates
  <2> QED BY <2>2, <2>3
<1>8. ASSUME CancelMark \/ CancelFinalize \/ ResumeWrite \/ ApiCrash PROVE ApiGood'
  BY <1>1, <1>8 DEF CancelMark, CancelFinalize, ResumeWrite, ApiCrash
<1>9. ASSUME ApiStart PROVE ApiGood'
  BY <1>9 DEF ApiStart, ApiGood, ApiStates, ApiSees
<1>10. ASSUME ApiReconcile PROVE ApiGood'
  <2>1. api \in [at : {"starting"}, todo : SUBSET Jobs]
    BY <1>10, ApiFields DEF ApiReconcile
  <2>2. CASE api' = ApiIdle
    BY <1>1, <2>2
  <2>3. CASE api' # ApiIdle
    <3>1. PICK j \in Jobs : api' = [api EXCEPT !.todo = @ \ {j}]
      BY <1>10, <2>1, <2>3 DEF ApiReconcile
    <3>2. api' \in [at : {"starting"}, todo : SUBSET Jobs]
      BY <2>1, <3>1
    <3> QED BY <3>2 DEF ApiGood, ApiStates, ApiSees
  <2> QED BY <2>2, <2>3
<1>11. ASSUME ChooseWrite PROVE ApiGood'
  <2> DEFINE j == chooser.job
  <2>1. j \in Jobs /\ chooser.flag = FALSE
    BY <1>11, ChooserFields DEF ChooseWrite, ChooserSees
  <2>2. \A k \in Jobs :
          \/ rows'[k] = rows[k] /\ pending'[k] = pending[k]
          \/ /\ rows[k].status = "NEEDS_LANGUAGE" /\ rows'[k].status = "TRANSCRIBING"
             /\ pending'[k] = FALSE
    BY <1>11, <2>1 DEF ChooseWrite, SetRow, UnchangedTable, UpdatedRow
  <2>3. UNCHANGED api
    BY <1>11 DEF ChooseWrite
  <2>4. ApiSees'
    BY <2>2, <2>3, ApiFields, Names DEF ApiSees
  <2> QED BY <2>3, <2>4 DEF ApiGood
<1> QED
  BY <1>2, <1>3, <1>4, <1>5, <1>6, <1>7, <1>8, <1>9, <1>10, <1>11 DEF User, Api

(* What a choice of language knows after the steps of the API.             *)
LEMMA ChooserStep ==
    ASSUME IInv, User \/ Api \/ ChooseWrite \/ ApiCrash
    PROVE  ChooserGood'
<1> USE DEF IInv, TypeOK
<1>1. ASSUME NEW j \in Jobs, ChooseRead(j) PROVE ChooserGood'
  <2>1. pending[j] = FALSE /\ UNCHANGED rows /\ rows[j].status = "NEEDS_LANGUAGE"
    BY <1>1, RowFacts, Names DEF ChooseRead, FlagOnlyWhileCancelling
  <2> QED BY <1>1, <2>1 DEF ChooseRead, ChooserGood, ChooserStates, ChooserSees
<1>2. ASSUME ChooseWrite \/ ApiCrash PROVE ChooserGood'
  <2>1. chooser' = ChooserIdle
    BY <1>2 DEF ChooseWrite, ApiCrash
  <2>2. ChooserIdle.at # "writing"
    BY DEF ChooserIdle
  <2> QED BY <2>1, <2>2 DEF ChooserGood, ChooserStates, ChooserSees
<1>3. ASSUME UNCHANGED chooser,
             \A k \in Jobs : \/ rows'[k].status = rows[k].status
                            \/ rows'[k].status \in Cancelled
                            \/ rows[k].status \in {"absent"} \cup Parked
      PROVE  ChooserGood'
  BY <1>3, ChooserFields, Names DEF ChooserGood, ChooserSees
<1>4. ASSUME NEW j \in Jobs, FinalizeCancel(j), UNCHANGED chooser PROVE ChooserGood'
  <2>1. \A k \in Jobs : rows'[k] = rows[k] \/ rows'[k].status \in Cancelled
    BY <1>4, FinalizeMoves, Names DEF SetRow, UnchangedTable
  <2> QED BY <1>3, <1>4, <2>1
<1>5. ASSUME NEW j \in Jobs, CreateReadyOffline(j) PROVE ChooserGood'
  <2>1. \A k \in Jobs : rows'[k] = rows[k] \/ rows[k].status = "absent"
    BY <1>5, NoRowIsNoRow DEF CreateReadyOffline, SetRow
  <2> QED BY <1>3, <1>5, <2>1 DEF CreateReadyOffline
<1>6. ASSUME CancelRequest PROVE ChooserGood'
  <2>1. \A k \in Jobs : rows'[k] = rows[k] \/ rows'[k].status \in Cancelled
    BY <1>6, ApiFields, Names DEF CancelRequest, SetRow, UnchangedTable, UpdatedRow
  <2> QED BY <1>3, <1>6, <2>1 DEF CancelRequest
<1>7. ASSUME CancelMark PROVE ChooserGood'
  <2>1. \A k \in Jobs : rows'[k] = rows[k] \/ rows'[k].status \in Cancelled
    BY <1>7, ApiFields, Names DEF CancelMark, SetRow, UnchangedTable, UpdatedRow
  <2> QED BY <1>3, <1>7, <2>1 DEF CancelMark
<1>8. ASSUME CancelFinalize PROVE ChooserGood'
  <2>1. api.job \in Jobs /\ UNCHANGED chooser
    BY <1>8, ApiFields DEF CancelFinalize
  <2> QED BY <1>3, <1>4, <1>8, <2>1 DEF CancelFinalize, UnchangedTable
<1>9. ASSUME ApiReconcile PROVE ChooserGood'
  <2>1. api.todo \subseteq Jobs /\ UNCHANGED chooser
    BY <1>9, ApiFields DEF ApiReconcile
  <2> QED BY <1>3, <1>4, <1>9, <2>1 DEF ApiReconcile, UnchangedTable
<1>10. ASSUME ResumeWrite PROVE ChooserGood'
  <2>1. \A k \in Jobs : rows'[k] = rows[k] \/ rows[k].status \in Parked
    BY <1>10, ApiFields DEF ResumeWrite, SetRow, UnchangedTable
  <2> QED BY <1>3, <1>10, <2>1 DEF ResumeWrite
<1>11. ASSUME UNCHANGED <<rows, chooser>> PROVE ChooserGood'
  BY <1>3, <1>11
<1>12. CASE User
  BY <1>1, <1>5, <1>11, <1>12 DEF User, CancelRead, ResumeRead, ResumeCancelling
<1>13. CASE Api
  BY <1>6, <1>7, <1>8, <1>9, <1>10, <1>11, <1>13 DEF Api, ApiStart
<1> QED BY <1>2, <1>12, <1>13
-----------------------------------------------------------------------------
(* A cancellation is never left alone. *)
Owned(j) ==
    \/ pending[j]
    \/ api.at \in {"requesting", "marking", "finalizing"} /\ api.job = j
    \/ api.at = "starting" /\ j \in api.todo
    \/ api.at = "down"
    \/ worker.at \in {"in", "returned"} /\ worker.job = j

(* No step of the worker leaves the job it had: the stage that looks at a  *)
(* cancelled job returns, and what has returned finalizes it. *)
LEMMA WorkerKeepsOwners ==
    ASSUME IInv, WorkerSteps \/ WorkerStop \/ WorkerCrash
    PROVE  OwnerKnown'
<1> USE DEF IInv, TypeOK
<1> SUFFICES ASSUME NEW j \in Jobs, rows'[j].status = "CANCELLING", WorkerNeverKilled'
             PROVE  Owned(j)'
  BY DEF OwnerKnown, Owned
<1>1. WorkerTable /\ UNCHANGED <<api, chooser>>
  BY WorkerTableStep
<1>2. rows[j].status = "CANCELLING"
  BY <1>1, WorkerRows, Names DEF WorkerRow
<1>3. WorkerNeverKilled /\ ~WorkerCrash
  <2>1. ~WorkerCrash
    BY BoundsAssumption DEF WorkerNeverKilled, WorkerCrash
  <2>2. crashes'.worker = crashes.worker
    BY <2>1 DEF WorkerSteps, Listings, ListTranscript, ListTranslation, ListPhase4,
      WorkerFinalize, GuardPasses, GuardReads, GuardRejects, Enter, StageRead, StageStops,
      StageAdvance, ReportTranscription, ReportPhase4, ProgressRead, ProgressWrite,
      FailRead, FailWrite, AfterRun, WorkerExit, WorkerRestart, WorkerStop,
      WorkerOnly, WorkerAndTable
  <2> QED BY <2>1, <2>2 DEF WorkerNeverKilled
<1>4. Owned(j)
  BY <1>2, <1>3 DEF OwnerKnown, Owned
<1>5. CASE pending[j]
  BY <1>1, <1>5, WorkerRows DEF Owned
<1>6. CASE ~(worker.at \in {"in", "returned"} /\ worker.job = j) /\ ~pending[j]
  BY <1>1, <1>4, <1>6 DEF Owned
<1>7. CASE worker.at = "in" /\ worker.job = j
  <2>1. StageRead \/ StageStops \/ FailRead \/ WorkerStop
    BY <1>2, <1>3, <1>7, Names DEF WorkerSteps, Listings, ListTranscript, ListTranslation, ListPhase4,
      WorkerFinalize, GuardPasses, GuardReads, GuardRejects, Enter,
      StageAdvance, ReportTranscription, ReportPhase4, ProgressRead, ProgressWrite,
      FailWrite, AfterRun, WorkerExit, WorkerRestart, Listing
  <2>2. \/ worker' = Returned(j) \/ worker' = worker
    BY <1>2, <1>7, <2>1, Names DEF StageRead, StageStops, FailRead, WorkerStop
  <2> QED BY <1>7, <2>2 DEF Owned, Returned
<1>8. CASE worker.at = "returned" /\ worker.job = j
  <2>1. AfterRun \/ WorkerStop
    BY <1>3, <1>8 DEF WorkerSteps, Listings, ListTranscript, ListTranslation, ListPhase4,
      WorkerFinalize, GuardPasses, GuardReads, GuardRejects, Enter, StageRead, StageStops,
      StageAdvance, ReportTranscription, ReportPhase4, ProgressRead, ProgressWrite,
      FailRead, FailWrite, WorkerExit, WorkerRestart, Listing
  <2>2. CASE AfterRun
    <3>1. FinalizeCancel(j)
      BY <1>8, <2>2 DEF AfterRun
    <3>2. rows'[j].status = "CANCELLED"
      BY <1>2, <3>1, FinalizeMoves DEF SetRow
    <3> QED BY <3>2
  <2>3. CASE WorkerStop
    BY <1>8, <2>3 DEF WorkerStop, Owned
  <2> QED BY <2>1, <2>2, <2>3
<1> QED BY <1>4, <1>5, <1>6, <1>7, <1>8 DEF Owned

(* A request ends only when it has marked or finalized the job, or found   *)
(* it marked; a starting API looks at every job that is being cancelled. *)
LEMMA ApiKeepsOwners ==
    ASSUME IInv, User \/ Api \/ ChooseWrite \/ ApiCrash
    PROVE  OwnerKnown'
<1> USE DEF IInv, TypeOK
<1> SUFFICES ASSUME NEW j \in Jobs, rows'[j].status = "CANCELLING", WorkerNeverKilled'
             PROVE  Owned(j)'
  BY DEF OwnerKnown, Owned
<1>1. ApiTable /\ UNCHANGED worker
  BY ApiTableStep
<1>2. WorkerNeverKilled
  BY DEF WorkerNeverKilled, User, CreateReadyOffline, CancelRead, ResumeRead, ResumeCancelling,
     ChooseRead, Api, CancelRequest, CancelMark, CancelFinalize, ResumeWrite, ApiStart,
     ApiReconcile, ChooseWrite, ApiCrash
<1>3. ASSUME NEW k \in Jobs, FinalizeCancel(k)
      PROVE  /\ k # j /\ rows'[j] = rows[j] /\ UNCHANGED pending
  <2>1. k # j
    BY <1>3, FinalizeMoves DEF SetRow, UnchangedTable
  <2> QED BY <1>3, <2>1, FinalizeMoves DEF SetRow, UnchangedTable
<1>4. ASSUME rows[j].status = "CANCELLING", pending'[j] = pending[j],
             \/ UNCHANGED api
             \/ api.at = "idle"
             \/ api.at = "resuming"
             \/ api'.at = "down"
             \/ api.at \in {"requesting", "marking", "finalizing"} /\ api.job # j
      PROVE  Owned(j)'
  BY <1>1, <1>2, <1>4 DEF OwnerKnown, Owned
<1>5. CASE User
  <2>1. rows'[j] = rows[j] /\ pending'[j] = pending[j]
    <3>1. ASSUME NEW k \in Jobs, CreateReadyOffline(k)
          PROVE  rows'[j] = rows[j] /\ pending'[j] = pending[j]
      <4>1. k = j => rows'[j].status = "READY_OFFLINE"
        BY <3>1 DEF CreateReadyOffline, SetRow, InsertedRow, NoRow
      <4> QED BY <3>1, <4>1 DEF CreateReadyOffline, SetRow
    <3> QED BY <1>5, <3>1 DEF User, CancelRead, ResumeRead, ResumeCancelling, ChooseRead
  <2>2. UNCHANGED api \/ api.at = "idle"
    BY <1>5 DEF User, CreateReadyOffline, CancelRead, ResumeRead, ResumeCancelling, ChooseRead
  <2> QED BY <1>4, <2>1, <2>2
<1>6. CASE CancelRequest
  <2>1. api \in [at : {"requesting", "marking", "finalizing"}, job : Jobs,
                 branch : {"running", "idle", "other", "refused"}]
    BY <1>6, ApiFields DEF CancelRequest
  <2>2. CASE api.job = j
    <3>1. PICK p \in {"marking", "finalizing"} : api' = [api EXCEPT !.at = p]
      <4>1. rows[j].status \in Terminal => rows' = rows
        BY <1>6, <2>2 DEF CancelRequest, UnchangedTable
      <4>2. rows[j].status \notin Terminal
        BY <4>1, Names
      <4> QED BY <1>6, <2>2, <4>2 DEF CancelRequest
    <3>2. api'.at = p /\ api'.job = j
      BY <2>1, <2>2, <3>1
    <3> QED BY <3>2 DEF Owned
  <2>3. CASE api.job # j
    <3>1. rows'[j] = rows[j] /\ pending'[j] = pending[j]
      BY <1>6, <2>1, <2>3 DEF CancelRequest, SetRow, UnchangedTable
    <3> QED BY <1>4, <1>6, <2>3, <3>1 DEF CancelRequest
  <2> QED BY <2>2, <2>3
<1>7. CASE CancelMark
  <2>1. api.job \in Jobs
    BY <1>7, ApiFields DEF CancelMark
  <2>2. CASE api.job = j
    BY <1>7, <2>1, <2>2 DEF CancelMark, SetRow, UnchangedTable, Owned
  <2>3. CASE api.job # j
    <3>1. rows'[j] = rows[j] /\ pending'[j] = pending[j]
      BY <1>7, <2>1, <2>3 DEF CancelMark, SetRow, UnchangedTable
    <3> QED BY <1>4, <1>7, <2>3, <3>1 DEF CancelMark
  <2> QED BY <2>2, <2>3
<1>8. CASE CancelFinalize
  <2>1. api.job \in Jobs
    BY <1>8, ApiFields DEF CancelFinalize
  <2>2. CASE LeftToWorker(api.branch, api.job) /\ api.job = j
    BY <1>8, <2>2 DEF CancelFinalize, LeftToWorker, UnchangedTable, Owned
  <2>3. CASE LeftToWorker(api.branch, api.job) /\ api.job # j
    BY <1>4, <1>8, <2>3 DEF CancelFinalize, UnchangedTable
  <2>4. CASE ~LeftToWorker(api.branch, api.job)
    <3>1. FinalizeCancel(api.job)
      BY <1>8, <2>4 DEF CancelFinalize
    <3>2. api.job # j /\ rows'[j] = rows[j] /\ UNCHANGED pending
      BY <1>3, <2>1, <3>1
    <3> QED BY <1>4, <1>8, <3>2 DEF CancelFinalize
  <2> QED BY <2>2, <2>3, <2>4
<1>9. CASE ResumeWrite
  <2>1. api.job \in Jobs /\ api.target \in Live
    BY <1>9, ApiFields DEF ResumeWrite
  <2>2. rows'[j] = rows[j] /\ pending'[j] = pending[j]
    BY <1>9, <2>1, Names DEF ResumeWrite, SetRow, UnchangedTable, UpdatedRow
  <2> QED BY <1>4, <1>9, <2>2 DEF ResumeWrite
<1>10. CASE ApiStart
  BY <1>10 DEF ApiStart, Owned
<1>11. CASE ApiReconcile
  <2>1. api \in [at : {"starting"}, todo : SUBSET Jobs]
    BY <1>11, ApiFields DEF ApiReconcile
  <2>2. CASE api.todo = {}
    <3>1. UNCHANGED <<rows, pending>>
      BY <1>11, <2>2 DEF ApiReconcile, UnchangedTable
    <3> QED BY <1>1, <1>2, <2>1, <2>2, <3>1 DEF OwnerKnown, Owned
  <2>3. CASE api.todo # {}
    <3>1. PICK k \in api.todo : FinalizeCancel(k) /\ api' = [api EXCEPT !.todo = @ \ {k}]
      BY <1>11, <2>3 DEF ApiReconcile
    <3>2. k # j /\ rows'[j] = rows[j] /\ UNCHANGED pending
      BY <1>3, <2>1, <3>1
    <3>3. api'.at = "starting" /\ api'.todo = api.todo \ {k}
      BY <2>1, <3>1
    <3> QED BY <1>1, <1>2, <2>1, <3>2, <3>3 DEF OwnerKnown, Owned
  <2> QED BY <2>2, <2>3
<1>12. CASE ChooseWrite
  <2>1. chooser.job \in Jobs
    BY <1>12, ChooserFields DEF ChooseWrite
  <2>2. rows'[j] = rows[j] /\ pending'[j] = pending[j] /\ UNCHANGED api
    BY <1>12, <2>1 DEF ChooseWrite, SetRow, UnchangedTable, UpdatedRow
  <2> QED BY <1>4, <2>2
<1>13. CASE ApiCrash
  BY <1>13 DEF ApiCrash, ApiDown, Owned
<1> QED
  BY <1>5, <1>6, <1>7, <1>8, <1>9, <1>10, <1>11, <1>12, <1>13 DEF Api
-----------------------------------------------------------------------------
(* The invariant holds of an empty table with nobody working.              *)
LEMMA InitEstablishes == Init => IInv
<1> SUFFICES ASSUME Init PROVE IInv
  OBVIOUS
<1> USE DEF Init
<1>1. TypeOK
  <2>1. api \in ApiStates /\ chooser \in ChooserStates /\ worker \in WorkerStates
    BY DEF ApiStates, ChooserStates, WorkerStates, WorkerAt
  <2>2. crashes \in [worker : 0..MaxCrashes, stop : 0..MaxStops, api : 0..MaxApiCrashes]
    BY BoundsAssumption
  <2> QED BY <2>1, <2>2 DEF TypeOK
<1>2. \A j \in Jobs : rows[j] = NoRow /\ ~pending[j]
  OBVIOUS
<1>3. TableOK(Jobs, rows)
  BY <1>2, NoRowIsNoRow DEF TableOK, RowOK
<1>4. WorkerSees /\ DeathOnlyByCancel
  BY DEF WorkerSees, DeathOnlyByCancel, WorkerAt, Taken, HoldingSteps
<1>5. ApiSees /\ ChooserSees
  BY DEF ApiSees, ChooserSees, ApiIdle, ChooserIdle
<1>6. FlagOnlyWhileCancelling /\ OwnerKnown
  BY <1>2, NoRowIsNoRow DEF FlagOnlyWhileCancelling, OwnerKnown
<1> QED BY <1>1, <1>3, <1>4, <1>5, <1>6 DEF IInv

(* The bounds of the instance are kept. *)
LEMMA CountersKept ==
    ASSUME IInv, Next
    PROVE  /\ stopping' \in BOOLEAN
           /\ crashes' \in [worker : 0..MaxCrashes, stop : 0..MaxStops, api : 0..MaxApiCrashes]
<1> USE BoundsAssumption DEF IInv, TypeOK
<1>1. CASE UNCHANGED <<stopping, crashes>>
  BY <1>1
<1>2. CASE ApiCrash
  BY <1>2 DEF ApiCrash
<1>3. CASE WorkerStop
  BY <1>3 DEF WorkerStop
<1>4. CASE WorkerCrash
  BY <1>4 DEF WorkerCrash
<1>5. CASE WorkerRestart
  BY <1>5 DEF WorkerRestart
<1>6. CASE User \/ Api \/ ChooseWrite
  BY <1>1, <1>6 DEF User, CreateReadyOffline, CancelRead, ResumeRead, ResumeCancelling,
     ChooseRead, Api, CancelRequest, CancelMark, CancelFinalize, ResumeWrite, ApiStart,
     ApiReconcile, ChooseWrite
<1>7. CASE WorkerSteps /\ ~WorkerRestart
  BY <1>1, <1>7 DEF WorkerSteps, Listings, ListTranscript, ListTranslation, ListPhase4,
      WorkerFinalize, GuardPasses, GuardReads, GuardRejects, Enter, StageRead, StageStops,
      StageAdvance, ReportTranscription, ReportPhase4, ProgressRead, ProgressWrite,
      FailRead, FailWrite, AfterRun, WorkerExit, WorkerOnly, WorkerAndTable
<1> QED BY <1>2, <1>3, <1>4, <1>5, <1>6, <1>7 DEF Next, Faults

(* Every step keeps the invariant.                                         *)
LEMMA NextPreserves ==
    IInv /\ [Next]_vars => IInv'
<1> SUFFICES ASSUME IInv, [Next]_vars PROVE IInv'
  OBVIOUS
<1>1. CASE UNCHANGED vars
  BY <1>1 DEF vars, IInv, TypeOK, TableOK, WorkerSees, ReadHolds, ApiSees, ChooserSees,
     FlagOnlyWhileCancelling, DeathOnlyByCancel, OwnerKnown, WorkerNeverKilled
<1>2. CASE User \/ Api \/ ChooseWrite \/ ApiCrash
  <2>1. ApiTable /\ UNCHANGED worker
    BY <1>2, ApiTableStep
  <2>2. WorkerSees' /\ DeathOnlyByCancel'
    BY <2>1, WorkerUndisturbed
  <2>3. TableOK(Jobs, rows)' /\ rows' \in [Jobs -> Row \cup {NoRow}]
        /\ pending' \in [Jobs -> BOOLEAN] /\ FlagOnlyWhileCancelling'
    BY <2>1, TablePreserved
  <2>4. ApiGood' /\ ChooserGood' /\ OwnerKnown'
    BY <1>2, ApiStep, ChooserStep, ApiKeepsOwners
  <2>5. worker' \in WorkerStates
    BY <2>1 DEF IInv, TypeOK
  <2>6. TypeOK'
    BY <1>2, <2>3, <2>4, <2>5, CountersKept DEF TypeOK, ApiGood, ChooserGood, Next, Faults
  <2> QED BY <2>2, <2>3, <2>4, <2>6 DEF IInv, ApiGood, ChooserGood
<1>3. CASE WorkerSteps \/ WorkerStop \/ WorkerCrash
  <2>1. WorkerTable /\ UNCHANGED <<api, chooser>>
    BY <1>3, WorkerTableStep
  <2>2. ApiSees' /\ ChooserSees'
    BY <2>1, OthersUndisturbed
  <2>3. TableOK(Jobs, rows)' /\ rows' \in [Jobs -> Row \cup {NoRow}]
        /\ pending' \in [Jobs -> BOOLEAN] /\ FlagOnlyWhileCancelling'
    BY <2>1, TablePreserved
  <2>4. WorkerGood' /\ OwnerKnown'
    BY <1>3, WorkerListStep, WorkerStageStep, WorkerKeepsOwners DEF WorkerSteps
  <2>5. api' \in ApiStates /\ chooser' \in ChooserStates
    BY <2>1 DEF IInv, TypeOK
  <2>6. TypeOK'
    BY <1>3, <2>3, <2>4, <2>5, CountersKept DEF TypeOK, WorkerGood, Next, Faults
  <2> QED BY <2>2, <2>3, <2>4, <2>6 DEF IInv, WorkerGood
<1> QED BY <1>1, <1>2, <1>3 DEF Next, Faults

-----------------------------------------------------------------------------
(* Every state the API and the worker reach together satisfies the         *)
(* invariant. *)
THEOREM Invariant == Spec => []IInv
<1> QED
  BY InitEstablishes, NextPreserves, PTL DEF Spec

(* The table, the marks and the places of both processes keep their types: *)
(* a resume only ever aims at a status to work from, and a stage is never  *)
(* at a step of another stage. *)
THEOREM TypeCorrect == Spec => []TypeOK
<1>1. IInv => TypeOK
  BY DEF IInv
<1> QED
  BY <1>1, Invariant, PTL

(* offline_cancel_pending is on no job at work or parked, however stale    *)
(* the details are that a stage or the language selection writes back. *)
THEOREM MarksAreCancellations == Spec => []FlagOnlyWhileCancelling
<1>1. IInv => FlagOnlyWhileCancelling
  BY DEF IInv
<1> QED
  BY <1>1, Invariant, PTL

(* No other job takes the slot while a stage is inside one. *)
THEOREM SlotIsHeld == Spec => []WorkerHoldsSlot
<1>1. IInv => WorkerHoldsSlot
  <2> SUFFICES ASSUME IInv, NEW j \in Jobs, Inside(j)
               PROVE  rows[j].slot \/ rows[j].status = "CANCELLED"
    BY DEF WorkerHoldsSlot
  <2>1. worker.at \in HoldingSteps /\ worker.job = j
    BY DEF Inside
  <2>2. /\ rows[j].status \in Accepts(worker.stage) \cup Cancelled
        /\ rows[j].status = "CANCELLING" => rows[j].slot
        /\ worker.stage \in Stages
    BY <2>1, Holding
  <2>3. rows[j].status \in Live => rows[j].slot
    BY RowFacts, SlotOfRow
  <2> QED BY <2>2, <2>3, AcceptsRange, Names
<1> QED
  BY <1>1, Invariant, PTL

(* The worker process dies of no job but one that is being cancelled, or   *)
(* was: not of a resumed, a failed or a waiting one. *)
THEOREM DeathIsByCancel == Spec => []DeathOnlyByCancel
<1>1. IInv => DeathOnlyByCancel
  BY DEF IInv
<1> QED
  BY <1>1, Invariant, PTL

(* As long as the worker is not killed, a request, a stage, a mark or a    *)
(* starting API answers for every cancellation. *)
THEOREM CancelIsOwned == Spec => []CancelHasOwner
<1>1. "in" \in HoldingSteps
  BY DEF HoldingSteps
<1>2. IInv => CancelHasOwner
  BY <1>1 DEF IInv, OwnerKnown, CancelHasOwner, Inside
<1> QED
  BY <1>2, Invariant, PTL

(* A request never finalizes a job marked for the worker that is inside it. *)
THEOREM MarkDefersFinalize == Spec => FlagDefersFinalize
<1> DEFINE Deferred == \A j \in Jobs :
             /\ pending[j] /\ Inside(j) /\ api.at # "starting"
             /\ api.at = "finalizing" => api.branch # "refused"
             /\ rows[j].status = "CANCELLING"
             => rows'[j].status = "CANCELLING"
<1>1. ASSUME IInv, Next PROVE Deferred
  <2> SUFFICES ASSUME NEW j \in Jobs, pending[j], Inside(j), api.at # "starting",
                      api.at = "finalizing" => api.branch # "refused",
                      rows[j].status = "CANCELLING"
               PROVE  rows'[j].status = "CANCELLING"
    OBVIOUS
  <2>1. CASE WorkerSteps \/ WorkerStop \/ WorkerCrash
    <3>1. WorkerTable
      BY <1>1, <2>1, WorkerTableStep
    <3>2. worker.at \notin {"finalize", "returned"}
      BY DEF Inside, HoldingSteps
    <3> QED BY <1>1, <3>1, <3>2, WorkerRows, Names DEF WorkerRow
  <2>2. CASE CancelFinalize
    <3>1. api \in [at : {"requesting", "marking", "finalizing"}, job : Jobs,
                   branch : {"running", "idle", "other", "refused"}]
      BY <1>1, <2>2, ApiFields DEF IInv, TypeOK, CancelFinalize
    <3>2. CASE api.job = j
      <4>1. api.branch = "idle"
        BY <1>1, <2>2, <3>1, <3>2 DEF IInv, ApiSees, CancelFinalize
      <4> QED BY <2>2, <3>2, <4>1 DEF CancelFinalize, LeftToWorker, UnchangedTable
    <3>3. CASE api.job # j
      BY <1>1, <2>2, <3>1, <3>3, FinalizeMoves
      DEF CancelFinalize, SetRow, UnchangedTable, IInv, TypeOK
    <3> QED BY <3>2, <3>3
  <2>3. CASE User \/ Api \/ ChooseWrite \/ ApiCrash
    <3>1. CASE CancelFinalize
      BY <2>2, <3>1
    <3>2. CASE ~CancelFinalize /\ ~ApiReconcile
      <4>1. rows'[j] = rows[j] \/ rows'[j].status = "CANCELLING"
        <5>1. CASE User
          BY <1>1, <5>1, NoRowIsNoRow DEF User, CreateReadyOffline, CancelRead, ResumeRead,
             ResumeCancelling, ChooseRead, SetRow, IInv, TypeOK
        <5>2. CASE CancelRequest
          BY <1>1, <5>2, ApiFields
          DEF CancelRequest, SetRow, UnchangedTable, UpdatedRow, IInv, TypeOK
        <5>3. CASE CancelMark
          BY <1>1, <5>3, ApiFields
          DEF CancelMark, SetRow, UnchangedTable, UpdatedRow, IInv, TypeOK
        <5>4. CASE ResumeWrite
          BY <1>1, <5>4, ApiFields, Names DEF ResumeWrite, SetRow, UnchangedTable, IInv, TypeOK
        <5>5. CASE ChooseWrite
          BY <1>1, <5>5, ChooserFields DEF ChooseWrite, SetRow, UnchangedTable, IInv, TypeOK
        <5>6. CASE ApiStart \/ ApiCrash
          BY <5>6 DEF ApiStart, ApiCrash
        <5> QED BY <2>3, <3>2, <5>1, <5>2, <5>3, <5>4, <5>5, <5>6 DEF Api
      <4> QED BY <4>1
    <3>3. CASE ApiReconcile
      BY <3>3 DEF ApiReconcile
    <3> QED BY <3>1, <3>2, <3>3
  <2> QED BY <1>1, <2>1, <2>3 DEF Next, Faults
<1>2. IInv /\ [Next]_vars => [Deferred]_vars
  BY <1>1
<1> QED
  BY <1>2, Invariant, PTL DEF Spec, FlagDefersFinalize

-----------------------------------------------------------------------------
(* The two processes together implement JobLifecycle. *)

(* A write of one row is a step of the life cycle, or leaves it alone. *)
LEMMA WriteRefines ==
    ASSUME IInv, NEW j \in Jobs, NEW q, NEW flag, SetRow(j, q, flag), Move(rows[j], q)
    PROVE  [Lifecycle!Next]_(Lifecycle!vars)
<1> DEFINE phase == [k \in Jobs |-> PhaseOf(rows[k].status)]
           owners == {k \in Jobs : rows[k].slot}
<1>1. /\ rows' = [rows EXCEPT ![j] = q]
      /\ q.slot => \A k \in Jobs \ {j} : ~rows[k].slot
  BY DEF SetRow, IndexAllows
<1>2. \A k \in Jobs : rows'[k] = IF k = j THEN q ELSE rows[k]
  BY <1>1 DEF IInv, TypeOK
<1>3. phase' = [phase EXCEPT ![j] = PhaseOf(q.status)]
  BY <1>2
<1>4. owners' = IF q.slot THEN owners \cup {j} ELSE owners \ {j}
  BY <1>2
<1>5. q.slot => owners \subseteq {j}
  BY <1>1
<1>6. /\ phase[j] = PhaseOf(rows[j].status) /\ (j \in owners <=> rows[j].slot)
      /\ phase = [phase EXCEPT ![j] = phase[j]]
  OBVIOUS
<1> HIDE DEF phase, owners
<1>7. PhaseStep(rows[j], q)
  BY RowFacts, MoveIsPhaseStep
<1>8. /\ q.slot = rows[j].slot => owners' = owners
      /\ q.slot /\ ~rows[j].slot => owners = {} /\ owners' = {j}
      /\ ~q.slot => owners' = owners \ {j}
  BY <1>4, <1>5, <1>6
<1>9. \/ phase' = phase /\ owners' = owners
      \/ /\ phase[j] \in {"absent", "parked"} /\ owners = {}
         /\ phase' = [phase EXCEPT ![j] = "active"] /\ owners' = {j}
      \/ /\ phase[j] = "active"
         /\ \E p \in {"parked", "completed"} : phase' = [phase EXCEPT ![j] = p]
         /\ owners' = owners \ {j}
      \/ /\ phase[j] \in {"active", "parked"} /\ owners' = owners
         /\ phase' = [phase EXCEPT ![j] = "cancelling"]
      \/ /\ phase[j] = "cancelling" /\ owners' = owners \ {j}
         /\ phase' = [phase EXCEPT ![j] = "cancelled"]
  BY <1>3, <1>6, <1>7, <1>8 DEF PhaseStep
<1> QED
  BY <1>9
  DEF Lifecycle!Next, Lifecycle!vars, Lifecycle!Create, Lifecycle!Park,
      Lifecycle!Resume, Lifecycle!RequestCancel, Lifecycle!FinishCancel,
      Lifecycle!Complete, Lifecycle!SetPhase, phase, owners

(* Whatever the API, its thread and the worker interleave, and whoever     *)
(* dies: no job comes back from a cancellation or an end, and nobody takes *)
(* the slot a cancellation still holds. *)
THEOREM ProcessesImplementLifecycle == Spec => ImplementsLifecycle
<1>1. Init => Lifecycle!Init
  BY NoRowIsNoRow, PhaseCases DEF Init, Lifecycle!Init
<1>2. ASSUME UNCHANGED rows PROVE [Lifecycle!Next]_(Lifecycle!vars)
  BY <1>2 DEF Lifecycle!vars
<1>3. IInv /\ [Next]_vars => [Lifecycle!Next]_(Lifecycle!vars)
  <2> SUFFICES ASSUME IInv, [Next]_vars PROVE [Lifecycle!Next]_(Lifecycle!vars)
    OBVIOUS
  <2>1. CASE UNCHANGED vars
    BY <1>2, <2>1 DEF vars
  <2>2. CASE Next
    <3>1. ApiTable \/ WorkerTable
      BY <2>2, ApiTableStep, WorkerTableStep DEF Next, Faults
    <3> QED BY <1>2, <3>1, WriteRefines DEF ApiTable, WorkerTable, UnchangedTable
  <2> QED BY <2>1, <2>2
<1> QED
  BY <1>1, <1>3, Invariant, PTL DEF Spec, ImplementsLifecycle, Lifecycle!Spec

=============================================================================
