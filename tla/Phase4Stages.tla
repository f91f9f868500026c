---------------------------- MODULE Phase4Stages ----------------------------
(***************************************************************************)
(* What separation, narration, timing and export leave behind of one job,  *)
(* and in which order: the audio files, the four checkpoints, the rewrites *)
(* of narration that is too long for its window, and the video.  The       *)
(* worker may die or fail between any two steps and be resumed; files may  *)
(* be lost and models be replaced while it is away.                        *)
(*                                                                         *)
(* A step is one transaction, one published file or one call of a model.   *)
(* A file is what it was made from, and its digest is its content.  Time   *)
(* is counted in a few units: a block of narration lasts 1 to Longest, its *)
(* window holds Window, all windows together hold Capacity, and Slack can  *)
(* be borrowed from silence; NarrationTiming has the planner itself.       *)
(***************************************************************************)
EXTENDS JobRows, Integers, FiniteSetsExt

CONSTANTS
    Blocks,             \* number of blocks of narration
    Longest, Window, Capacity, Slack,
    MaxAttempts,        \* timing_rewrite_max_attempts
    SemanticAttempts,   \* _TIMING_SEMANTIC_RECOVERY_MAX_ATTEMPTS
    MaxFaults           \* bound: deaths, errors, lost files, models replaced

ASSUME Phase4Assumption ==
    /\ Blocks \in Nat \ {0}
    /\ {Longest, Window, Capacity, Slack, MaxAttempts, SemanticAttempts,
        MaxFaults} \subseteq Nat

VARIABLES
    row,        \* the row of the job
    error,      \* error_code of its last failure, or "none"
    profile,    \* the timing profile of the job
    file,       \* the files of the job
    separation, \* the checkpoint of stage SEPARATION
    tts,        \* the checkpoint of stage TTS, with the rewrites
    timing,     \* the checkpoint of stage TIMING
    export,     \* the checkpoint of stage EXPORT
    result,     \* the result of the job
    model,      \* external: the models installed
    take,       \* number of separations made
    asked,      \* ghost: semantic rewrites asked for, of each block
    worker,     \* where the worker is, and what it holds in memory
    faults      \* number of faults so far

checkpoints == <<separation, tts, timing, export>>
vars == <<row, error, profile, file, checkpoints, result, model, take, asked,
          worker, faults>>

-----------------------------------------------------------------------------
None == "none"
Nothing == <<>>             \* no file, no checkpoint, nothing held

BlockIds == 1..Blocks
NoFiles == [b \in BlockIds |-> Nothing]
Zeros == [b \in BlockIds |-> 0]
Away == [at |-> "away"]

(* A text is named by the rewrite that gave it: no attempt gives two.  The  *)
(* text of a block not rewritten is its translation.                       *)
NoRewrite == [by |-> None, attempt |-> 0, pending |-> FALSE, text |-> <<None, 0, 0>>]

(* Mutant: a job that died while it was verified is not taken again. *)
Phase4QueueUnverified == {"READY_TTS", "SEPARATING", "SYNTHESIZING", "TIMING",
                          "MIXING", "MUXING"}

Phase4Queue == {"READY_TTS", "SEPARATING", "SYNTHESIZING", "TIMING", "MIXING",
                "MUXING", "VERIFYING"}

Init ==
    /\ row = InsertedRow("READY_TTS")
    /\ error = None
    /\ profile \in {"natural", "strict"}
    /\ file = [accompaniment |-> Nothing, raw |-> NoFiles, fitted |-> NoFiles,
               timeline |-> Nothing, srt |-> Nothing, mp4 |-> Nothing]
    /\ separation = Nothing /\ tts = Nothing /\ timing = Nothing /\ export = Nothing
    /\ result = Nothing
    /\ model = 0 /\ take = 0 /\ asked = Zeros
    /\ worker = Away /\ faults = 0

-----------------------------------------------------------------------------
At(p) == worker.at = p
Gone == row.status \in Cancelled
Fault == faults < MaxFaults /\ faults' = faults + 1

(* To the next step, with what it works on. *)
GoesOn(p, x) == worker' = [worker EXCEPT !.at = p, !.on = x]
Goes(p) == GoesOn(p, Nothing)
Leaves == worker' = Away

Same == UNCHANGED <<profile, model, result>>
NoCheckpoint == UNCHANGED checkpoints
Quiet == UNCHANGED <<row, error>>

(* _fail, for an exception of run. *)
Fails(code, retryable) ==
    /\ Leaves
    /\ IF Gone
       THEN Quiet
       ELSE row' = UpdatedRow(row, "FAILED", retryable, row.cancel) /\ error' = code

(* Mutant: no status is forced. *)
SetStatusUnforced(s, forced, p, x) ==
    IF Gone
    THEN Leaves /\ Quiet
    ELSE IF MayBecome(row, s, FALSE)
    THEN /\ row' = UpdatedRow(row, s, FALSE, row.cancel)
         /\ GoesOn(p, x) /\ error' = None
    ELSE Leaves /\ error' = "illegal_transition" /\ UNCHANGED row

(* _set_status, then on to p with x.  A transition that is not allowed     *)
(* leaves the stage with an exception.                                     *)
SetStatus(s, forced, p, x) ==
    IF Gone
    THEN Leaves /\ Quiet
    ELSE IF MayBecome(row, s, forced)
    THEN /\ row' = UpdatedRow(row, s, FALSE, row.cancel)
         /\ GoesOn(p, x) /\ error' = None
    ELSE Leaves /\ error' = "illegal_transition" /\ UNCHANGED row

(* A call of a model or of FFmpeg fails, is cut short by a cancellation    *)
(* (then the job is left as it is), or gives the outcome of Done.          *)
Calls(Done) ==
    \/ ~Gone /\ Done /\ Quiet /\ UNCHANGED faults
    \/ Gone /\ Leaves /\ Quiet /\ UNCHANGED <<file, faults>>
    \/ Fault /\ Fails("call_failed", TRUE) /\ UNCHANGED file

-----------------------------------------------------------------------------
(* Separation.                                                             *)

EnterPhase4 ==
    /\ worker = Away
    /\ row.status \in Phase4Queue
    /\ worker' = [at |-> "separate", on |-> Nothing, exhausted |-> Zeros]
    /\ Same /\ NoCheckpoint /\ Quiet /\ UNCHANGED <<file, take, asked, faults>>

(* _load_separation_checkpoint *)
SeparationReusable ==
    /\ separation # Nothing
    /\ separation.model = model
    /\ separation.result = file.accompaniment

BeginSeparation ==
    /\ At("separate")
    /\ IF SeparationReusable
       THEN Goes("narrate") /\ Quiet
       ELSE SetStatus("SEPARATING", TRUE, "separating", Nothing)
    /\ Same /\ NoCheckpoint /\ UNCHANGED <<file, take, asked, faults>>

(* The separator publishes the accompaniment; no two runs of it are alike. *)
Separate ==
    /\ At("separating")
    /\ Calls(/\ file' = [file EXCEPT !.accompaniment = [take |-> take]]
             /\ Goes("separated"))
    /\ take' = IF worker'.at = "separated" THEN take + 1 ELSE take
    /\ Same /\ NoCheckpoint /\ UNCHANGED asked

SaveSeparation ==
    /\ At("separated")
    /\ separation' = IF Gone THEN separation
                     ELSE [model |-> model, result |-> file.accompaniment]
    /\ IF Gone THEN Leaves ELSE Goes("separation_saved")
    /\ Same /\ Quiet /\ UNCHANGED <<file, tts, timing, export, take, asked, faults>>

EndSeparation ==
    /\ At("separation_saved")
    /\ SetStatus("SYNTHESIZING", FALSE, "narrate", Nothing)
    /\ Same /\ NoCheckpoint /\ UNCHANGED <<file, take, asked, faults>>

-----------------------------------------------------------------------------
(* Narration.                                                              *)

(* Mutant: every run starts the narration anew. *)
NarrationReusableNever == FALSE

(* _valid_tts_checkpoint *)
NarrationReusable == tts # Nothing /\ tts.model = model

NewNarration == [model |-> model, blocks |-> NoFiles,
                 rewrites |-> [b \in BlockIds |-> NoRewrite]]

(* A checkpoint that does not fit is begun anew, rewrites and all. *)
OpenNarration ==
    /\ At("narrate")
    /\ tts' = IF NarrationReusable THEN tts ELSE NewNarration
    /\ asked' = IF NarrationReusable THEN asked ELSE Zeros
    /\ SetStatus("SYNTHESIZING", TRUE, "synthesize", Nothing)
    /\ Same /\ UNCHANGED <<file, separation, timing, export, take, faults>>

Text(b) == tts.rewrites[b].text

(* _valid_raw_block: the record is of the text wanted and of the file. *)
Narrated(b) ==
    /\ tts.blocks[b] # Nothing
    /\ tts.blocks[b].text = Text(b)
    /\ tts.blocks[b] = file.raw[b]

Missing == {b \in BlockIds : ~Narrated(b)}

(* How long a synthesized block may turn out; the strict profile squeezes  *)
(* every block into its window.                                            *)
Durations == IF profile = "strict" THEN {1} ELSE 1..Longest

(* _synthesize_block: probe and second take end in one file. *)
Synthesize ==
    /\ At("synthesize") /\ Missing # {}
    /\ LET b == Min(Missing) IN
       Calls(\E us \in Durations :
                /\ file' = [file EXCEPT !.raw[b] = [text |-> Text(b), us |-> us]]
                /\ GoesOn("synthesized", b))
    /\ Same /\ NoCheckpoint /\ UNCHANGED <<take, asked>>

SaveNarration ==
    /\ At("synthesized")
    /\ tts' = [tts EXCEPT !.blocks[worker.on] = file.raw[worker.on]]
    /\ Goes("synthesize")
    /\ Same /\ Quiet
    /\ UNCHANGED <<file, separation, timing, export, take, asked, faults>>

CloseNarration ==
    /\ At("synthesize") /\ Missing = {}
    /\ SetStatus("TIMING", FALSE, "plan", Nothing)
    /\ Same /\ NoCheckpoint /\ UNCHANGED <<file, take, asked, faults>>

-----------------------------------------------------------------------------
(* Timing.                                                                 *)

Us(b) == tts.blocks[b].us
Sum(S) == SumFunction([b \in S |-> Us(b)])

(* plan_narration_slots with that much silence to borrow: a block too long *)
(* for its window, or a group too long for all of them.                    *)
TooLong(extra) == {b \in BlockIds : Us(b) > Window + extra}
Overflows(extra) == TooLong(extra) # {} \/ Sum(BlockIds) > Capacity + extra

(* _raise_rewrite_required *)
Failure ==
    IF TooLong(Slack) # {}
    THEN LET o == Min(TooLong(Slack)) IN
         [owner |-> o, group |-> {o}, deficit |-> Us(o) - Window - Slack]
    ELSE [owner |-> Blocks, group |-> BlockIds,
          deficit |-> Sum(BlockIds) - Capacity - Slack]

Slot(b) == [from |-> Sum(1..(b - 1)), us |-> Us(b)]
Fit(b) == [text |-> Text(b), slot |-> Slot(b)]

Policy == IF profile = "strict" THEN "strict"
          ELSE IF Overflows(0) THEN "silent_slack" ELSE "base"

(* _valid_timing_checkpoint *)
TimingReusable ==
    timing # Nothing /\ timing.model = model /\ timing.policy = Policy

(* _load_fitted_block: the recorded file is there, and is what is planned. *)
Fitted(b) ==
    /\ timing.blocks[b] # Nothing
    /\ file.fitted[b] = timing.blocks[b]
    /\ timing.blocks[b] = Fit(b)

(* The payload _ensure_timing starts from. *)
TimingPayload ==
    IF TimingReusable
    THEN [timing EXCEPT !.blocks =
             [b \in BlockIds |-> IF Fitted(b) THEN timing.blocks[b] ELSE Nothing]]
    ELSE [model |-> model, policy |-> Policy, blocks |-> NoFiles, sealed |-> Nothing]

PlanTiming ==
    /\ At("plan")
    /\ IF profile = "natural" /\ Overflows(0) /\ Overflows(Slack)
       THEN IF MaxAttempts = 0
            THEN Fails("rewrite_required", FALSE)
            ELSE GoesOn("select", Failure) /\ Quiet
       ELSE SetStatus("TIMING", TRUE, "fit", TimingPayload)
    /\ Same /\ NoCheckpoint /\ UNCHANGED <<file, take, asked, faults>>

Unfitted == {b \in BlockIds : worker.on.blocks[b] = Nothing}

(* The fitter never finds a planned block too long: NarrationTiming. *)
FitBlock ==
    /\ At("fit") /\ Unfitted # {}
    /\ LET b == Min(Unfitted) IN
       Calls(/\ file' = [file EXCEPT !.fitted[b] = Fit(b)]
             /\ GoesOn("fitted", [worker.on EXCEPT !.blocks[b] = Fit(b)]))
    /\ Same /\ NoCheckpoint /\ UNCHANGED <<take, asked>>

SaveFitted ==
    /\ At("fitted")
    /\ timing' = [worker.on EXCEPT !.sealed = Nothing]
    /\ GoesOn("fit", timing')
    /\ Same /\ Quiet
    /\ UNCHANGED <<file, separation, tts, export, take, asked, faults>>

(* _valid_timeline_artifacts *)
TimelineReusable ==
    /\ worker.on.sealed # Nothing
    /\ worker.on.sealed = [timeline |-> file.timeline, srt |-> file.srt]

KeepTimeline ==
    /\ At("fit") /\ Unfitted = {} /\ TimelineReusable
    /\ Goes("mix")
    /\ Same /\ NoCheckpoint /\ Quiet /\ UNCHANGED <<file, take, asked, faults>>

(* build_timeline_wav *)
BuildTimeline ==
    /\ At("fit") /\ Unfitted = {} /\ ~TimelineReusable
    /\ Calls(/\ file' = [file EXCEPT !.timeline = file.fitted]
             /\ GoesOn("built", worker.on))
    /\ Same /\ NoCheckpoint /\ UNCHANGED <<take, asked>>

(* write_timing_report and write_srt_artifact *)
WriteSubtitles ==
    /\ At("built")
    /\ Calls(/\ file' = [file EXCEPT !.srt = worker.on.blocks]
             /\ GoesOn("seal", worker.on))
    /\ Same /\ NoCheckpoint /\ UNCHANGED <<take, asked>>

SealTimeline ==
    /\ At("seal")
    /\ timing' = [worker.on EXCEPT !.sealed =
                     [timeline |-> file.timeline, srt |-> file.srt]]
    /\ Goes("mix")
    /\ Same /\ Quiet
    /\ UNCHANGED <<file, separation, tts, export, take, asked, faults>>

BeginMix ==
    /\ At("mix")
    /\ SetStatus("MIXING", FALSE, "export", Nothing)
    /\ Same /\ NoCheckpoint /\ UNCHANGED <<file, take, asked, faults>>

-----------------------------------------------------------------------------
(* Rewriting narration that is too long.                                   *)

Rewrite(b) == tts.rewrites[b]

(* _raise_rewrite_required and _valid_group_rewrite_candidates: the time   *)
(* each block of the group is asked to keep to, the longest block first,   *)
(* then the one nearest to the owner of the failure.                       *)
Budget(b) == Max({1, Us(b) - worker.on.deficit})

Distance(b) == worker.on.owner - b
Precedes(b, c) ==
    \/ Us(b) > Us(c)
    \/ Us(b) = Us(c) /\ Distance(b) < Distance(c)

Candidates ==
    {b \in worker.on.group : Cardinality({c \in worker.on.group : Precedes(c, b)}) < 3}

(* Given up in this take, at that budget or a larger one. *)
Spent(b) == worker.exhausted[b] # 0 /\ Budget(b) <= worker.exhausted[b]

First(S) == CHOOSE b \in S : \A c \in S \ {b} : Precedes(b, c)

AgainRewritable ==
    {b \in Candidates : ~Spent(b) /\ Rewrite(b).by = "v2" /\ Rewrite(b).attempt < MaxAttempts}
Unrewritten == {b \in Candidates : ~Spent(b) /\ Rewrite(b).by = None}

(* A block alone too long, after its last rewrite or a semantic one. *)
SemanticOwner(b) ==
    /\ worker.on.group = {b}
    /\ \/ Rewrite(b).by = "v2" /\ Rewrite(b).attempt = SemanticAttempts
       \/ Rewrite(b).by = "v3"

NextAttempt(b, version) == IF Rewrite(b).by = version THEN Rewrite(b).attempt + 1 ELSE 1

Asks(p, b, version) ==
    /\ GoesOn(p, [block |-> b, attempt |-> NextAttempt(b, version),
                  budget |-> Budget(b), retry |-> Rewrite(b)])
    /\ Quiet

(* _select_timing_rewrite_candidate *)
SelectRewrite ==
    /\ At("select")
    /\ LET owner == worker.on.owner IN
       IF AgainRewritable # {} THEN Asks("rewrite", First(AgainRewritable), "v2")
       ELSE IF Unrewritten # {} THEN Asks("rewrite", First(Unrewritten), "v2")
       ELSE IF ~SemanticOwner(owner) THEN Fails("group_impossible", FALSE)
       ELSE IF NextAttempt(owner, "v3") > SemanticAttempts
            THEN Fails("single_impossible", FALSE)
       ELSE Asks("ledger", owner, "v3")
    /\ Same /\ NoCheckpoint /\ UNCHANGED <<file, take, asked, faults>>

(* The block of the request, and its entry with a text. *)
Asked == worker.on.block
Entry(by, pending, text) ==
    [by |-> by, attempt |-> worker.on.attempt, pending |-> pending, text |-> text]
Rewritten(entry) == tts' = [tts EXCEPT !.rewrites[Asked] = entry]

NewText(by) == <<by, worker.on.attempt, model>>

(* A block at its shortest, or whose attempts are used up, is given up for *)
(* this run: the next candidate is looked for.                             *)
GiveUpRewrite ==
    /\ At("rewrite")
    /\ Us(Asked) = 1 \/ worker.on.attempt > MaxAttempts
    /\ worker' = [worker EXCEPT !.at = "plan", !.on = Nothing,
                     !.exhausted[Asked] = Max({@, worker.on.budget})]
    /\ Same /\ NoCheckpoint /\ Quiet /\ UNCHANGED <<file, take, asked, faults>>

(* _persist_timing_rewrite: the model is asked until an answer is valid.   *)
(* Answers that are refused are counted in memory only.                    *)
RewriteText ==
    /\ At("rewrite")
    /\ Us(Asked) > 1 /\ worker.on.attempt <= MaxAttempts
    /\ UNCHANGED file
    /\ \/ /\ Calls(GoesOn("rewrite", [worker.on EXCEPT !.attempt = @ + 1]) /\ UNCHANGED file)
          /\ UNCHANGED tts
       \/ /\ ~Gone
          /\ Rewritten(Entry("v2", FALSE, NewText("v2")))
          /\ Goes("clear")
          /\ Quiet /\ UNCHANGED faults
    /\ Same /\ UNCHANGED <<separation, timing, export, take, asked>>

(* Mutant: the attempt is recorded with the answer only. *)
LedgerLater ==
    /\ At("ledger")
    /\ IF Us(Asked) = 1
       THEN Fails("single_impossible", FALSE) /\ UNCHANGED asked
       ELSE /\ asked' = [asked EXCEPT ![Asked] = @ + 1]
            /\ GoesOn("semantic", worker.on) /\ Quiet
    /\ Same /\ UNCHANGED <<file, checkpoints, take, faults>>

(* _persist_single_block_semantic_rewrite: the attempt is recorded before  *)
(* the model is asked, with the text the block has.                        *)
Ledger ==
    /\ At("ledger")
    /\ IF Us(Asked) = 1
       THEN Fails("single_impossible", FALSE) /\ UNCHANGED <<tts, asked>>
       ELSE /\ Rewritten(Entry("v3", TRUE, Text(Asked)))
            /\ asked' = [asked EXCEPT ![Asked] = @ + 1]
            /\ GoesOn("semantic", worker.on) /\ Quiet
    /\ Same /\ UNCHANGED <<file, separation, timing, export, take, faults>>

SemanticAccepted ==
    /\ At("semantic") /\ ~Gone
    /\ Rewritten(Entry("v3", FALSE, NewText("v3")))
    /\ Goes("clear")
    /\ Same /\ Quiet /\ UNCHANGED <<file, separation, timing, export, take, asked, faults>>

(* A refused answer uses its attempt up. *)
SemanticRefused ==
    /\ At("semantic") /\ ~Gone
    /\ IF worker.on.attempt = SemanticAttempts
       THEN Fails("single_impossible", FALSE)
       ELSE /\ GoesOn("ledger", [worker.on EXCEPT !.attempt = @ + 1, !.retry = Rewrite(Asked)])
            /\ Quiet
    /\ Same /\ NoCheckpoint /\ UNCHANGED <<file, take, asked, faults>>

(* An error of the runtime that the stage handles gives the attempt back,  *)
(* a cancellation does not.                                                *)
SemanticFails ==
    /\ At("semantic")
    /\ IF Gone
       THEN Leaves /\ Quiet /\ UNCHANGED <<tts, asked, faults>>
       ELSE /\ Fault
            /\ Rewritten(worker.on.retry)
            /\ asked' = [asked EXCEPT ![Asked] = @ - 1]
            /\ Fails("call_failed", TRUE)
    /\ Same /\ UNCHANGED <<file, separation, timing, export, take>>

(* The timeline is emptied after a rewrite, in a transaction of its own. *)
ClearTiming ==
    /\ At("clear")
    /\ timing' = Nothing
    /\ Goes("narrate")
    /\ Same /\ Quiet
    /\ UNCHANGED <<file, separation, tts, export, take, asked, faults>>

-----------------------------------------------------------------------------
(* Export.                                                                 *)

Bindings == [separation |-> separation.result, timeline |-> timing.sealed.timeline,
             model |-> model]

(* Mutant: the video is kept if it is the one recorded. *)
ExportReusableByFile == export # Nothing /\ export.mp4 = file.mp4

(* _load_export_checkpoint *)
ExportReusable ==
    /\ export # Nothing
    /\ export.bindings = Bindings
    /\ export.mp4 = file.mp4

BeginExport ==
    /\ At("export")
    /\ IF ExportReusable
       THEN Goes("verify") /\ Quiet
       ELSE SetStatus("MUXING", row.status = "VERIFYING", "mux", Nothing)
    /\ Same /\ NoCheckpoint /\ UNCHANGED <<file, take, asked, faults>>

Export ==
    /\ At("mux")
    /\ Calls(/\ file' = [file EXCEPT !.mp4 = [separation |-> file.accompaniment,
                                              timeline |-> file.timeline]]
             /\ Goes("verify"))
    /\ Same /\ NoCheckpoint /\ UNCHANGED <<take, asked>>

BeginVerify ==
    /\ At("verify")
    /\ SetStatus("VERIFYING", TRUE, "hash", Nothing)
    /\ Same /\ NoCheckpoint /\ UNCHANGED <<file, take, asked, faults>>

(* _result_payload and the checkpoint; the video is hashed again. *)
SaveExport ==
    /\ At("hash")
    /\ export' = [bindings |-> Bindings, mp4 |-> file.mp4]
    /\ Goes("complete")
    /\ Same /\ Quiet
    /\ UNCHANGED <<file, separation, tts, timing, take, asked, faults>>

Complete ==
    /\ At("complete")
    /\ Leaves
    /\ IF row.status = "VERIFYING"
       THEN /\ row' = UpdatedRow(row, "COMPLETED", FALSE, row.cancel)
            /\ result' = [mp4 |-> export.mp4, srt |-> timing.sealed.srt]
       ELSE UNCHANGED <<row, result>>
    /\ NoCheckpoint
    /\ UNCHANGED <<error, profile, model, file, take, asked, faults>>

-----------------------------------------------------------------------------
(* The rest of the world.                                                  *)

Stays == NoCheckpoint /\ UNCHANGED <<profile, result, take, asked>>

(* The worker dies, or a shutdown makes it leave at its next check. *)
WorkerCrash ==
    /\ worker # Away
    /\ Fault
    /\ Leaves
    /\ Stays /\ UNCHANGED <<row, error, file, model>>

Resume ==
    /\ worker = Away
    /\ row.status = "FAILED" /\ row.retryable
    /\ row' = UpdatedRow(row, ResumeTarget(row.previous), FALSE, FALSE)
    /\ error' = None
    /\ Stays /\ UNCHANGED <<file, model, worker, faults>>

(* request_cancel; finalizing is left to OfflineControl. *)
Cancel ==
    /\ row.status \in Live
    /\ row' = UpdatedRow(row, "CANCELLING", FALSE, TRUE)
    /\ error' = None
    /\ Stays /\ UNCHANGED <<file, model, worker, faults>>

InstallModel ==
    /\ worker = Away
    /\ row.status \notin Terminal
    /\ Fault
    /\ model' = model + 1
    /\ Stays /\ UNCHANGED <<row, error, file, worker>>

(* A file of a job that has not ended is lost. *)
LoseFile ==
    /\ worker = Away
    /\ row.status \notin Terminal
    /\ Fault
    /\ \/ \E f \in {"accompaniment", "timeline", "srt", "mp4"} :
             file' = [file EXCEPT ![f] = Nothing]
       \/ \E f \in {"raw", "fitted"}, b \in BlockIds :
             file' = [file EXCEPT ![f][b] = Nothing]
    /\ Stays /\ UNCHANGED <<row, error, model, worker>>

-----------------------------------------------------------------------------
SeparationSteps == BeginSeparation \/ Separate \/ SaveSeparation \/ EndSeparation

NarrationSteps == OpenNarration \/ Synthesize \/ SaveNarration \/ CloseNarration

TimingSteps ==
    \/ PlanTiming
    \/ FitBlock
    \/ SaveFitted
    \/ KeepTimeline
    \/ BuildTimeline
    \/ WriteSubtitles
    \/ SealTimeline
    \/ BeginMix

RewriteSteps ==
    \/ SelectRewrite
    \/ GiveUpRewrite
    \/ RewriteText
    \/ Ledger
    \/ SemanticAccepted
    \/ SemanticRefused
    \/ SemanticFails
    \/ ClearTiming

ExportSteps == BeginExport \/ Export \/ BeginVerify \/ SaveExport \/ Complete

Stage ==
    \/ EnterPhase4
    \/ SeparationSteps
    \/ NarrationSteps
    \/ TimingSteps
    \/ RewriteSteps
    \/ ExportSteps

Next ==
    \/ Stage
    \/ WorkerCrash
    \/ Resume
    \/ Cancel
    \/ InstallModel
    \/ LoseFile

Spec == Init /\ [][Next]_vars

(* The worker takes its queue again after a restart (compose.yaml), and    *)
(* the properties below suppose a user who retries.                        *)
FairSpec == Spec /\ WF_vars(Stage) /\ WF_vars(Resume)

-----------------------------------------------------------------------------
(* Properties.                                                             *)

(* The video of a completed job was mixed from the accompaniment and the   *)
(* narration that the checkpoints name, of one set of models; its          *)
(* narration and its subtitles say the same texts, which are the last      *)
(* rewrite of each block, at the same times, in whichever order the stage  *)
(* was interrupted, resumed, refitted and rewritten.                       *)
OutputIsOne ==
    row.status = "COMPLETED" =>
        /\ result.mp4 = file.mp4 /\ result.srt = file.srt
        /\ file.mp4 = [separation |-> file.accompaniment, timeline |-> file.timeline]
        /\ file.timeline = file.srt
        /\ \A b \in BlockIds : file.srt[b] = Fit(b) /\ tts.blocks[b] = file.raw[b]
        /\ separation.model = tts.model /\ tts.model = timing.model

(* No way to resume the stage, from any status and any checkpoint, makes   *)
(* it ask for a transition the status graph refuses.                       *)
NeverIllegal == error # "illegal_transition"

(* However often the worker dies, a block is given no more semantic        *)
(* rewrites than its bound (phase4_stage.py:2034: a killed process resumes *)
(* at the next strategy).                                                  *)
SemanticIsBounded == \A b \in BlockIds : asked[b] <= SemanticAttempts

(* Narration that is synthesized, recorded, of the text wanted and of the  *)
(* models installed is not synthesized again: only a lost file goes.       *)
NarrationIsKept ==
    [][\A b \in BlockIds :
          tts # Nothing /\ tts.model = model /\ Narrated(b)
             => file'.raw[b] \in {file.raw[b], Nothing}
                /\ tts'.blocks[b] = tts.blocks[b]]_vars

(* With finitely many faults, refused answers and lost files, and a user   *)
(* who retries, the job completes, is cancelled, or fails for good.        *)
Phase4Finishes ==
    <>(\/ row.status \in Cancelled \cup {"COMPLETED"}
       \/ row.status = "FAILED" /\ ~row.retryable)

=============================================================================
