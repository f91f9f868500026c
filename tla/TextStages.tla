----------------------------- MODULE TextStages -----------------------------
(***************************************************************************)
(* What transcription and translation leave behind of one job, and in      *)
(* which order: the artifact files, the checkpoints, the segments and      *)
(* blocks in the database, and the commits that move the job on.  The      *)
(* worker may die or leave between any two of these steps, fail and be     *)
(* resumed, and find another model installed when it is back.              *)
(*                                                                         *)
(* A step is one transaction, one published file (written aside, synced    *)
(* and renamed: whole or not at all), or one piece of inference.  Content  *)
(* is what it was made from: a transcript is the run that recognized it, a *)
(* translated text the run and the model that produced it, and the digest  *)
(* of a file is its content.  What is said is the same in every transcript *)
(* of the job.  The control of the job by the API is the subject of        *)
(* OfflineControl; here it may cancel at any time.                         *)
(***************************************************************************)
EXTENDS JobRows, TranslationBlocks

CONSTANTS
    Segments,       \* number of segments of a transcript
    Gaps, Lengths,  \* of the silence before a segment, and of a segment
    Sizes,          \* in words, of a segment
    MaxFaults,      \* bound: deaths of the worker, errors, questions to the user
    MaxModels       \* bound: models installed under the same id, one by one

ASSUME TextStagesAssumption ==
    /\ Segments \in Nat \ {0}
    /\ Gaps \subseteq Nat /\ Lengths \cup Sizes \subseteq Nat \ {0}
    /\ {MaxFaults, MaxModels} \subseteq Nat

VARIABLES
    row,        \* the row of the job
    error,      \* error_code of its last failure, or "none"
    source,     \* details: transcript_source
    subtitle,   \* external: what the subtitle file is worth
    script,     \* external: what is said, the segments of every transcript
    file,       \* the two artifacts on disk
    asr,        \* the checkpoint of stage ASR
    digest,     \* details: source_transcript_sha256
    segments,   \* transcript_segments
    plan,       \* the checkpoint of stage TRANSLATION
    blocks,     \* translation_blocks: the source of each, and its translation
    sealed,     \* details: translated_transcript_sha256
    model,      \* external: the translation model installed
    run,        \* number of stage runs begun
    worker,     \* where the worker is, and what it holds in memory
    faults      \* number of faults so far

vars == <<row, error, source, subtitle, script, file, asr, digest, segments,
          plan, blocks, sealed, model, run, worker, faults>>

-----------------------------------------------------------------------------
None == "none"
Nothing == [made |-> None]      \* no file, no checkpoint, no text

(* A transcript: the run that made it (0: parsed from the subtitle), and   *)
(* whether its language is Vietnamese already.                             *)
Transcript(r, vi) == [made |-> r, vi |-> vi]

(* A translated text; the bypass takes the source as it is. *)
Bypass == [id |-> "bypass", tree |-> 0]
Model(t) == [id |-> "model", tree |-> t]
Text(r, m) == [made |-> r, by |-> m]

NoBlocks == <<>>
Away == [at |-> "away"]

Scripts ==
    LET Shapes == [gap : Gaps, length : Lengths, size : Sizes]
        ScriptOf(shapes) ==
            LET end[i \in 0..Segments] ==
                    IF i = 0 THEN 0 ELSE end[i - 1] + shapes[i].gap + shapes[i].length
            IN [i \in 1..Segments |->
                  [start |-> end[i] - shapes[i].length, end |-> end[i],
                   text |-> [n \in 1..shapes[i].size |-> <<i, n>>]]]
    IN {ScriptOf(shapes) : shapes \in [1..Segments -> Shapes]}

Init ==
    /\ row = InsertedRow("READY_OFFLINE")
    /\ error = None
    /\ source \in {"asr", "subtitle"}
    /\ subtitle \in {"good", "bad"}
    /\ script \in Scripts
    /\ file = [transcript |-> Nothing, translation |-> Nothing]
    /\ asr = Nothing
    /\ digest = Nothing
    /\ segments = Nothing
    /\ plan = Nothing
    /\ blocks = NoBlocks
    /\ sealed = Nothing
    /\ model = 0
    /\ run = 0
    /\ worker = Away
    /\ faults = 0

-----------------------------------------------------------------------------
Is(s) == row.status = s
At(p) == worker.at = p
Become(s) == row' = UpdatedRow(row, s, FALSE, row.cancel)
Fault == faults < MaxFaults /\ faults' = faults + 1

Goes(w) == worker' = w
Leaves == worker' = Away

World == UNCHANGED <<subtitle, script, model>>
Rest == World /\ UNCHANGED run
Transcribed == UNCHANGED <<source, asr, digest, segments>>
Translated == UNCHANGED <<plan, blocks, sealed>>

(* _fail of either stage, for an exception of run: the row is read again,  *)
(* and a cancelled job is left alone.                                      *)
Fails(code, retryable) ==
    /\ Leaves
    /\ IF row.status \in Cancelled
       THEN UNCHANGED <<row, error>>
       ELSE row' = UpdatedRow(row, "FAILED", retryable, row.cancel) /\ error' = code

(* InvalidTransition: the stage returns when the job was cancelled, which  *)
(* is the only way its status moves under a stage (see OfflineControl).    *)
GivesUp == Leaves /\ UNCHANGED <<row, error>>

-----------------------------------------------------------------------------
(* Transcription.                                                          *)

(* Mutant: only fresh jobs are taken. *)
TranscriptQueueFresh == {"READY_OFFLINE"}

(* next_job of the worker for this stage. *)
TranscriptQueue == {"READY_OFFLINE", "TRANSCRIBING", "SUBTITLE_SELECTED"}

(* Mutant: the checkpoint is not looked at. *)
ReusableNever == FALSE

(* _load_checkpoint_artifact: the checkpoint says a transcript is ready,   *)
(* the file has its digest, and it comes from the source the job now has.  *)
Reusable ==
    /\ asr # Nothing
    /\ file.transcript = asr.result
    /\ asr.source = source

EnterTranscription ==
    /\ worker = Away
    /\ row.status \in TranscriptQueue
    /\ run' = run + 1
    /\ Goes(IF Reusable THEN [at |-> "adopt", result |-> file.transcript]
            ELSE [at |-> IF source = "subtitle" THEN "parse" ELSE "begin"])
    /\ Transcribed /\ Translated /\ World
    /\ UNCHANGED <<row, error, file, faults>>

Working == IF source = "asr" THEN "TRANSCRIBING" ELSE "SUBTITLE_SELECTED"

(* _ensure_running_status, before the next step p. *)
EnsureRunning(w) ==
    /\ UNCHANGED error
    /\ IF row.status \in {"READY_OFFLINE", Working}
       THEN Become(Working) /\ Goes(w)
       ELSE Leaves /\ UNCHANGED row

Adopt ==
    /\ At("adopt")
    /\ EnsureRunning([worker EXCEPT !.at = "commit"])
    /\ Transcribed /\ Translated /\ Rest /\ UNCHANGED <<file, faults>>

(* parse_subtitle_file *)
Parsed == IF subtitle = "good" THEN {Transcript(0, vi) : vi \in BOOLEAN} ELSE {}

(* _run_subtitle.  Parsing gives the same transcript each time.  A bad     *)
(* subtitle may be replaced by recognition, in mode prefer, if the job has *)
(* not been moved yet.                                                     *)
ParseSubtitle ==
    /\ At("parse")
    /\ \/ \E result \in Parsed :
             EnsureRunning([at |-> "publish", result |-> result]) /\ UNCHANGED source
       \/ /\ Parsed = {} /\ Is("READY_OFFLINE")
          /\ source' = "asr"
          /\ Become("TRANSCRIBING")
          /\ Goes([at |-> "recognize"])
          /\ UNCHANGED error
       \/ /\ Parsed = {}
          /\ Fails("transcript_invalid", FALSE)
          /\ UNCHANGED source
    /\ Translated /\ Rest /\ UNCHANGED <<asr, digest, segments, file, faults>>

BeginRecognition ==
    /\ At("begin")
    /\ EnsureRunning([at |-> "recognize"])
    /\ Transcribed /\ Translated /\ Rest /\ UNCHANGED <<file, faults>>

(* _require_language *)
RequireLanguage ==
    IF Is("TRANSCRIBING")
    THEN Become("NEEDS_LANGUAGE") /\ Leaves /\ UNCHANGED error
    ELSE GivesUp

(* Model check, decoding and recognition, with progress written between:   *)
(* a transcript, a question about its language, or an error.               *)
Recognize ==
    /\ At("recognize")
    /\ \/ /\ \E vi \in BOOLEAN :
                Goes([at |-> "publish", result |-> Transcript(run, vi)])
          /\ UNCHANGED <<row, error, faults>>
       \/ Fault /\ RequireLanguage
       \/ Fault /\ \E retryable \in BOOLEAN : Fails("recognition", retryable)
    /\ Transcribed /\ Translated /\ Rest /\ UNCHANGED file

(* Mutant: nobody waits for the file. *)
PublishTranscriptLater ==
    /\ At("publish")
    /\ Goes([worker EXCEPT !.at = "save"])
    /\ Transcribed /\ Translated /\ Rest /\ UNCHANGED <<row, error, file, faults>>

(* write_transcript_artifact *)
PublishTranscript ==
    /\ At("publish")
    /\ file' = [file EXCEPT !.transcript = worker.result]
    /\ Goes([worker EXCEPT !.at = "save"])
    /\ Transcribed /\ Translated /\ Rest /\ UNCHANGED <<row, error, faults>>

(* The checkpoint before the commit: from here on nothing is recognized    *)
(* again.                                                                  *)
SaveTranscript ==
    /\ At("save")
    /\ asr' = [made |-> run, source |-> source, result |-> worker.result]
    /\ Goes([worker EXCEPT !.at = "commit"])
    /\ Translated /\ Rest
    /\ UNCHANGED <<row, error, source, digest, segments, file, faults>>

(* commit_transcript: segments, checkpoint, details and status at once. *)
CommitTranscript ==
    /\ At("commit")
    /\ IF Is(Working)
       THEN /\ row' = CommittedRow(row, "READY_TRANSLATION")
            /\ error' = None
            /\ segments' = worker.result
            /\ digest' = worker.result
            /\ asr' = [made |-> run, source |-> source, result |-> worker.result]
            /\ Leaves
       ELSE GivesUp /\ UNCHANGED <<segments, digest, asr>>
    /\ Translated /\ Rest /\ UNCHANGED <<source, file, faults>>

-----------------------------------------------------------------------------
(* Translation.                                                            *)

TranslationQueue == {"READY_TRANSLATION", "TRANSLATING"}

ModelInUse == IF digest.vi THEN Bypass ELSE Model(model)

(* run: the transcript is loaded by its digest.  A translation that was    *)
(* published before a crash is committed as it is; one that is not what    *)
(* the checkpoint says fails the job for good.                             *)
EnterTranslation ==
    /\ worker = Away
    /\ row.status \in TranslationQueue
    /\ run' = run + 1
    /\ LET ready == Is("TRANSLATING") /\ plan # Nothing /\ plan.artifact # Nothing IN
       IF \/ file.transcript # digest
          \/ ready /\ (file.translation # plan.artifact \/ file.translation.of # digest)
       THEN Fails("translation_artifact_invalid", FALSE)
       ELSE /\ Goes(IF ready /\ plan.model.id = ModelInUse.id
                    THEN [at |-> "seal", result |-> file.translation]
                    ELSE [at |-> "plan", model |-> ModelInUse])
            /\ UNCHANGED <<row, error>>
    /\ Transcribed /\ Translated /\ World /\ UNCHANGED <<file, faults>>

MakesPlan == Is("READY_TRANSLATION")

(* Mutant: the tree digest of the model is not compared. *)
SameModelById(m) == plan.model.id = m.id

(* _validate_resume_checkpoint (the bypass does not validate). *)
SameModel(m) == plan.model = m

(* initialize_translation_plan: the blocks are written over, in one         *)
(* transaction with the checkpoint and the status.                         *)
InitializePlan(sources) ==
    /\ row' = CommittedRow(row, "TRANSLATING")
    /\ error' = None
    /\ blocks' = [b \in DOMAIN sources |-> [source |-> sources[b], text |-> Nothing]]
    /\ plan' = [made |-> run, of |-> digest, model |-> worker.model, artifact |-> Nothing]

(* A plan is made, if the transcript can be cut into blocks, or the plan   *)
(* found is checked.                                                       *)
MakePlan ==
    /\ At("plan")
    /\ \/ /\ row.status \in Cancelled
          /\ GivesUp /\ UNCHANGED <<blocks, plan>>
       \/ /\ MakesPlan
          /\ \E built \in {BuildTranslationBlocks(script)} :
                IF built.error = None
                THEN InitializePlan(built.blocks) /\ Goes([worker EXCEPT !.at = "translate"])
                ELSE Fails(built.error, FALSE) /\ UNCHANGED <<blocks, plan>>
       \/ /\ Is("TRANSLATING")
          /\ IF \/ worker.model = Bypass
                \/ plan # Nothing /\ plan.of = digest /\ SameModel(worker.model)
             THEN Goes([worker EXCEPT !.at = "translate"]) /\ UNCHANGED <<row, error>>
             ELSE Fails("translation_checkpoint_invalid", FALSE)
          /\ UNCHANGED <<blocks, plan>>
    /\ Transcribed /\ Rest /\ UNCHANGED <<sealed, file, faults>>

Untranslated == {b \in DOMAIN blocks : blocks[b].text = Nothing}

(* One block of inference, the first that has no text.  A cancelled job is *)
(* left before and after it.                                               *)
TranslateBlock ==
    /\ At("translate")
    /\ Untranslated # {}
    /\ IF row.status \in Cancelled
       THEN GivesUp /\ UNCHANGED faults
       ELSE \/ /\ Goes([worker EXCEPT !.at = "block"])
               /\ UNCHANGED <<row, error, faults>>
            \/ Fault /\ \E retryable \in BOOLEAN : Fails("inference", retryable)
    /\ Transcribed /\ Translated /\ Rest /\ UNCHANGED file

(* commit_translation_block *)
CommitBlock ==
    /\ At("block")
    /\ IF Is("TRANSLATING")
       THEN /\ \E b \in Untranslated :
                  /\ \A c \in Untranslated : b <= c
                  /\ blocks' = [blocks EXCEPT ![b].text = Text(run, worker.model)]
            /\ Goes([worker EXCEPT !.at = "translate"])
            /\ UNCHANGED <<row, error>>
       ELSE GivesUp /\ UNCHANGED blocks
    /\ Transcribed /\ Rest /\ UNCHANGED <<plan, sealed, file, faults>>

(* Mutant: the checkpoint announces the artifact before it is published. *)
PublishAfterSave ==
    /\ At("translate") /\ Untranslated = {}
    /\ LET result == [made |-> run, of |-> plan.of, texts |-> blocks] IN
       /\ plan' = [plan EXCEPT !.artifact = result]
       /\ Goes([at |-> "saved", result |-> result])
    /\ Transcribed /\ Rest
    /\ UNCHANGED <<row, error, file, blocks, sealed, faults>>

(* write_translation_artifact.  The file depends on the blocks only. *)
PublishTranslation ==
    /\ At("translate") /\ Untranslated = {}
    /\ LET result == [made |-> 0, of |-> digest, texts |-> blocks] IN
       IF row.status \in Cancelled
       THEN Leaves /\ UNCHANGED file
       ELSE /\ file' = [file EXCEPT !.translation = result]
            /\ Goes([at |-> "saved", result |-> result])
    /\ Transcribed /\ Translated /\ Rest /\ UNCHANGED <<row, error, faults>>

SaveTranslation ==
    /\ At("saved")
    /\ plan' = [plan EXCEPT !.artifact = worker.result]
    /\ Goes([worker EXCEPT !.at = "seal"])
    /\ Transcribed /\ Rest
    /\ UNCHANGED <<row, error, file, blocks, sealed, faults>>

(* commit_translation_artifact checks the artifact against every block and *)
(* against the plan once more; a difference is an error of the stage.      *)
SealTranslation ==
    /\ At("seal")
    /\ IF ~Is("TRANSLATING")
       THEN GivesUp /\ UNCHANGED sealed
       ELSE IF Untranslated = {} /\ worker.result.texts = blocks
               /\ plan.of = worker.result.of
       THEN /\ row' = CommittedRow(row, "READY_TTS")
            /\ error' = None
            /\ sealed' = worker.result
            /\ Leaves
       ELSE Fails("translation_stage_failed", TRUE) /\ UNCHANGED sealed
    /\ Transcribed /\ Rest /\ UNCHANGED <<plan, blocks, file, faults>>

-----------------------------------------------------------------------------
(* The rest of the world.                                                  *)

Stays == Transcribed /\ Translated /\ UNCHANGED <<error, file, run, subtitle, script>>

(* The worker dies, or a shutdown makes it leave at its next check: what   *)
(* it holds in memory is gone.                                             *)
WorkerCrash ==
    /\ worker # Away
    /\ Fault
    /\ Leaves
    /\ Stays /\ UNCHANGED <<row, model>>

Resume ==
    /\ worker = Away
    /\ Is("FAILED") /\ row.retryable
    /\ row' = UpdatedRow(row, ResumeTarget(row.previous), FALSE, FALSE)
    /\ Stays /\ UNCHANGED <<model, worker, faults>>

ChooseLanguage ==
    /\ Is("NEEDS_LANGUAGE")
    /\ Become("TRANSCRIBING")
    /\ Stays /\ UNCHANGED <<model, worker, faults>>

(* request_cancel; finalizing is left to OfflineControl. *)
Cancel ==
    /\ row.status \in Live \ {"READY_TTS"}
    /\ row' = UpdatedRow(row, "CANCELLING", FALSE, TRUE)
    /\ Stays /\ UNCHANGED <<model, worker, faults>>

(* Another file tree is installed under the id of the model. *)
InstallModel ==
    /\ model < MaxModels
    /\ model' = model + 1
    /\ Stays /\ UNCHANGED <<row, worker, faults>>

-----------------------------------------------------------------------------
TranscriptionSteps ==
    \/ EnterTranscription
    \/ Adopt
    \/ ParseSubtitle
    \/ BeginRecognition
    \/ Recognize
    \/ PublishTranscript
    \/ SaveTranscript
    \/ CommitTranscript

TranslationSteps ==
    \/ EnterTranslation
    \/ MakePlan
    \/ TranslateBlock
    \/ CommitBlock
    \/ PublishTranslation
    \/ SaveTranslation
    \/ SealTranslation

User == Resume \/ ChooseLanguage

Next ==
    \/ TranscriptionSteps
    \/ TranslationSteps
    \/ WorkerCrash
    \/ User
    \/ Cancel
    \/ InstallModel

Spec == Init /\ [][Next]_vars

(* The worker takes its queues again after a restart (compose.yaml), and   *)
(* the properties below suppose a user who retries and answers.            *)
Fairness == WF_vars(TranscriptionSteps) /\ WF_vars(TranslationSteps) /\ WF_vars(User)

FairSpec == Spec /\ Fairness

-----------------------------------------------------------------------------
(* Properties.                                                             *)

Translating(r) == r.status \in TranslationQueue \/ r.previous \in TranslationQueue

(* Once a transcript is committed, the rows of the database, the digest in *)
(* the details, the checkpoint and the file are the same transcript, in    *)
(* whichever order publishing, saving, dying and retrying happened.        *)
OneTranscript ==
    Translating(row) \/ row.status = "READY_TTS" =>
        segments = digest /\ file.transcript = digest /\ asr.result = digest

(* A transcript that has been checkpointed is the one the job ends up      *)
(* with, and a translated block never changes: a crash before the commit,  *)
(* or a retry, does not make the worker do any of it again.                *)
WorkIsKept ==
    [][/\ asr # Nothing => /\ asr'.result = asr.result
                           /\ file'.transcript = file.transcript
       /\ blocks # NoBlocks => DOMAIN blocks' = DOMAIN blocks
       /\ \A b \in DOMAIN blocks :
            blocks[b].text # Nothing => blocks'[b] = blocks[b]]_vars

(* The sealed translation is of the committed transcript, is the file on   *)
(* disk, and was translated by one and the same model from the first block *)
(* to the last, whatever was installed in between.                         *)
SealedIsOne ==
    row.status = "READY_TTS" =>
        /\ sealed = file.translation
        /\ sealed.of = digest
        /\ \A b, c \in DOMAIN blocks : sealed.texts[b].text.by = sealed.texts[c].text.by

(* Every word that is said is in one block of the sealed translation, in   *)
(* order; no block is above the limits of the model (PHASE3_REPORT.md:59)  *)
(* or too short to be spoken, and they do not overlap.                     *)
SealedSaysAll ==
    row.status = "READY_TTS" =>
        SaysAll([b \in DOMAIN sealed.texts |-> sealed.texts[b].source], script)

(* No order of crashes makes the stage take its own work for a forgery: a  *)
(* job fails for good over its checkpoint only when the model was changed. *)
CrashIsNotFatal ==
    /\ error # "translation_artifact_invalid"
    /\ error # "translation_stage_failed"
    /\ error = "translation_checkpoint_invalid" => model > 0

(* With finitely many faults and a user who retries and answers, the job   *)
(* reaches READY_TTS, unless it is cancelled or has failed for good.       *)
StagesFinish ==
    <>(\/ row.status \in Cancelled \cup {"READY_TTS"}
       \/ row.status = "FAILED" /\ ~row.retryable)

=============================================================================
