-------------------------- MODULE TextStagesProofs --------------------------
(***************************************************************************)
(* Proofs about TextStages, for transcripts of any length, any number of   *)
(* faults and any models installed.                                        *)
(*                                                                         *)
(* The worker may die between any two steps, so what a step may rely on is *)
(* what is on disk and in the database.  The inductive invariant says how  *)
(* these agree: file, checkpoint, segments and digest of the transcript    *)
(* (TranscriptSees), plan, blocks and artifact of the translation          *)
(* (PlanSees), and what the worker holds in memory of them (WorkerSees).   *)
(*                                                                         *)
(* The second half is about build_translation_blocks: what is split, and   *)
(* merged in two walks over the blocks, stays a timeline that says the     *)
(* same words, and the walks come to an end.                               *)
(***************************************************************************)
EXTENDS TextStages, RowProofs, SequenceTheorems, WellFoundedInduction

Transcripts == [made : Nat, vi : BOOLEAN]

Models == {Bypass} \cup [id : {"model"}, tree : Nat]

(* Where the job stands, or will stand again when it is resumed.           *)
Place(r) == IF r.status = "FAILED" THEN r.previous ELSE r.status

Places ==
    TranscriptQueue \cup TranslationQueue \cup {"NEEDS_LANGUAGE", "READY_TTS", "CANCELLING"}

RowSees ==
    /\ row \in Row /\ RowOK(row)
    /\ row.status \in Places \cup {"FAILED"}
    /\ Place(row) \in Places
    /\ row.status = "FAILED" => Place(row) \in TranscriptQueue \cup TranslationQueue

TypeOK ==
    /\ source \in {"asr", "subtitle"}
    /\ model \in Nat /\ run \in Nat
    /\ file = [transcript |-> file.transcript, translation |-> file.translation]

TranscriptSees ==
    /\ asr # Nothing =>
         /\ asr.source = source /\ asr.result = file.transcript
         /\ file.transcript \in Transcripts
    /\ digest # Nothing => asr # Nothing /\ digest = asr.result /\ segments = digest
    /\ Place(row) \in TranslationQueue \cup {"READY_TTS"} => digest # Nothing

(* The model a plan is made for, or the bypass.                            *)
ModelSees(m) ==
    /\ m \in Models
    /\ m = Bypass <=> digest.vi
    /\ m # Bypass => \E t \in 0..model : m = Model(t)

(* The translation that all blocks make together.                          *)
Artifact == [made |-> 0, of |-> digest, texts |-> blocks]

Planned ==
    /\ digest # Nothing
    /\ plan = [made |-> plan.made, of |-> digest, model |-> plan.model,
               artifact |-> plan.artifact]
    /\ ModelSees(plan.model)
    /\ \A b \in DOMAIN blocks :
         /\ blocks[b] = [source |-> blocks[b].source, text |-> blocks[b].text]
         /\ blocks[b].text # Nothing => blocks[b].text.by = plan.model
    /\ LET built == BuildTranslationBlocks(script) IN
         /\ built.error = None
         /\ DOMAIN blocks = DOMAIN built.blocks
         /\ \A b \in DOMAIN blocks : blocks[b].source = built.blocks[b]
    /\ plan.artifact # Nothing =>
         plan.artifact = Artifact /\ file.translation = Artifact /\ Untranslated = {}

PlanSees ==
    /\ plan = Nothing => blocks = NoBlocks
    /\ plan # Nothing => Planned
    /\ Place(row) \in TranscriptQueue \cup {"NEEDS_LANGUAGE", "READY_TRANSLATION"} =>
         plan = Nothing
    /\ Place(row) = "TRANSLATING" => plan # Nothing
    /\ Place(row) = "READY_TTS" =>
         plan # Nothing /\ plan.artifact # Nothing /\ sealed = plan.artifact

WorkerSees ==
    LET at == worker.at IN
    /\ at \in {"away", "adopt", "parse", "begin", "recognize", "publish", "save", "commit",
               "plan", "translate", "block", "saved", "seal"}
    /\ at = "away" => worker = Away
    /\ at \in {"adopt", "parse", "begin", "recognize", "publish", "save", "commit"} =>
         row.status \in TranscriptQueue \cup {"CANCELLING"}
    /\ at \in {"parse", "begin", "recognize", "publish", "save"} => asr = Nothing
    /\ at \in {"adopt", "publish", "save", "commit"} =>
         worker = [at |-> at, result |-> worker.result] /\ worker.result \in Transcripts
    /\ at = "save" => file.transcript = worker.result
    /\ at \in {"adopt", "commit"} => asr # Nothing /\ worker.result = asr.result
    /\ at \in {"plan", "translate", "block"} =>
         /\ worker = [at |-> at, model |-> worker.model]
         /\ digest # Nothing /\ ModelSees(worker.model)
    /\ at = "plan" => row.status \in TranslationQueue \cup {"CANCELLING"}
    /\ at \in {"translate", "block", "saved", "seal"} =>
         row.status \in {"TRANSLATING", "CANCELLING"} /\ plan # Nothing
    /\ at \in {"plan", "translate", "block", "saved"} /\ plan # Nothing =>
         plan.artifact = Nothing
    /\ at \in {"translate", "block"} => worker.model = plan.model
    /\ at \in {"saved", "seal"} =>
         /\ worker = [at |-> at, result |-> Artifact]
         /\ file.translation = Artifact /\ Untranslated = {}
    /\ at = "seal" => plan.artifact = Artifact

IInv ==
    /\ TypeOK
    /\ RowSees
    /\ TranscriptSees
    /\ PlanSees
    /\ WorkerSees
    /\ CrashIsNotFatal

-----------------------------------------------------------------------------
(* The refusals of build_translation_blocks are its own.                   *)
LEMMA RefusalsOfBlocks ==
    ASSUME NEW s
    PROVE  BuildTranslationBlocks(s).error \in
             {None, "translation_block_too_long", "translation_timeline_invalid",
              "translation_short_block_unmergeable"}
<1> DEFINE Codes == {None, "translation_block_too_long", "translation_timeline_invalid",
                     "translation_short_block_unmergeable"}
<1>1. \A walk : Validated(walk).error \in Codes
  BY DEF Validated, Built, Refused, None
<1>2. \A walk : Apply(Validated, walk).error \in Codes
  BY <1>1 DEF Apply
<1>3. Refused("translation_block_too_long").error \in Codes
  BY DEF Refused
<1> QED
  BY <1>2, <1>3 DEF BuildTranslationBlocks, Apply

(* Records with these fields are not Nothing.                              *)
LEMMA Somethings ==
    /\ \A t \in Transcripts : t # Nothing
    /\ \A m, s, r : [made |-> m, source |-> s, result |-> r] # Nothing
    /\ \A m, o, d, a : [made |-> m, of |-> o, model |-> d, artifact |-> a] # Nothing
    /\ \A o, t : [made |-> 0, of |-> o, texts |-> t] # Nothing
    /\ \A m, b : Text(m, b) # Nothing
<1>1. DOMAIN Nothing = {"made"}
  BY DEF Nothing
<1> QED
  BY <1>1 DEF Transcripts, Text, Nothing

(* The bypass is no model, and models installed one after the other are    *)
(* different ones.                                                         *)
LEMMA ModelsDiffer ==
    /\ \A t : Model(t) # Bypass /\ Model(t).id # Bypass.id
    /\ \A t, u : Model(t) = Model(u) => t = u
BY DEF Model, Bypass

-----------------------------------------------------------------------------
(* Rows.  Where the job stands, in every case the steps write.             *)

Early == TranscriptQueue \cup {"NEEDS_LANGUAGE"}

(* The places are live statuses but the cancelling one.                    *)
LEMMA PlacesAreLive ==
    /\ Early \cup TranslationQueue \cup {"READY_TTS"} \subseteq Live
    /\ Live \subseteq Statuses /\ Live \cap (Cancelled \cup Terminal \cup Parked) = {}
    /\ Places = Early \cup TranslationQueue \cup {"READY_TTS", "CANCELLING"}
BY DEF Early, TranscriptQueue, TranslationQueue, Places, Live, Active, Cancelled,
       Statuses, Terminal, Parked

(* A job in a live status is at that place, and is not cancelled.          *)
LEMMA LiveRow ==
    ASSUME RowSees, row.status \in Live
    PROVE  /\ ~row.cancel /\ row.cancel \in BOOLEAN /\ row.previous = "none"
           /\ Place(row) = row.status
BY NoRowIsNoRow, PlacesAreLive DEF RowSees, RowOK, Row, Place, Parked, Live

(* A job that fails keeps its place: the status it failed in.              *)
LEMMA FailRow ==
    ASSUME RowSees, row.status \in TranscriptQueue \cup TranslationQueue,
           NEW retryable \in BOOLEAN, row' = UpdatedRow(row, "FAILED", retryable, row.cancel)
    PROVE  RowSees' /\ Place(row)' = Place(row)
<1>1. row.status \in Live /\ row \in Row /\ RowOK(row)
  BY PlacesAreLive DEF Early, RowSees
<1>2. ~row.cancel /\ row.cancel \in BOOLEAN /\ Place(row) = row.status
  BY <1>1, LiveRow
<1>3. "FAILED" \in Statuses /\ "FAILED" \notin Cancelled /\ "FAILED" # "CANCELLING"
  BY DEF Statuses, Parked, Cancelled
<1>4. row' \in Row /\ RowOK(row')
  BY <1>1, <1>2, <1>3, UpdatedRowOK
<1>5. row'.status = "FAILED" /\ row'.previous = row.status
  BY <1>1, PlacesAreLive DEF UpdatedRow, PreviousAfter, Parked
<1> QED
  BY <1>2, <1>4, <1>5 DEF RowSees, Place, Places

(* A job that moves on within transcription.                               *)
LEMMA BecomeRow ==
    ASSUME RowSees, row.status \in Early, NEW s \in Early,
           row' = UpdatedRow(row, s, FALSE, row.cancel)
    PROVE  RowSees' /\ row'.status = s /\ Place(row)' = s
<1>1. row.status \in Live /\ row \in Row /\ RowOK(row)
  BY PlacesAreLive DEF RowSees
<1>2. ~row.cancel /\ row.cancel \in BOOLEAN
  BY <1>1, LiveRow
<1>3. s \in Statuses \ (Cancelled \cup Parked \cup {"CANCELLING", "FAILED"})
  BY PlacesAreLive DEF Cancelled, Parked
<1>4. row' \in Row /\ RowOK(row')
  BY <1>1, <1>2, <1>3, UpdatedRowOK
<1>5. row'.status = s
  BY DEF UpdatedRow
<1> QED
  BY <1>3, <1>4, <1>5, PlacesAreLive DEF RowSees, Place

(* A job whose status is committed with a result.                          *)
LEMMA CommitRow ==
    ASSUME RowSees, row.status \in Live,
           NEW s \in TranslationQueue \cup {"READY_TTS"}, row' = CommittedRow(row, s)
    PROVE  RowSees' /\ row'.status = s /\ Place(row)' = s
<1>1. s \in Live /\ s # "FAILED" /\ s \in Places
  BY PlacesAreLive DEF Parked
<1>2. Move(row, row')
  BY <1>1, CommitMove DEF RowSees
<1>3. row' \in Row /\ RowOK(row')
  BY <1>2, NoRowIsNoRow DEF Move, RowOK
<1>4. row'.status = s
  BY DEF CommittedRow, RowSees, Row
<1> QED
  BY <1>1, <1>3, <1>4 DEF RowSees, Place

(* A job that is cancelled has no place any more.                          *)
LEMMA CancelRow ==
    ASSUME RowSees, row.status \in Live, row' = UpdatedRow(row, "CANCELLING", FALSE, TRUE)
    PROVE  RowSees' /\ row'.status = "CANCELLING" /\ Place(row)' = "CANCELLING"
<1>1. "CANCELLING" \in Statuses /\ "CANCELLING" \in Cancelled /\ "CANCELLING" \notin Parked
  BY DEF Statuses, Active, Cancelled, Parked
<1>2. row.status \notin Terminal
  BY PlacesAreLive
<1>3. row' \in Row /\ RowOK(row')
  BY <1>1, <1>2, UpdatedRowOK DEF RowSees
<1>4. row'.status = "CANCELLING"
  BY DEF UpdatedRow
<1> QED
  BY <1>3, <1>4 DEF RowSees, Place, Places

(* A job that is resumed is where it was.                                  *)
LEMMA ResumeRow ==
    ASSUME RowSees, row.status = "FAILED",
           row' = UpdatedRow(row, ResumeTarget(row.previous), FALSE, FALSE)
    PROVE  RowSees' /\ Place(row)' = Place(row)
<1>1. row.previous \in TranscriptQueue \cup TranslationQueue /\ Place(row) = row.previous
  BY DEF RowSees, Place
<1>2. row.previous \in Live /\ row.previous # "none" /\ row.previous \in Places
  BY <1>1, PlacesAreLive DEF Early, Live, Active
<1>3. ResumeTarget(row.previous) = row.previous
  BY <1>2, PlacesAreLive DEF ResumeTarget
<1>4. row.previous \notin Cancelled \cup Parked /\ row.previous \in Statuses
  BY <1>2, PlacesAreLive
<1>5. row' \in Row /\ RowOK(row')
  BY <1>3, <1>4, UpdatedRowOK DEF RowSees, Cancelled
<1>6. row'.status = row.previous /\ row'.status # "FAILED"
  BY <1>3, <1>4 DEF UpdatedRow, Parked
<1> QED
  BY <1>1, <1>2, <1>5, <1>6 DEF RowSees, Place

-----------------------------------------------------------------------------
(* Steps that leave what is on disk and in the database alone.             *)

(* What WorkIsKept says of one step.                                       *)
Kept ==
    /\ asr # Nothing => asr'.result = asr.result /\ file'.transcript = file.transcript
    /\ blocks # NoBlocks => DOMAIN blocks' = DOMAIN blocks
    /\ \A b \in DOMAIN blocks : blocks[b].text # Nothing => blocks'[b] = blocks[b]

(* The place of the job may change without a commit: before a transcript,  *)
(* and by cancelling.                                                      *)
PlaceMoves ==
    \/ Place(row)' = Place(row)
    \/ Place(row)' = "CANCELLING"
    \/ Place(row) \in Early /\ Place(row)' \in Early

Artifacts == <<file, digest, segments, plan, blocks, sealed, script>>

(* A model that was known is still known.                                  *)
LEMMA ModelStillSeen ==
    ASSUME model \in Nat, model' \in Nat, model <= model', digest' = digest,
           NEW m, ModelSees(m)
    PROVE  m \in Models /\ (m = Bypass <=> digest'.vi)
           /\ (m # Bypass => \E t \in 0..model' : m = Model(t))
BY DEF ModelSees

(* A step that leaves the artifacts alone need only be looked at for the   *)
(* row, the worker and the error.                                          *)
LEMMA FramePreserves ==
    ASSUME IInv, UNCHANGED <<Artifacts, asr>>,
           source' \in {"asr", "subtitle"}, asr # Nothing => source' = source,
           model' \in Nat, model <= model', run' \in Nat,
           RowSees', PlaceMoves, WorkerSees', CrashIsNotFatal'
    PROVE  IInv' /\ Kept
<1> USE DEF Artifacts
<1>1. TypeOK'
  BY DEF IInv, TypeOK
<1>2. Place(row)' \in TranslationQueue \cup {"READY_TTS"} => Place(row)' = Place(row)
  BY DEF PlaceMoves, Early, TranscriptQueue, TranslationQueue
<1>3. TranscriptSees'
  BY <1>2 DEF IInv, TranscriptSees
<1>4. Place(row)' \in Early => Place(row) \in Early
  BY DEF PlaceMoves, Early, TranscriptQueue
<1>5. PlanSees'
  <2>1. plan = Nothing => blocks = NoBlocks
    BY DEF IInv, PlanSees
  <2>2. ASSUME plan # Nothing PROVE Planned'
    <3>1. Planned
      BY <2>2 DEF IInv, PlanSees
    <3>2. ModelSees(plan.model)'
      BY <3>1, ModelStillSeen DEF IInv, TypeOK, Planned, ModelSees
    <3>3. Artifact' = Artifact /\ Untranslated' = Untranslated
      BY DEF Artifact, Untranslated
    <3> QED BY <3>1, <3>2, <3>3 DEF Planned
  <2>3. Place(row)' \in Early \cup {"READY_TRANSLATION"} => plan = Nothing
    BY <1>2, <1>4 DEF IInv, PlanSees, Early, TranslationQueue
  <2>4. Place(row)' = "TRANSLATING" => plan # Nothing
    BY <1>2 DEF IInv, PlanSees, TranslationQueue
  <2>5. Place(row)' = "READY_TTS" =>
          plan # Nothing /\ plan.artifact # Nothing /\ sealed = plan.artifact
    BY <1>2 DEF IInv, PlanSees
  <2> QED BY <2>1, <2>2, <2>3, <2>4, <2>5 DEF PlanSees, Early
<1>6. Kept
  BY DEF Kept
<1> QED BY <1>1, <1>3, <1>5, <1>6 DEF IInv

(* A worker that has left holds nothing.                                   *)
LEMMA AwaySees ==
    ASSUME worker' = Away
    PROVE  WorkerSees'
BY DEF WorkerSees, Away

(* The user and the world do not disturb the worker.                       *)
LEMMA WorkerKept ==
    ASSUME IInv, UNCHANGED <<Artifacts, asr, worker>>,
           model' \in Nat, model <= model', row' = row \/ row'.status = "CANCELLING"
    PROVE  WorkerSees'
<1> USE DEF Artifacts
<1>1. worker.at \in {"plan", "translate", "block"} => ModelSees(worker.model)'
  BY ModelStillSeen DEF IInv, TypeOK, WorkerSees, ModelSees
<1>2. Artifact' = Artifact /\ Untranslated' = Untranslated
  BY DEF Artifact, Untranslated
<1>3. \A S : row.status \in S \cup {"CANCELLING"} => row'.status \in S \cup {"CANCELLING"}
  OBVIOUS
<1>4. row.status \in {"TRANSLATING", "CANCELLING"} => row'.status \in {"TRANSLATING", "CANCELLING"}
  OBVIOUS
<1> QED
  BY <1>1, <1>2, <1>3, <1>4 DEF IInv, WorkerSees

(* A stage that fails, or gives up, leaves the job where it stood.         *)
LEMMA FailsPreserves ==
    ASSUME IInv, UNCHANGED <<Artifacts, asr, source, model>>, run' \in Nat,
           row.status \in TranscriptQueue \cup TranslationQueue \cup {"CANCELLING"},
           NEW code, NEW retryable \in BOOLEAN, Fails(code, retryable),
           row.status \notin Cancelled =>
             /\ code \notin {"translation_artifact_invalid", "translation_stage_failed"}
             /\ code = "translation_checkpoint_invalid" => model > 0
    PROVE  IInv' /\ Kept
<1>1. WorkerSees'
  BY AwaySees DEF Fails, Leaves
<1>2. CASE row.status \in Cancelled
  <2>1. UNCHANGED <<row, error>>
    BY <1>2 DEF Fails
  <2>2. RowSees' /\ PlaceMoves /\ CrashIsNotFatal'
    BY <2>1 DEF IInv, RowSees, PlaceMoves, Place, CrashIsNotFatal
  <2> QED BY <1>1, <2>2, FramePreserves DEF IInv, TypeOK
<1>3. CASE row.status \notin Cancelled
  <2>1. row' = UpdatedRow(row, "FAILED", retryable, row.cancel) /\ error' = code
    BY <1>3 DEF Fails
  <2>2. row.status \in TranscriptQueue \cup TranslationQueue
    BY <1>3 DEF Cancelled
  <2>3. RowSees' /\ PlaceMoves
    BY <2>1, <2>2, FailRow DEF IInv, PlaceMoves
  <2>4. CrashIsNotFatal'
    BY <1>3, <2>1 DEF CrashIsNotFatal
  <2> QED BY <1>1, <2>3, <2>4, FramePreserves DEF IInv, TypeOK
<1> QED BY <1>2, <1>3

(* A stage that is left, by a failure or a cancellation.                   *)
LEMMA GivesUpPreserves ==
    ASSUME IInv, UNCHANGED <<Artifacts, asr, source, model>>, run' \in Nat, GivesUp
    PROVE  IInv' /\ Kept
<1>1. WorkerSees'
  BY AwaySees DEF GivesUp, Leaves
<1>2. RowSees' /\ PlaceMoves /\ CrashIsNotFatal'
  BY DEF IInv, RowSees, PlaceMoves, Place, CrashIsNotFatal, GivesUp
<1> QED BY <1>1, <1>2, FramePreserves DEF IInv, TypeOK

-----------------------------------------------------------------------------
(* Transcription.                                                          *)

(* The worker takes a job from the queue of transcription.                 *)
LEMMA EnterTranscriptionPreserves ==
    ASSUME IInv, EnterTranscription
    PROVE  IInv' /\ Kept
<1> USE DEF EnterTranscription
<1>1. UNCHANGED <<Artifacts, asr, source, model, row, error>> /\ run' \in Nat
  BY DEF Artifacts, Transcribed, Translated, World, IInv, TypeOK
<1>2. row.status \in TranscriptQueue
  OBVIOUS
<1>3. ASSUME Reusable PROVE WorkerSees'
  <2>1. worker' = [at |-> "adopt", result |-> file.transcript]
    BY <1>3 DEF Goes
  <2>2. asr # Nothing /\ file.transcript = asr.result /\ file.transcript \in Transcripts
    BY <1>3 DEF Reusable, IInv, TranscriptSees
  <2> QED BY <1>1, <1>2, <2>1, <2>2 DEF WorkerSees, Artifacts
<1>4. ASSUME ~Reusable PROVE WorkerSees'
  <2>1. asr = Nothing
    BY <1>4 DEF Reusable, IInv, TranscriptSees
  <2>2. worker' = [at |-> "parse"] \/ worker' = [at |-> "begin"]
    BY <1>4 DEF Goes
  <2> QED BY <1>1, <1>2, <2>1, <2>2 DEF WorkerSees
<1>5. WorkerSees' /\ RowSees' /\ PlaceMoves /\ CrashIsNotFatal'
  BY <1>1, <1>3, <1>4 DEF IInv, RowSees, PlaceMoves, Place, CrashIsNotFatal
<1> QED BY <1>1, <1>5, FramePreserves DEF IInv, TypeOK

(* _ensure_running_status: the status of the source, or nothing more.      *)
LEMMA EnsureRunningPreserves ==
    ASSUME IInv, UNCHANGED <<Artifacts, asr, source, model, run>>,
           NEW w, EnsureRunning(w),
           worker' = w /\ row'.status \in TranscriptQueue => WorkerSees'
    PROVE  IInv' /\ Kept
<1>1. CASE row.status \in {"READY_OFFLINE", Working}
  <2>1. Working \in Early /\ Working \in TranscriptQueue /\ row.status \in Early
    BY <1>1 DEF Working, Early, TranscriptQueue
  <2>2. row' = UpdatedRow(row, Working, FALSE, row.cancel) /\ worker' = w
        /\ UNCHANGED error
    BY <1>1 DEF EnsureRunning, Become, Goes
  <2>3. RowSees' /\ row'.status = Working /\ Place(row)' = Working
    BY <2>1, <2>2, BecomeRow DEF IInv
  <2>4. Place(row) = row.status
    BY <2>1, PlacesAreLive, LiveRow DEF IInv
  <2>5. WorkerSees' /\ PlaceMoves /\ CrashIsNotFatal'
    BY <2>1, <2>2, <2>3, <2>4 DEF PlaceMoves, IInv, CrashIsNotFatal
  <2> QED BY <2>3, <2>5, FramePreserves DEF IInv, TypeOK
<1>2. CASE row.status \notin {"READY_OFFLINE", Working}
  <2>1. GivesUp
    BY <1>2 DEF EnsureRunning, GivesUp
  <2> QED BY <2>1, GivesUpPreserves DEF IInv, TypeOK
<1> QED BY <1>1, <1>2

(* A transcript that is checkpointed is committed without another run.     *)
LEMMA AdoptPreserves ==
    ASSUME IInv, Adopt
    PROVE  IInv' /\ Kept
<1>1. UNCHANGED <<Artifacts, asr, source, model, run>>
  BY DEF Adopt, Artifacts, Transcribed, Translated, World, Rest
<1>2. worker = [at |-> "adopt", result |-> worker.result] /\ worker.result \in Transcripts
      /\ asr # Nothing /\ worker.result = asr.result
  BY DEF Adopt, At, IInv, WorkerSees
<1>3. [worker EXCEPT !.at = "commit"] = [at |-> "commit", result |-> worker.result]
  BY <1>2
<1>4. ASSUME worker' = [at |-> "commit", result |-> worker.result],
             row'.status \in TranscriptQueue
      PROVE  WorkerSees'
  BY <1>1, <1>2, <1>4 DEF WorkerSees
<1> QED BY <1>1, <1>3, <1>4, EnsureRunningPreserves DEF Adopt

(* The subtitle of the job becomes its transcript.                         *)
LEMMA ParseSubtitlePreserves ==
    ASSUME IInv, ParseSubtitle
    PROVE  IInv' /\ Kept
<1>1. UNCHANGED <<Artifacts, asr, model, run>>
  BY DEF ParseSubtitle, Artifacts, Translated, World, Rest
<1>2. asr = Nothing /\ row.status \in TranscriptQueue \cup {"CANCELLING"}
  BY DEF ParseSubtitle, At, IInv, WorkerSees
<1>3. ASSUME NEW result \in Parsed,
             EnsureRunning([at |-> "publish", result |-> result]), UNCHANGED source
      PROVE  IInv' /\ Kept
  <2>1. result \in Transcripts
    BY DEF Parsed, Transcript, Transcripts
  <2>2. ASSUME worker' = [at |-> "publish", result |-> result],
               row'.status \in TranscriptQueue
        PROVE  WorkerSees'
    BY <1>1, <1>2, <2>1, <2>2 DEF WorkerSees
  <2> QED BY <1>1, <1>3, <2>2, EnsureRunningPreserves
<1>4. ASSUME Is("READY_OFFLINE"), source' = "asr", Become("TRANSCRIBING"),
             Goes([at |-> "recognize"]), UNCHANGED error
      PROVE  IInv' /\ Kept
  <2>1. row.status \in Early /\ "TRANSCRIBING" \in Early
    BY <1>4 DEF Is, Early, TranscriptQueue
  <2>2. RowSees' /\ row'.status = "TRANSCRIBING" /\ Place(row)' = "TRANSCRIBING"
    BY <1>4, <2>1, BecomeRow DEF IInv, Become
  <2>3. Place(row) = row.status
    BY <2>1, PlacesAreLive, LiveRow DEF IInv
  <2>4. PlaceMoves /\ CrashIsNotFatal'
    BY <1>1, <1>4, <2>1, <2>2, <2>3 DEF PlaceMoves, IInv, CrashIsNotFatal
  <2>5. WorkerSees'
    BY <1>1, <1>2, <1>4, <2>2 DEF WorkerSees, Goes, TranscriptQueue
  <2> QED BY <1>1, <1>2, <1>4, <2>2, <2>4, <2>5, FramePreserves DEF IInv, TypeOK
<1>5. ASSUME Fails("transcript_invalid", FALSE), UNCHANGED source
      PROVE  IInv' /\ Kept
  BY <1>1, <1>2, <1>5, FailsPreserves DEF IInv, TypeOK
<1> QED BY <1>3, <1>4, <1>5 DEF ParseSubtitle

(* A job without a subtitle of use goes to recognition.                    *)
LEMMA BeginRecognitionPreserves ==
    ASSUME IInv, BeginRecognition
    PROVE  IInv' /\ Kept
<1>1. UNCHANGED <<Artifacts, asr, source, model, run>>
  BY DEF BeginRecognition, Artifacts, Transcribed, Translated, World, Rest
<1>2. asr = Nothing
  BY DEF BeginRecognition, At, IInv, WorkerSees
<1>3. ASSUME worker' = [at |-> "recognize"], row'.status \in TranscriptQueue
      PROVE  WorkerSees'
  BY <1>1, <1>2, <1>3 DEF WorkerSees
<1> QED BY <1>1, <1>3, EnsureRunningPreserves DEF BeginRecognition

(* The model gives a transcript, asks for its language, or fails.          *)
LEMMA RecognizePreserves ==
    ASSUME IInv, Recognize
    PROVE  IInv' /\ Kept
<1>1. UNCHANGED <<Artifacts, asr, source, model, run>>
  BY DEF Recognize, Artifacts, Transcribed, Translated, World, Rest
<1>2. asr = Nothing /\ row.status \in TranscriptQueue \cup {"CANCELLING"}
  BY DEF Recognize, At, IInv, WorkerSees
<1>3. ASSUME NEW vi \in BOOLEAN,
             Goes([at |-> "publish", result |-> Transcript(run, vi)]),
             UNCHANGED <<row, error>>
      PROVE  IInv' /\ Kept
  <2>1. Transcript(run, vi) \in Transcripts
    BY DEF Transcript, Transcripts, IInv, TypeOK
  <2>2. WorkerSees'
    BY <1>1, <1>2, <1>3, <2>1 DEF WorkerSees, Goes
  <2>3. RowSees' /\ PlaceMoves /\ CrashIsNotFatal'
    BY <1>1, <1>3 DEF IInv, RowSees, PlaceMoves, Place, CrashIsNotFatal
  <2> QED BY <1>1, <2>2, <2>3, FramePreserves DEF IInv, TypeOK
<1>4. ASSUME RequireLanguage
      PROVE  IInv' /\ Kept
  <2>1. CASE Is("TRANSCRIBING")
    <3>1. row.status \in Early /\ "NEEDS_LANGUAGE" \in Early /\ row.status \in Live
      BY <2>1, PlacesAreLive DEF Is, Early, TranscriptQueue
    <3>2. RowSees' /\ Place(row)' = "NEEDS_LANGUAGE" /\ Place(row) = row.status
      BY <1>4, <2>1, <3>1, BecomeRow, LiveRow DEF IInv, Become, RequireLanguage
    <3>3. PlaceMoves /\ CrashIsNotFatal'
      BY <1>1, <1>4, <2>1, <3>1, <3>2
      DEF PlaceMoves, IInv, CrashIsNotFatal, RequireLanguage
    <3>4. WorkerSees'
      BY <1>4, <2>1, AwaySees DEF RequireLanguage, Leaves
    <3> QED BY <1>1, <3>2, <3>3, <3>4, FramePreserves DEF IInv, TypeOK
  <2>2. CASE ~Is("TRANSCRIBING")
    BY <1>1, <1>4, <2>2, GivesUpPreserves DEF RequireLanguage, IInv, TypeOK
  <2> QED BY <2>1, <2>2
<1>5. ASSUME NEW retryable \in BOOLEAN, Fails("recognition", retryable)
      PROVE  IInv' /\ Kept
  BY <1>1, <1>2, <1>5, FailsPreserves DEF IInv, TypeOK
<1> QED BY <1>3, <1>4, <1>5 DEF Recognize

(* Nothing of a transcript that is being published is recorded yet.        *)
LEMMA PublishTranscriptPreserves ==
    ASSUME IInv, PublishTranscript
    PROVE  IInv' /\ Kept
<1>1. UNCHANGED <<row, error, source, asr, digest, segments, plan, blocks, sealed, model,
                  script, run>>
  BY DEF PublishTranscript, Transcribed, Translated, World, Rest
<1>2. asr = Nothing /\ worker.result \in Transcripts
      /\ worker = [at |-> "publish", result |-> worker.result]
      /\ row.status \in TranscriptQueue \cup {"CANCELLING"}
  BY DEF PublishTranscript, At, IInv, WorkerSees
<1>3. file' = [transcript |-> worker.result, translation |-> file.translation]
      /\ worker' = [at |-> "save", result |-> worker.result]
  BY <1>2 DEF PublishTranscript, Goes, IInv, TypeOK
<1>4. digest = Nothing
  BY <1>2 DEF IInv, TranscriptSees
<1>5. TypeOK' /\ RowSees' /\ CrashIsNotFatal' /\ Place(row)' = Place(row)
  BY <1>1, <1>3 DEF IInv, TypeOK, RowSees, Place, CrashIsNotFatal
<1>6. TranscriptSees'
  BY <1>1, <1>2, <1>4, <1>5 DEF IInv, TranscriptSees
<1>7. plan = Nothing
  BY <1>4 DEF IInv, PlanSees, Planned
<1>8. PlanSees'
  BY <1>1, <1>5, <1>7 DEF IInv, PlanSees
<1>9. WorkerSees'
  BY <1>1, <1>2, <1>3 DEF WorkerSees
<1>10. Kept
  BY <1>1, <1>2 DEF Kept
<1> QED BY <1>5, <1>6, <1>8, <1>9, <1>10 DEF IInv

(* The transcript is published as a file.                                  *)
LEMMA SaveTranscriptPreserves ==
    ASSUME IInv, SaveTranscript
    PROVE  IInv' /\ Kept
<1>1. UNCHANGED <<row, error, source, digest, segments, file, plan, blocks, sealed, model,
                  script, run>>
  BY DEF SaveTranscript, Translated, World, Rest
<1>2. asr = Nothing /\ worker.result \in Transcripts /\ file.transcript = worker.result
      /\ worker = [at |-> "save", result |-> worker.result]
      /\ row.status \in TranscriptQueue \cup {"CANCELLING"}
  BY DEF SaveTranscript, At, IInv, WorkerSees
<1>3. asr' = [made |-> run, source |-> source, result |-> worker.result]
      /\ worker' = [at |-> "commit", result |-> worker.result]
  BY <1>2 DEF SaveTranscript, Goes
<1>4. asr' # Nothing
  BY <1>3, Somethings
<1>5. digest = Nothing
  BY <1>2 DEF IInv, TranscriptSees
<1>6. TypeOK' /\ RowSees' /\ CrashIsNotFatal' /\ Place(row)' = Place(row)
  BY <1>1 DEF IInv, TypeOK, RowSees, Place, CrashIsNotFatal
<1>7. TranscriptSees'
  BY <1>1, <1>2, <1>3, <1>5, <1>6 DEF IInv, TranscriptSees
<1>8. plan = Nothing
  BY <1>5 DEF IInv, PlanSees, Planned
<1>9. PlanSees'
  BY <1>1, <1>6, <1>8 DEF IInv, PlanSees
<1>10. WorkerSees'
  BY <1>1, <1>2, <1>3, <1>4 DEF WorkerSees
<1>11. Kept
  BY <1>1, <1>2 DEF Kept
<1> QED BY <1>6, <1>7, <1>9, <1>10, <1>11 DEF IInv

(* Segments, digest, checkpoint and status are committed together.         *)
LEMMA CommitTranscriptPreserves ==
    ASSUME IInv, CommitTranscript
    PROVE  IInv' /\ Kept
<1>1. UNCHANGED <<source, file, plan, blocks, sealed, model, script, run>>
  BY DEF CommitTranscript, Translated, World, Rest
<1>2. asr # Nothing /\ worker.result \in Transcripts /\ worker.result = asr.result
  BY DEF CommitTranscript, At, IInv, WorkerSees
<1>3. CASE Is(Working)
  <2>1. row.status \in Early
    BY <1>3 DEF Is, Working, Early, TranscriptQueue
  <2>2. row.status \in Live /\ Place(row) = row.status
    BY <2>1, PlacesAreLive, LiveRow DEF IInv
  <2>3. row' = CommittedRow(row, "READY_TRANSLATION") /\ error' = None
        /\ segments' = worker.result /\ digest' = worker.result /\ worker' = Away
        /\ asr' = [made |-> run, source |-> source, result |-> worker.result]
    BY <1>3 DEF CommitTranscript, Leaves
  <2>4. RowSees' /\ Place(row)' = "READY_TRANSLATION"
    BY <2>2, <2>3, CommitRow DEF IInv, TranslationQueue
  <2>5. plan = Nothing /\ blocks = NoBlocks
    BY <2>1, <2>2 DEF IInv, PlanSees, Early
  <2>6. TypeOK' /\ CrashIsNotFatal'
    BY <1>1, <2>3 DEF IInv, TypeOK, CrashIsNotFatal, None
  <2>7. asr' # Nothing /\ digest' # Nothing
    BY <1>2, <2>3, Somethings
  <2>8. asr.source = source /\ asr.result = file.transcript
    BY <1>2 DEF IInv, TranscriptSees
  <2>9. TranscriptSees'
    BY <1>1, <1>2, <2>3, <2>7, <2>8 DEF TranscriptSees
  <2>10. PlanSees'
    BY <1>1, <2>4, <2>5 DEF PlanSees
  <2>11. Kept
    BY <1>1, <1>2, <2>3 DEF Kept
  <2> QED BY <2>3, <2>4, <2>6, <2>9, <2>10, <2>11, AwaySees DEF IInv
<1>4. CASE ~Is(Working)
  <2>1. GivesUp /\ UNCHANGED <<Artifacts, asr>>
    BY <1>1, <1>4 DEF CommitTranscript, Artifacts
  <2> QED BY <1>1, <2>1, GivesUpPreserves DEF IInv, TypeOK
<1> QED BY <1>3, <1>4

-----------------------------------------------------------------------------
(* Translation.                                                            *)

(* The transcript a job is translated from is on disk.                     *)
LEMMA TranscriptThere ==
    ASSUME IInv, Place(row) \in TranslationQueue \cup {"READY_TTS"}
    PROVE  /\ digest # Nothing /\ digest \in Transcripts
           /\ file.transcript = digest /\ segments = digest /\ asr.result = digest
BY DEF IInv, TranscriptSees

(* The worker takes a job from the queue of translation, or refuses its    *)
(* files.                                                                  *)
LEMMA EnterTranslationPreserves ==
    ASSUME IInv, EnterTranslation
    PROVE  IInv' /\ Kept
<1> DEFINE ready == Is("TRANSLATING") /\ plan # Nothing /\ plan.artifact # Nothing
<1>1. UNCHANGED <<Artifacts, asr, source, model>> /\ run' \in Nat
  BY DEF EnterTranslation, Artifacts, Transcribed, Translated, World, IInv, TypeOK
<1>2. row.status \in TranslationQueue
  BY DEF EnterTranslation
<1>3. Place(row) = row.status
  BY <1>2, PlacesAreLive, LiveRow DEF IInv
<1>4. digest # Nothing /\ digest \in Transcripts /\ file.transcript = digest
  BY <1>2, <1>3, TranscriptThere
<1>5. plan # Nothing => Planned
  BY DEF IInv, PlanSees
<1>6. ready => /\ plan.artifact = Artifact /\ file.translation = Artifact /\ Untranslated = {}
               /\ file.translation.of = digest /\ plan.model.id = ModelInUse.id
  <2>1. ready => /\ plan.artifact = Artifact /\ file.translation = Artifact
                 /\ Untranslated = {} /\ ModelSees(plan.model)
    BY <1>5 DEF Planned
  <2>2. Artifact.of = digest
    BY DEF Artifact
  <2>3. ModelSees(plan.model) => plan.model.id = ModelInUse.id
    BY DEF ModelSees, ModelInUse, Models, Model, Bypass
  <2> QED BY <2>1, <2>2, <2>3
<1>7. /\ UNCHANGED <<row, error>>
      /\ worker' = IF ready THEN [at |-> "seal", result |-> file.translation]
                   ELSE [at |-> "plan", model |-> ModelInUse]
  BY <1>4, <1>6 DEF EnterTranslation, Goes
<1>8. WorkerSees'
  <2>1. Artifact' = Artifact /\ Untranslated' = Untranslated
    BY <1>1 DEF Artifact, Artifacts, Untranslated
  <2>2. CASE ready
    <3>1. row.status = "TRANSLATING"
      BY <2>2 DEF Is
    <3> QED BY <1>1, <1>6, <1>7, <2>1, <2>2, <3>1 DEF WorkerSees, Artifacts
  <2>3. CASE ~ready
    <3>1. plan # Nothing => plan.artifact = Nothing
      <4>1. row.status = "READY_TRANSLATION" => plan = Nothing
        BY <1>3 DEF IInv, PlanSees
      <4> QED BY <1>2, <2>3, <4>1 DEF TranslationQueue, Is
    <3>2. ModelSees(ModelInUse)
      BY <1>4, ModelsDiffer
      DEF ModelSees, ModelInUse, Models, Model, Transcripts, IInv, TypeOK
    <3>3. ModelSees(ModelInUse)'
      BY <1>1, <3>2, ModelStillSeen DEF ModelSees, ModelInUse, Artifacts, IInv, TypeOK
    <3>4. worker'.model = ModelInUse' /\ worker'.at = "plan"
          /\ worker' = [at |-> "plan", model |-> worker'.model]
      BY <1>1, <1>7, <2>3 DEF ModelInUse, Artifacts
    <3> QED BY <1>1, <1>2, <1>4, <1>7, <3>1, <3>3, <3>4 DEF WorkerSees, Artifacts
  <2> QED BY <2>2, <2>3
<1>9. RowSees' /\ PlaceMoves /\ CrashIsNotFatal'
  BY <1>1, <1>7 DEF IInv, RowSees, PlaceMoves, Place, CrashIsNotFatal
<1> QED BY <1>1, <1>8, <1>9, FramePreserves DEF IInv, TypeOK

(* A plan that is found fits its checkpoint, unless a model was installed. *)
LEMMA FoundPlan ==
    ASSUME IInv, At("plan"), Is("TRANSLATING"),
           ~(\/ worker.model = Bypass
             \/ plan # Nothing /\ plan.of = digest /\ SameModel(worker.model))
    PROVE  model > 0
<1>1. ModelSees(worker.model) /\ worker.model # Bypass
  BY DEF At, IInv, WorkerSees
<1>2. "TRANSLATING" = Place(row)
  BY DEF Is, Place
<1>3. Planned /\ plan # Nothing
  BY <1>2 DEF IInv, PlanSees
<1>4. plan.of = digest /\ ModelSees(plan.model) /\ plan.model # Bypass
  BY <1>1, <1>3 DEF Planned, ModelSees
<1>5. PICK t \in 0..model : worker.model = Model(t)
  BY <1>1 DEF ModelSees
<1>6. PICK u \in 0..model : plan.model = Model(u)
  BY <1>4 DEF ModelSees
<1>7. t # u
  BY <1>3, <1>4, <1>5, <1>6 DEF SameModel
<1> QED BY <1>7 DEF IInv, TypeOK

(* A plan that is made fits what it is made from.                          *)
LEMMA InitializePreserves ==
    ASSUME IInv, At("plan"), MakesPlan,
           UNCHANGED <<source, asr, digest, segments, file, sealed, model, script, run>>,
           BuildTranslationBlocks(script).error = None,
           InitializePlan(BuildTranslationBlocks(script).blocks),
           Goes([worker EXCEPT !.at = "translate"])
    PROVE  IInv' /\ Kept
<1> DEFINE sources == BuildTranslationBlocks(script).blocks
<1>1. worker = [at |-> "plan", model |-> worker.model]
      /\ digest # Nothing /\ ModelSees(worker.model)
  BY DEF At, IInv, WorkerSees
<1>2. row.status = "READY_TRANSLATION" /\ row.status \in Live /\ Place(row) = row.status
  BY PlacesAreLive DEF MakesPlan, Is, TranslationQueue, Place
<1>3. row' = CommittedRow(row, "TRANSLATING") /\ error' = None
      /\ plan' = [made |-> run, of |-> digest, model |-> worker.model, artifact |-> Nothing]
      /\ blocks' = [b \in DOMAIN sources |-> [source |-> sources[b], text |-> Nothing]]
      /\ worker' = [at |-> "translate", model |-> worker.model]
  BY <1>1 DEF InitializePlan, Goes
<1>4. RowSees' /\ row'.status = "TRANSLATING" /\ Place(row)' = "TRANSLATING"
  BY <1>2, <1>3, CommitRow DEF IInv, TranslationQueue
<1>5. plan = Nothing /\ blocks = NoBlocks
  BY <1>2 DEF IInv, PlanSees
<1>6. plan' # Nothing /\ plan'.artifact = Nothing /\ plan'.model = worker.model
  BY <1>3, Somethings
<1>7. ModelSees(worker.model)'
  BY <1>1, <1>3, ModelStillSeen DEF ModelSees, IInv, TypeOK
<1>8. ModelSees(plan.model)'
  BY <1>3, <1>7 DEF ModelSees
<1>9. Planned'
  <2>1. \A b \in DOMAIN blocks' :
          /\ blocks'[b] = [source |-> blocks'[b].source, text |-> blocks'[b].text]
          /\ blocks'[b].text = Nothing /\ blocks'[b].source = sources[b]
    BY <1>3
  <2>2. DOMAIN blocks' = DOMAIN sources
    BY <1>3
  <2> QED BY <1>1, <1>3, <1>6, <1>8, <2>1, <2>2 DEF Planned
<1>10. TypeOK' /\ CrashIsNotFatal'
  BY <1>3 DEF IInv, TypeOK, CrashIsNotFatal, None
<1>11. TranscriptSees'
  BY <1>1 DEF IInv, TranscriptSees
<1>12. PlanSees'
  BY <1>4, <1>6, <1>9 DEF PlanSees, TranscriptQueue
<1>13. WorkerSees'
  BY <1>1, <1>3, <1>4, <1>6, <1>7 DEF WorkerSees
<1>14. Kept
  BY <1>5 DEF Kept, NoBlocks
<1> QED BY <1>4, <1>10, <1>11, <1>12, <1>13, <1>14 DEF IInv

(* A plan is made of the transcript, or the plan found is checked.         *)
LEMMA MakePlanPreserves ==
    ASSUME IInv, MakePlan
    PROVE  IInv' /\ Kept
<1>1. UNCHANGED <<source, asr, digest, segments, file, sealed, model, script, run>>
  BY DEF MakePlan, Transcribed, World, Rest
<1>2. row.status \in TranslationQueue \cup {"CANCELLING"}
      /\ worker = [at |-> "plan", model |-> worker.model]
      /\ digest # Nothing /\ ModelSees(worker.model)
      /\ (plan # Nothing => plan.artifact = Nothing)
  BY DEF MakePlan, At, IInv, WorkerSees
<1>3. ASSUME GivesUp, UNCHANGED <<blocks, plan>>
      PROVE  IInv' /\ Kept
  BY <1>1, <1>3, GivesUpPreserves DEF IInv, TypeOK, Artifacts
<1>4. ASSUME NEW built \in {BuildTranslationBlocks(script)},
             built.error # None, Fails(built.error, FALSE), UNCHANGED <<blocks, plan>>
      PROVE  IInv' /\ Kept
  <2>1. built.error \notin {"translation_artifact_invalid", "translation_stage_failed",
                            "translation_checkpoint_invalid"}
    BY <1>4, RefusalsOfBlocks DEF None
  <2> QED BY <1>1, <1>2, <1>4, <2>1, FailsPreserves DEF Artifacts, IInv, TypeOK
<1>5. ASSUME MakesPlan, NEW built \in {BuildTranslationBlocks(script)},
             built.error = None, InitializePlan(built.blocks),
             Goes([worker EXCEPT !.at = "translate"])
      PROVE  IInv' /\ Kept
  BY <1>1, <1>5, InitializePreserves DEF MakePlan
<1>6. ASSUME Is("TRANSLATING"), Goes([worker EXCEPT !.at = "translate"]),
             UNCHANGED <<row, error, blocks, plan>>,
             \/ worker.model = Bypass
             \/ plan # Nothing /\ plan.of = digest /\ SameModel(worker.model)
      PROVE  IInv' /\ Kept
  <2>1. plan # Nothing /\ Planned
    BY <1>6 DEF IInv, PlanSees, Is, Place
  <2>2. plan.model = worker.model
    BY <1>2, <1>6, <2>1 DEF Planned, ModelSees, SameModel
  <2>3. worker' = [at |-> "translate", model |-> worker.model]
    BY <1>2, <1>6 DEF Goes
  <2>4. ModelSees(worker.model)'
    BY <1>1, <1>2, <2>3, ModelStillSeen DEF ModelSees, IInv, TypeOK
  <2>5. WorkerSees'
    BY <1>1, <1>2, <1>6, <2>1, <2>2, <2>3, <2>4 DEF WorkerSees, Is
  <2>6. RowSees' /\ PlaceMoves /\ CrashIsNotFatal'
    BY <1>1, <1>6 DEF IInv, RowSees, PlaceMoves, Place, CrashIsNotFatal
  <2> QED BY <1>1, <1>6, <2>5, <2>6, FramePreserves DEF IInv, TypeOK, Artifacts
<1>7. ASSUME Is("TRANSLATING"), UNCHANGED <<blocks, plan>>,
             Fails("translation_checkpoint_invalid", FALSE),
             ~(\/ worker.model = Bypass
               \/ plan # Nothing /\ plan.of = digest /\ SameModel(worker.model))
      PROVE  IInv' /\ Kept
  <2>1. model > 0
    BY <1>7, FoundPlan DEF MakePlan
  <2> QED BY <1>1, <1>2, <1>7, <2>1, FailsPreserves DEF Artifacts, IInv, TypeOK
<1> QED BY <1>3, <1>4, <1>5, <1>6, <1>7 DEF MakePlan

(* The model translates a block, or fails.                                 *)
LEMMA TranslateBlockPreserves ==
    ASSUME IInv, TranslateBlock
    PROVE  IInv' /\ Kept
<1>1. UNCHANGED <<Artifacts, asr, source, model, run>>
  BY DEF TranslateBlock, Artifacts, Transcribed, Translated, World, Rest
<1>2. row.status \in TranslationQueue \cup {"CANCELLING"}
      /\ worker = [at |-> "translate", model |-> worker.model]
      /\ digest # Nothing /\ ModelSees(worker.model) /\ plan # Nothing
      /\ plan.artifact = Nothing /\ worker.model = plan.model
      /\ row.status \in {"TRANSLATING", "CANCELLING"}
  BY DEF TranslateBlock, At, IInv, WorkerSees, TranslationQueue
<1>3. CASE row.status \in Cancelled
  BY <1>1, <1>3, GivesUpPreserves DEF TranslateBlock, IInv, TypeOK
<1>4. ASSUME Goes([worker EXCEPT !.at = "block"]), UNCHANGED <<row, error>>
      PROVE  IInv' /\ Kept
  <2>1. worker' = [at |-> "block", model |-> worker.model]
    BY <1>2, <1>4 DEF Goes
  <2>2. ModelSees(worker.model)'
    BY <1>1, <1>2, <2>1, ModelStillSeen DEF ModelSees, IInv, TypeOK, Artifacts
  <2>3. WorkerSees'
    BY <1>1, <1>2, <1>4, <2>1, <2>2 DEF WorkerSees, Artifacts
  <2>4. RowSees' /\ PlaceMoves /\ CrashIsNotFatal'
    BY <1>1, <1>4 DEF IInv, RowSees, PlaceMoves, Place, CrashIsNotFatal
  <2> QED BY <1>1, <2>3, <2>4, FramePreserves DEF IInv, TypeOK
<1>5. ASSUME NEW retryable \in BOOLEAN, Fails("inference", retryable)
      PROVE  IInv' /\ Kept
  BY <1>1, <1>2, <1>5, FailsPreserves DEF IInv, TypeOK
<1> QED BY <1>3, <1>4, <1>5 DEF TranslateBlock

(* The translation of a block is committed.                                *)
LEMMA CommitBlockPreserves ==
    ASSUME IInv, CommitBlock
    PROVE  IInv' /\ Kept
<1>1. UNCHANGED <<source, asr, digest, segments, file, plan, sealed, model, script, run>>
  BY DEF CommitBlock, Transcribed, World, Rest
<1>2. worker = [at |-> "block", model |-> worker.model]
      /\ digest # Nothing /\ ModelSees(worker.model) /\ plan # Nothing
      /\ plan.artifact = Nothing /\ worker.model = plan.model
  BY DEF CommitBlock, At, IInv, WorkerSees
<1>3. CASE Is("TRANSLATING")
  <2>1. PICK b \in Untranslated :
          blocks' = [blocks EXCEPT ![b].text = Text(run, worker.model)]
    BY <1>3 DEF CommitBlock
  <2>2. UNCHANGED <<row, error>> /\ worker' = [at |-> "translate", model |-> worker.model]
    BY <1>2, <1>3 DEF CommitBlock, Goes
  <2>3. b \in DOMAIN blocks /\ blocks[b].text = Nothing /\ Planned
    BY <1>2, <2>1 DEF Untranslated, IInv, PlanSees
  <2>4. DOMAIN blocks' = DOMAIN blocks
        /\ \A c \in DOMAIN blocks : c # b => blocks'[c] = blocks[c]
    BY <2>1
  <2>5. blocks'[b] = [source |-> blocks[b].source, text |-> Text(run, worker.model)]
    <3>1. blocks[b] = [source |-> blocks[b].source, text |-> blocks[b].text]
      BY <2>3 DEF Planned
    <3>2. blocks'[b] = [blocks[b] EXCEPT !.text = Text(run, worker.model)]
      BY <2>1, <2>3
    <3> QED BY <3>1, <3>2
  <2>6. ModelSees(plan.model)' /\ ModelSees(worker.model)'
    BY <1>1, <1>2, <2>2, ModelStillSeen DEF ModelSees, IInv, TypeOK
  <2>7. Planned'
    <3>1. \A c \in DOMAIN blocks' :
            /\ blocks'[c] = [source |-> blocks'[c].source, text |-> blocks'[c].text]
            /\ blocks'[c].text # Nothing => blocks'[c].text.by = plan'.model
            /\ blocks'[c].source = blocks[c].source
      BY <1>1, <1>2, <2>3, <2>4, <2>5 DEF Planned, Text
    <3> QED BY <1>1, <1>2, <2>3, <2>4, <2>6, <3>1 DEF Planned
  <2>8. TypeOK' /\ RowSees' /\ CrashIsNotFatal' /\ TranscriptSees'
        /\ Place(row)' = Place(row) /\ Place(row) = "TRANSLATING"
    BY <1>1, <1>3, <2>2
    DEF IInv, TypeOK, RowSees, Place, CrashIsNotFatal, TranscriptSees, Is
  <2>9. PlanSees'
    BY <1>1, <1>2, <2>7, <2>8 DEF PlanSees, TranscriptQueue
  <2>10. WorkerSees'
    BY <1>1, <1>2, <1>3, <2>2, <2>6 DEF WorkerSees, Is
  <2>11. Kept
    BY <1>1, <2>3, <2>4 DEF Kept
  <2> QED BY <2>8, <2>9, <2>10, <2>11 DEF IInv
<1>4. CASE ~Is("TRANSLATING")
  BY <1>1, <1>4, GivesUpPreserves DEF CommitBlock, Artifacts, IInv, TypeOK
<1> QED BY <1>3, <1>4

(* The translation is published as a file.                                 *)
LEMMA PublishTranslationPreserves ==
    ASSUME IInv, PublishTranslation
    PROVE  IInv' /\ Kept
<1>1. UNCHANGED <<row, error, source, asr, digest, segments, plan, blocks, sealed, model,
                  script, run>>
  BY DEF PublishTranslation, Transcribed, Translated, World, Rest
<1>2. worker = [at |-> "translate", model |-> worker.model]
      /\ plan # Nothing /\ plan.artifact = Nothing /\ Untranslated = {}
      /\ row.status \in {"TRANSLATING", "CANCELLING"}
  BY DEF PublishTranslation, At, IInv, WorkerSees
<1>3. CASE row.status \in Cancelled
  BY <1>1, <1>3, GivesUpPreserves DEF PublishTranslation, GivesUp, Artifacts, IInv, TypeOK
<1>4. CASE row.status \notin Cancelled
  <2>1. file' = [transcript |-> file.transcript, translation |-> Artifact]
        /\ worker' = [at |-> "saved", result |-> Artifact]
    BY <1>4 DEF PublishTranslation, Artifact, Goes, IInv, TypeOK
  <2>2. Artifact' = Artifact /\ Untranslated' = Untranslated
    BY <1>1 DEF Artifact, Untranslated
  <2>3. TypeOK' /\ RowSees' /\ CrashIsNotFatal' /\ TranscriptSees'
        /\ Place(row)' = Place(row)
    BY <1>1, <2>1 DEF IInv, TypeOK, RowSees, Place, CrashIsNotFatal, TranscriptSees
  <2>4. Planned'
    <3>1. Planned
      BY <1>2 DEF IInv, PlanSees
    <3>2. ModelSees(plan.model)'
      BY <1>1, <3>1, ModelStillSeen DEF ModelSees, Planned, IInv, TypeOK
    <3> QED BY <1>1, <1>2, <3>1, <3>2 DEF Planned
  <2>5. PlanSees'
    BY <1>1, <1>2, <2>3, <2>4 DEF IInv, PlanSees
  <2>6. WorkerSees'
    BY <1>1, <1>2, <2>1, <2>2 DEF WorkerSees
  <2>7. Kept
    BY <1>1, <2>1 DEF Kept
  <2> QED BY <2>3, <2>5, <2>6, <2>7 DEF IInv
<1> QED BY <1>3, <1>4

(* The checkpoint names the file that was published.                       *)
LEMMA SaveTranslationPreserves ==
    ASSUME IInv, SaveTranslation
    PROVE  IInv' /\ Kept
<1>1. UNCHANGED <<row, error, source, asr, digest, segments, file, blocks, sealed, model,
                  script, run>>
  BY DEF SaveTranslation, Transcribed, World, Rest
<1>2. worker = [at |-> "saved", result |-> Artifact]
      /\ plan # Nothing /\ plan.artifact = Nothing /\ Untranslated = {}
      /\ file.translation = Artifact /\ row.status \in {"TRANSLATING", "CANCELLING"}
  BY DEF SaveTranslation, At, IInv, WorkerSees
<1>3. Planned
  BY <1>2 DEF IInv, PlanSees
<1>4. plan' = [made |-> plan.made, of |-> digest, model |-> plan.model, artifact |-> Artifact]
      /\ worker' = [at |-> "seal", result |-> Artifact]
  <2>1. plan' = [plan EXCEPT !.artifact = Artifact]
    BY <1>2 DEF SaveTranslation
  <2>2. plan = [made |-> plan.made, of |-> digest, model |-> plan.model,
                artifact |-> plan.artifact]
    BY <1>3 DEF Planned
  <2> QED BY <1>2, <2>1, <2>2 DEF SaveTranslation, Goes
<1>5. Artifact' = Artifact /\ Untranslated' = Untranslated
  BY <1>1 DEF Artifact, Untranslated
<1>6. TypeOK' /\ RowSees' /\ CrashIsNotFatal' /\ TranscriptSees'
      /\ Place(row)' = Place(row)
  BY <1>1 DEF IInv, TypeOK, RowSees, Place, CrashIsNotFatal, TranscriptSees
<1>7. plan' # Nothing /\ Artifact # Nothing
  BY <1>4, Somethings DEF Artifact
<1>8. Planned'
  <2>1. ModelSees(plan.model)'
    BY <1>1, <1>3, <1>4, ModelStillSeen DEF ModelSees, Planned, IInv, TypeOK
  <2> QED BY <1>1, <1>2, <1>3, <1>4, <1>5, <2>1 DEF Planned
<1>9. PlanSees'
  <2>1. Place(row) \in {"TRANSLATING", "CANCELLING"}
    BY <1>2 DEF Place
  <2> QED BY <1>6, <1>7, <1>8, <2>1 DEF PlanSees, TranscriptQueue
<1>10. WorkerSees'
  BY <1>1, <1>2, <1>4, <1>5, <1>7 DEF WorkerSees
<1>11. Kept
  BY <1>1 DEF Kept
<1> QED BY <1>6, <1>9, <1>10, <1>11 DEF IInv

(* The artifact that is sealed always passes the last comparison.          *)
LEMMA SealTranslationPreserves ==
    ASSUME IInv, SealTranslation
    PROVE  IInv' /\ Kept
<1>1. UNCHANGED <<source, asr, digest, segments, file, plan, blocks, model, script, run>>
  BY DEF SealTranslation, Transcribed, World, Rest
<1>2. worker = [at |-> "seal", result |-> Artifact]
      /\ plan # Nothing /\ plan.artifact = Artifact /\ Untranslated = {}
  BY DEF SealTranslation, At, IInv, WorkerSees
<1>3. CASE Is("TRANSLATING")
  <2>1. row.status \in Live /\ Place(row) = row.status
    BY <1>3, PlacesAreLive DEF Is, TranslationQueue, Place
  <2>2. worker.result.texts = blocks /\ worker.result.of = digest /\ plan.of = digest
        /\ Planned
    BY <1>2 DEF IInv, PlanSees, Planned, Artifact
  <2>3. row' = CommittedRow(row, "READY_TTS") /\ error' = None /\ sealed' = Artifact
        /\ worker' = Away
    BY <1>2, <1>3, <2>2 DEF SealTranslation, Leaves
  <2>4. RowSees' /\ Place(row)' = "READY_TTS"
    BY <2>1, <2>3, CommitRow DEF IInv
  <2>5. TypeOK' /\ CrashIsNotFatal'
    BY <1>1, <2>3 DEF IInv, TypeOK, CrashIsNotFatal, None
  <2>6. TranscriptSees'
    <3>1. digest # Nothing
      BY <2>2 DEF Planned
    <3> QED BY <1>1, <3>1 DEF IInv, TranscriptSees
  <2>7. Artifact # Nothing /\ Artifact' = Artifact /\ Untranslated' = Untranslated
    BY <1>1, Somethings DEF Artifact, Untranslated
  <2>8. Planned'
    <3>1. ModelSees(plan.model)'
      BY <1>1, <2>2, ModelStillSeen DEF ModelSees, Planned, IInv, TypeOK
    <3> QED BY <1>1, <2>2, <2>7, <3>1 DEF Planned
  <2>9. PlanSees'
    BY <1>1, <1>2, <2>3, <2>4, <2>7, <2>8 DEF PlanSees, TranscriptQueue
  <2>10. Kept
    BY <1>1 DEF Kept
  <2> QED BY <2>3, <2>4, <2>5, <2>6, <2>9, <2>10, AwaySees DEF IInv
<1>4. CASE ~Is("TRANSLATING")
  BY <1>1, <1>4, GivesUpPreserves DEF SealTranslation, Artifacts, IInv, TypeOK
<1> QED BY <1>3, <1>4

-----------------------------------------------------------------------------
(* The rest of the world.                                                  *)

(* Deaths, resumes, choices of language, cancellations and new models.     *)
LEMMA WorldPreserves ==
    ASSUME IInv, WorkerCrash \/ User \/ Cancel \/ InstallModel
    PROVE  IInv' /\ Kept
<1> DEFINE Still == UNCHANGED <<Artifacts, asr, source, error, run>>
<1>1. CASE WorkerCrash
  <2>1. Still /\ UNCHANGED <<row, model>> /\ worker' = Away
    BY <1>1 DEF WorkerCrash, Stays, Transcribed, Translated, Artifacts, Leaves
  <2>2. RowSees' /\ PlaceMoves /\ CrashIsNotFatal'
    BY <2>1 DEF IInv, RowSees, PlaceMoves, Place, CrashIsNotFatal
  <2> QED BY <2>1, <2>2, AwaySees, FramePreserves DEF IInv, TypeOK
<1>2. CASE Resume
  <2>1. Still /\ UNCHANGED model /\ worker' = Away
    BY <1>2 DEF Resume, Stays, Transcribed, Translated, Artifacts
  <2>2. RowSees' /\ Place(row)' = Place(row)
    BY <1>2, ResumeRow DEF Resume, Is, IInv
  <2>3. PlaceMoves /\ CrashIsNotFatal'
    BY <2>1, <2>2 DEF IInv, PlaceMoves, CrashIsNotFatal
  <2> QED BY <2>1, <2>2, <2>3, AwaySees, FramePreserves DEF IInv, TypeOK
<1>3. CASE ChooseLanguage
  <2>1. Still /\ UNCHANGED <<model, worker>> /\ Is("NEEDS_LANGUAGE")
        /\ Become("TRANSCRIBING")
    BY <1>3 DEF ChooseLanguage, Stays, Transcribed, Translated, Artifacts
  <2>2. row.status \in Early /\ "TRANSCRIBING" \in Early
    BY <2>1 DEF Is, Early, TranscriptQueue
  <2>3. RowSees' /\ Place(row)' \in Early /\ Place(row) \in Early
    BY <2>1, <2>2, BecomeRow, LiveRow, PlacesAreLive DEF Become, IInv
  <2>4. worker' = Away
    BY <2>1 DEF Is, IInv, WorkerSees, TranscriptQueue, TranslationQueue
  <2>5. PlaceMoves /\ CrashIsNotFatal'
    BY <2>1, <2>3 DEF IInv, PlaceMoves, CrashIsNotFatal
  <2> QED BY <2>1, <2>3, <2>4, <2>5, AwaySees, FramePreserves DEF IInv, TypeOK
<1>4. CASE Cancel
  <2>1. Still /\ UNCHANGED <<model, worker>> /\ row.status \in Live
        /\ row' = UpdatedRow(row, "CANCELLING", FALSE, TRUE)
    BY <1>4 DEF Cancel, Stays, Transcribed, Translated, Artifacts
  <2>2. RowSees' /\ row'.status = "CANCELLING" /\ Place(row)' = "CANCELLING"
    BY <2>1, CancelRow DEF IInv
  <2>3. WorkerSees'
    <3>1. model \in Nat /\ model' \in Nat /\ model <= model'
      BY <2>1 DEF IInv, TypeOK
    <3>2. UNCHANGED <<Artifacts, asr, worker>>
      BY <2>1
    <3> QED BY <2>2, <3>1, <3>2, WorkerKept
  <2>4. PlaceMoves /\ CrashIsNotFatal'
    BY <2>1, <2>2 DEF IInv, PlaceMoves, CrashIsNotFatal
  <2> QED BY <2>1, <2>2, <2>3, <2>4, FramePreserves DEF IInv, TypeOK
<1>5. CASE InstallModel
  <2>1. Still /\ UNCHANGED <<row, worker>> /\ model' = model + 1
    BY <1>5 DEF InstallModel, Stays, Transcribed, Translated, Artifacts
  <2>2. model \in Nat /\ model' \in Nat /\ model <= model'
    BY <2>1 DEF IInv, TypeOK
  <2>3. WorkerSees'
    BY <2>1, <2>2, WorkerKept
  <2>4. RowSees' /\ PlaceMoves /\ CrashIsNotFatal'
    BY <2>1, <2>2 DEF IInv, RowSees, PlaceMoves, Place, CrashIsNotFatal
  <2> QED BY <2>1, <2>2, <2>3, <2>4, FramePreserves DEF IInv, TypeOK
<1> QED BY <1>1, <1>2, <1>3, <1>4, <1>5 DEF User

(* The invariant holds of a job that has not been transcribed.             *)
LEMMA InitEstablishes ==
    Init => IInv
<1> SUFFICES ASSUME Init PROVE IInv
  OBVIOUS
<1> USE DEF Init
<1>1. TypeOK
  BY DEF TypeOK
<1>2. row \in Row /\ RowOK(row) /\ row.status = "READY_OFFLINE"
  <2>1. Move(NoRow, row)
    BY InsertedMove
  <2>2. row.status = "READY_OFFLINE"
    BY DEF InsertedRow, NoRow
  <2> QED BY <2>1, <2>2, NoRowIsNoRow DEF Move, RowOK
<1>3. Place(row) = "READY_OFFLINE"
  BY <1>2 DEF Place
<1>4. RowSees
  BY <1>2, <1>3 DEF RowSees, Places, TranscriptQueue
<1>5. TranscriptSees
  BY <1>3 DEF TranscriptSees, TranslationQueue
<1>6. PlanSees
  BY <1>3 DEF PlanSees
<1>7. WorkerSees
  BY DEF WorkerSees, Away
<1> QED BY <1>1, <1>4, <1>5, <1>6, <1>7 DEF IInv, CrashIsNotFatal, None

(* Every step keeps the invariant and the work.                            *)
LEMMA NextPreserves ==
    ASSUME IInv, [Next]_vars
    PROVE  IInv' /\ Kept
<1>1. CASE TranscriptionSteps
  BY <1>1, EnterTranscriptionPreserves, AdoptPreserves, ParseSubtitlePreserves,
     BeginRecognitionPreserves, RecognizePreserves, PublishTranscriptPreserves,
     SaveTranscriptPreserves, CommitTranscriptPreserves
  DEF TranscriptionSteps
<1>2. CASE TranslationSteps
  BY <1>2, EnterTranslationPreserves, MakePlanPreserves, TranslateBlockPreserves,
     CommitBlockPreserves, PublishTranslationPreserves, SaveTranslationPreserves,
     SealTranslationPreserves
  DEF TranslationSteps
<1>3. CASE WorkerCrash \/ User \/ Cancel \/ InstallModel
  BY <1>3, WorldPreserves
<1>4. CASE UNCHANGED vars
  <2>1. UNCHANGED <<Artifacts, asr, source, error, run, row, model, worker>>
    BY <1>4 DEF vars, Artifacts
  <2>2. WorkerSees'
    BY <2>1, WorkerKept DEF IInv, TypeOK
  <2>3. RowSees' /\ PlaceMoves /\ CrashIsNotFatal'
    BY <2>1 DEF IInv, RowSees, PlaceMoves, Place, CrashIsNotFatal
  <2> QED BY <2>1, <2>2, <2>3, FramePreserves DEF IInv, TypeOK
<1> QED BY <1>1, <1>2, <1>3, <1>4 DEF Next

-----------------------------------------------------------------------------
(* The invariant holds for a transcript of any length, any number of       *)
(* deaths and errors and any models installed.                             *)
THEOREM Invariant == Spec => []IInv
<1>1. IInv /\ [Next]_vars => IInv'
  BY NextPreserves
<1> QED BY InitEstablishes, <1>1, PTL DEF Spec

(* Whatever order publishing, saving, dying and retrying happen in, a      *)
(* committed transcript is one and the same in the database, in the        *)
(* details, in the checkpoint and on disk.                                 *)
THEOREM TranscriptIsOne == Spec => []OneTranscript
<1>1. IInv => OneTranscript
  <2> SUFFICES ASSUME IInv, Translating(row) \/ row.status = "READY_TTS"
               PROVE  segments = digest /\ file.transcript = digest /\ asr.result = digest
    BY DEF OneTranscript
  <2>1. CASE row.status \in TranslationQueue \cup {"READY_TTS"}
    <3>1. Place(row) = row.status
      BY <2>1 DEF Place, TranslationQueue
    <3> QED BY <2>1, <3>1, TranscriptThere
  <2>2. CASE row.previous \in TranslationQueue
    <3>1. row.status \in Parked
      BY <2>2, NoRowIsNoRow DEF IInv, RowSees, RowOK, TranslationQueue
    <3>2. row.status = "FAILED"
      BY <3>1 DEF IInv, RowSees, Parked, Places, TranscriptQueue, TranslationQueue
    <3>3. Place(row) = row.previous
      BY <3>2 DEF Place
    <3> QED BY <2>2, <3>3, TranscriptThere
  <2> QED BY <2>1, <2>2 DEF Translating
<1> QED BY Invariant, <1>1, PTL

(* The translation a job is sealed with is the file on disk, is of its     *)
(* transcript, and has been translated by one model from the first block   *)
(* to the last, however often the worker died and the model was replaced.  *)
THEOREM TranslationIsOne == Spec => []SealedIsOne
<1>1. IInv => SealedIsOne
  <2> SUFFICES ASSUME IInv, row.status = "READY_TTS"
               PROVE  /\ sealed = file.translation
                      /\ sealed.of = digest
                      /\ \A b, c \in DOMAIN blocks :
                           sealed.texts[b].text.by = sealed.texts[c].text.by
    BY DEF SealedIsOne
  <2>1. Place(row) = "READY_TTS"
    BY DEF Place
  <2>2. plan # Nothing /\ plan.artifact # Nothing /\ sealed = plan.artifact
    BY <2>1 DEF IInv, PlanSees
  <2>3. Planned
    BY <2>2 DEF IInv, PlanSees
  <2>4. sealed = Artifact /\ file.translation = Artifact /\ Untranslated = {}
    BY <2>2, <2>3 DEF Planned
  <2>5. sealed.texts = blocks /\ sealed.of = digest
    BY <2>4 DEF Artifact
  <2>6. \A b \in DOMAIN blocks : blocks[b].text.by = plan.model
    BY <2>3, <2>4 DEF Planned, Untranslated
  <2> QED BY <2>4, <2>5, <2>6
<1> QED BY Invariant, <1>1, PTL

(* No order of deaths makes a stage refuse its own checkpoint for good.    *)
THEOREM CrashesAreSurvived == Spec => []CrashIsNotFatal
<1>1. IInv => CrashIsNotFatal
  BY DEF IInv
<1> QED BY Invariant, <1>1, PTL

(* A transcript that is checkpointed and a block that is translated are    *)
(* never made again or changed.                                            *)
THEOREM WorkIsNeverLost == Spec => WorkIsKept
<1>1. IInv /\ [Next]_vars => Kept
  BY NextPreserves
<1>2. IInv /\ [Next]_vars =>
        [/\ asr # Nothing => /\ asr'.result = asr.result
                             /\ file'.transcript = file.transcript
         /\ blocks # NoBlocks => DOMAIN blocks' = DOMAIN blocks
         /\ \A b \in DOMAIN blocks :
              blocks[b].text # Nothing => blocks'[b] = blocks[b]]_vars
  BY <1>1 DEF Kept
<1> QED BY Invariant, <1>2, PTL DEF Spec, WorkIsKept

-----------------------------------------------------------------------------
(* The blocks a transcript is cut into.                                    *)

(* Induction and recursion over the rounds of a loop.                      *)

(* A set of naturals that is not empty has a least element.                *)
LEMMA LeastNatural ==
    ASSUME NEW T \in SUBSET Nat, T # {}
    PROVE  \E x \in T : \A y \in T : x <= y
<1> DEFINE R == OpToRel(<, Nat)
<1>1. \A x, y \in Nat : x < y => <<x, y>> \in R
  BY DEF OpToRel
<1>2. IsWellFoundedOn(R, Nat)
  BY NatLessThanWellFounded
<1> HIDE DEF R
<1>3. PICK x \in T : \A y \in T : ~(<<y, x>> \in R)
  BY <1>2, WFMin
<1>4. ASSUME NEW y \in T PROVE x <= y
  <2>1. x \in Nat /\ y \in Nat
    OBVIOUS
  <2>2. ~(y < x)
    BY <1>1, <1>3, <2>1
  <2> QED BY <2>1, <2>2
<1> QED BY <1>4

(* Upwards: what holds of the first and goes from each to the next.        *)
LEMMA Upwards ==
    ASSUME NEW first \in Nat, NEW last \in Nat, NEW T, first \in T,
           \A i \in (first + 1)..last : i - 1 \in T => i \in T
    PROVE  first <= last => first..last \subseteq T
<1> DEFINE Bad == {i \in first..last : i \notin T}
<1>1. SUFFICES ASSUME Bad # {} PROVE FALSE
  OBVIOUS
<1>2. Bad \in SUBSET Nat
  OBVIOUS
<1>3. PICK i \in Bad : \A k \in Bad : i <= k
  BY <1>1, <1>2, LeastNatural
<1>4. i \in (first + 1)..last /\ i \notin T
  BY <1>3
<1>5. i - 1 \in first..last /\ i - 1 \notin Bad
  BY <1>3, <1>4
<1> QED BY <1>4, <1>5

(* g begins with a, and H leads from each of its n values to the next.     *)
Unfolds(g, n, S, a, H) ==
    /\ g \in [0..n -> S]
    /\ g[0] = a
    /\ \A i \in 1..n : g[i] = H[i][g[i - 1]]

Recursions(n, S) == [1..n -> [S -> S]]

(* A function that is given by its first value and by a step from each     *)
(* value to the next exists.                                               *)
LEMMA RecursionUpwards ==
    ASSUME NEW n \in Nat, NEW S, NEW a \in S, NEW H \in Recursions(n, S)
    PROVE  \E g : Unfolds(g, n, S, a, H)
<1> USE DEF Recursions
<1> DEFINE Upto(g, k) == g[0] = a /\ \A i \in 1..k : g[i] = H[i][g[i - 1]]
           T == {k \in 0..n : \E g \in [0..n -> S] : Upto(g, k)}
<1>1. 0 \in T
  <2> DEFINE h == [i \in 0..n |-> a]
  <2>1. h \in [0..n -> S] /\ Upto(h, 0) /\ 0 \in 0..n
    OBVIOUS
  <2> HIDE DEF h
  <2> QED BY <2>1
<1>2. ASSUME NEW k \in 1..n, k - 1 \in T PROVE k \in T
  <2>1. PICK g \in [0..n -> S] : Upto(g, k - 1)
    BY <1>2
  <2> DEFINE h == [g EXCEPT ![k] = H[k][g[k - 1]]]
  <2>2. H[k] \in [S -> S] /\ k - 1 \in 0..n
    OBVIOUS
  <2>3. h \in [0..n -> S]
    BY <2>2
  <2>4. \A i \in 0..n : h[i] = IF i = k THEN H[k][g[k - 1]] ELSE g[i]
    OBVIOUS
  <2> HIDE DEF h
  <2>5. Upto(h, k)
    BY <2>1, <2>2, <2>4
  <2> QED BY <2>3, <2>5
<1> HIDE DEF T
<1>3. 0..n \subseteq T
  <2>1. 0 \in Nat /\ 0 + 1 = 1 /\ 0 <= n
    OBVIOUS
  <2> QED BY <1>1, <1>2, <2>1, Upwards
<1>4. n \in T
  BY <1>3
<1> QED BY <1>4 DEF T, Unfolds

-----------------------------------------------------------------------------
(* Joining.                                                                *)

(* g joins the n sequences of f one after the other.                       *)
Joins(g, f, n, T) ==
    /\ g \in [0..n -> Seq(T)]
    /\ g[0] = <<>>
    /\ \A i \in 1..n : g[i] = g[i - 1] \o f[i]
    /\ FlattenSeq(f) = g[n]

(* FlattenSeq joins one sequence after the other.                          *)
LEMMA JoinSteps ==
    ASSUME NEW T, NEW n \in Nat, NEW f \in [1..n -> Seq(T)]
    PROVE  \E g : Joins(g, f, n, T)
<1> DEFINE H == [i \in 1..n |-> [s \in Seq(T) |-> s \o f[i]]]
           Rule(h) == [i \in 1..n |-> IF i = 1 THEN f[i] ELSE h[i - 1] \o f[i]]
           joined == CHOOSE h : h = Rule(h)
<1>1. H \in Recursions(n, Seq(T))
  BY ConcatProperties DEF Recursions
<1>2. \A i \in 1..n, s \in Seq(T) : H[i][s] = s \o f[i]
  OBVIOUS
<1> HIDE DEF H
<1>3. PICK g : Unfolds(g, n, Seq(T), <<>>, H)
  <2>1. <<>> \in Seq(T)
    OBVIOUS
  <2> QED BY <1>1, <2>1, RecursionUpwards
<1>4. /\ g \in [0..n -> Seq(T)] /\ g[0] = <<>>
      /\ \A i \in 1..n : g[i] = g[i - 1] \o f[i]
  <2>1. ASSUME NEW i \in 1..n PROVE i - 1 \in 0..n
    OBVIOUS
  <2>2. ASSUME NEW i \in 1..n PROVE g[i - 1] \in Seq(T)
    BY <1>3, <2>1 DEF Unfolds
  <2> QED BY <1>2, <1>3, <2>2 DEF Unfolds
<1>5. Len(f) = n /\ f \in Seq(Seq(T))
  OBVIOUS
<1>6. CASE n = 0
  <2>1. FlattenSeq(f) = f
    BY <1>5, <1>6 DEF FlattenSeq
  <2>2. f = <<>>
    BY <1>5, <1>6, EmptySeq
  <2> QED BY <1>4, <1>6, <2>1, <2>2 DEF Joins
<1>7. CASE n # 0
  <2>1. FlattenSeq(f) = joined[n]
    BY <1>5, <1>7 DEF FlattenSeq
  <2>2. g[1] = f[1]
    <3>1. g[1] = <<>> \o f[1] /\ f[1] \in Seq(T)
      <4>1. 1 \in 1..n /\ 1 - 1 = 0
        BY <1>7
      <4> QED BY <1>4, <4>1
    <3> QED BY <3>1, ConcatEmptySeq
  <2> DEFINE h == [i \in 1..n |-> g[i]]
  <2>3. h = Rule(h)
    <3>1. ASSUME NEW i \in 1..n PROVE g[i] = IF i = 1 THEN f[i] ELSE h[i - 1] \o f[i]
      <4>1. i # 1 => i - 1 \in 1..n
        OBVIOUS
      <4>2. i # 1 => h[i - 1] = g[i - 1]
        BY <4>1
      <4> QED BY <1>4, <2>2, <4>2
    <3> QED BY <3>1
  <2>4. joined = Rule(joined)
    BY <2>3
  <2> HIDE DEF joined
  <2> DEFINE S == {i \in 1..n : joined[i] = g[i]}
  <2>5. 1 \in S
    BY <1>7, <2>2, <2>4
  <2>6. ASSUME NEW i \in 2..n, i - 1 \in S PROVE i \in S
    <3>1. joined[i] = joined[i - 1] \o f[i]
      <4>1. i \in 1..n /\ i # 1
        OBVIOUS
      <4> QED BY <2>4, <4>1
    <3>2. i \in 1..n /\ joined[i - 1] = g[i - 1]
      BY <2>6
    <3> QED BY <1>4, <3>1, <3>2
  <2>7. n \in S
    <3> HIDE DEF S
    <3>1. 1 <= n /\ 1 \in Nat /\ 1 + 1 = 2
      BY <1>7
    <3>2. 1..n \subseteq S
      BY <2>5, <2>6, <3>1, Upwards
    <3> QED BY <3>1, <3>2
  <2> QED BY <1>4, <2>1, <2>7 DEF Joins
<1> QED BY <1>6, <1>7

(* Three sequences put together.                                           *)
LEMMA ThreeTogether ==
    ASSUME NEW W
    PROVE  \A x, y, z \in Seq(W) :
              x \o y \in Seq(W) /\ (x \o y) \o z = x \o (y \o z)
<1>1. ASSUME NEW x \in Seq(W), NEW y \in Seq(W), NEW z \in Seq(W)
      PROVE  (x \o y) \o z = x \o (y \o z)
  BY ConcatAssociative
<1>2. \A x, y \in Seq(W) : x \o y \in Seq(W)
  BY ConcatProperties
<1> QED BY <1>1, <1>2

(* z is the m sequences of x and then the n of y.                          *)
InTwoParts(z, x, m, y, n, T) ==
    /\ m \in Nat /\ n \in Nat
    /\ x \in [1..m -> Seq(T)] /\ y \in [1..n -> Seq(T)] /\ z \in [1..(m + n) -> Seq(T)]
    /\ \A i \in 1..m : z[i] = x[i]
    /\ \A i \in 1..n : z[m + i] = y[i]

(* What is joined in two parts.                                            *)
LEMMA JoinOfTwo ==
    ASSUME NEW T, NEW m, NEW n, NEW x, NEW y, NEW z, InTwoParts(z, x, m, y, n, T)
    PROVE  /\ FlattenSeq(x) \in Seq(T)
           /\ FlattenSeq(z) = FlattenSeq(x) \o FlattenSeq(y)
<1> m \in Nat /\ n \in Nat
  BY DEF InTwoParts
<1>1. PICK g : Joins(g, x, m, T)
  BY JoinSteps DEF InTwoParts
<1>2. PICK h : Joins(h, y, n, T)
  BY JoinSteps DEF InTwoParts
<1>3. PICK k : Joins(k, z, m + n, T)
  <2>1. m + n \in Nat
    OBVIOUS
  <2> QED BY <2>1, JoinSteps DEF InTwoParts
<1>4. m \in 0..m /\ n \in 0..n /\ 0 \in 0..m /\ 0 \in 0..n /\ 0 <= m /\ 0 <= n /\ 0 + 1 = 1
  OBVIOUS
<1>5. k[m] = g[m]
  <2> DEFINE S == {i \in 0..m : k[i] = g[i]}
  <2>1. 0 \in S
    BY <1>1, <1>3, <1>4 DEF Joins
  <2>2. ASSUME NEW i \in 1..m, i - 1 \in S PROVE i \in S
    <3>1. i \in 1..(m + n) /\ i \in 0..m
      OBVIOUS
    <3>2. k[i - 1] = g[i - 1]
      BY <2>2
    <3>3. k[i] = k[i - 1] \o z[i] /\ z[i] = x[i]
      BY <1>3, <3>1 DEF Joins, InTwoParts
    <3>4. g[i] = g[i - 1] \o x[i]
      BY <1>1 DEF Joins
    <3> QED BY <3>1, <3>2, <3>3, <3>4
  <2> HIDE DEF S
  <2>3. 0..m \subseteq S
    BY <1>4, <2>1, <2>2, Upwards
  <2> QED BY <1>4, <2>3 DEF S
<1>6. g[m] \in Seq(T)
  BY <1>1, <1>4 DEF Joins
<1>7. k[m + n] = g[m] \o h[n]
  <2> DEFINE S == {i \in 0..n : k[m + i] = g[m] \o h[i]}
  <2>1. 0 \in S
    <3>1. g[m] = g[m] \o <<>> /\ m + 0 = m
      BY <1>6, ConcatEmptySeq
    <3>2. k[m + 0] = g[m] \o h[0]
      BY <1>2, <1>5, <3>1 DEF Joins
    <3> QED BY <1>4, <3>2
  <2>2. ASSUME NEW i \in 1..n, i - 1 \in S PROVE i \in S
    <3>1. /\ i \in 0..n /\ i - 1 \in 0..n /\ m + i \in 1..(m + n)
          /\ (m + i) - 1 = m + (i - 1)
      OBVIOUS
    <3>2. k[m + (i - 1)] = g[m] \o h[i - 1]
      BY <2>2
    <3>3. k[m + i] = (g[m] \o h[i - 1]) \o y[i]
      <4>1. k[m + i] = k[(m + i) - 1] \o z[m + i] /\ z[m + i] = y[i]
        BY <1>3, <3>1 DEF Joins, InTwoParts
      <4> QED BY <3>1, <3>2, <4>1
    <3>4. y[i] \in Seq(T) /\ h[i - 1] \in Seq(T)
      BY <1>2, <3>1 DEF Joins, InTwoParts
    <3>5. k[m + i] = g[m] \o (h[i - 1] \o y[i])
      <4> DEFINE Cat(p, q) == p \o q
      <4>1. \A p, q, r \in Seq(T) : Cat(Cat(p, q), r) = Cat(p, Cat(q, r))
        BY ThreeTogether
      <4>2. k[m + i] = Cat(Cat(g[m], h[i - 1]), y[i])
        BY <3>3
      <4> HIDE DEF Cat
      <4>3. k[m + i] = Cat(g[m], Cat(h[i - 1], y[i]))
        BY <1>6, <3>4, <4>1, <4>2
      <4> QED BY <4>3 DEF Cat
    <3>6. h[i] = h[i - 1] \o y[i]
      BY <1>2 DEF Joins
    <3> QED BY <3>1, <3>5, <3>6
  <2> HIDE DEF S
  <2>3. 0..n \subseteq S
    BY <1>4, <2>1, <2>2, Upwards
  <2> QED BY <1>4, <2>3 DEF S
<1>8. FlattenSeq(x) = g[m] /\ FlattenSeq(y) = h[n] /\ FlattenSeq(z) = k[m + n]
  BY <1>1, <1>2, <1>3 DEF Joins
<1> QED BY <1>6, <1>7, <1>8

(* Blocks of words of W.                                                   *)
BlocksOf(W) == [start : Int, end : Int, text : Seq(W)]

Texts(bs) == [i \in DOMAIN bs |-> bs[i].text]

(* The words of a sequence are those of one block after the other.         *)
LEMMA WordsAreTexts ==
    ASSUME NEW W, NEW bs \in Seq(BlocksOf(W))
    PROVE  /\ Len(bs) \in Nat
           /\ Texts(bs) \in [1..Len(bs) -> Seq(W)]
           /\ \A i \in 1..Len(bs) : Texts(bs)[i] = bs[i].text
           /\ Words(bs) = FlattenSeq(Texts(bs))
<1>1. DOMAIN bs = 1..Len(bs) /\ Len(bs) \in Nat
  OBVIOUS
<1>2. ASSUME NEW i \in 1..Len(bs) PROVE bs[i].text \in Seq(W)
  <2>1. bs[i] \in BlocksOf(W)
    BY ElementOfSeq
  <2> QED BY <2>1 DEF BlocksOf
<1> QED BY <1>1, <1>2 DEF Words, Texts

(* The words of two sequences put together.                                *)
LEMMA WordsJoin ==
    ASSUME NEW W, NEW s \in Seq(BlocksOf(W)), NEW t \in Seq(BlocksOf(W))
    PROVE  /\ Words(s) \in Seq(W)
           /\ Words(s \o t) = Words(s) \o Words(t)
<1> DEFINE u == s \o t
           m == Len(s)
           n == Len(t)
<1>1. /\ m \in Nat /\ n \in Nat
      /\ u \in Seq(BlocksOf(W)) /\ Len(u) = m + n
      /\ \A i \in 1..m : u[i] = s[i]
      /\ \A i \in 1..n : u[m + i] = t[i]
  BY ConcatProperties
<1>2. /\ Texts(s) \in [1..m -> Seq(W)] /\ Words(s) = FlattenSeq(Texts(s))
      /\ \A i \in 1..m : Texts(s)[i] = s[i].text
  BY WordsAreTexts
<1>3. /\ Texts(t) \in [1..n -> Seq(W)] /\ Words(t) = FlattenSeq(Texts(t))
      /\ \A i \in 1..n : Texts(t)[i] = t[i].text
  BY WordsAreTexts
<1> HIDE DEF u, m, n
<1>4. /\ Texts(u) \in [1..(m + n) -> Seq(W)] /\ Words(u) = FlattenSeq(Texts(u))
      /\ \A i \in 1..(m + n) : Texts(u)[i] = u[i].text
  <2>1. /\ Texts(u) \in [1..Len(u) -> Seq(W)] /\ Words(u) = FlattenSeq(Texts(u))
        /\ \A i \in 1..Len(u) : Texts(u)[i] = u[i].text
    BY <1>1, WordsAreTexts
  <2> QED BY <1>1, <2>1
<1>5. ASSUME NEW i \in 1..m PROVE Texts(u)[i] = Texts(s)[i]
  <2>1. i \in 1..(m + n)
    BY <1>1
  <2> QED BY <1>1, <1>2, <1>4, <2>1
<1>6. ASSUME NEW i \in 1..n PROVE Texts(u)[m + i] = Texts(t)[i]
  <2>1. m + i \in 1..(m + n)
    BY <1>1
  <2> QED BY <1>1, <1>3, <1>4, <2>1
<1>7. /\ FlattenSeq(Texts(s)) \in Seq(W)
      /\ FlattenSeq(Texts(u)) = FlattenSeq(Texts(s)) \o FlattenSeq(Texts(t))
  <2>1. InTwoParts(Texts(u), Texts(s), m, Texts(t), n, W)
    BY <1>1, <1>2, <1>3, <1>4, <1>5, <1>6 DEF InTwoParts
  <2> QED BY <2>1, JoinOfTwo
<1> QED BY <1>2, <1>3, <1>4, <1>7 DEF u

(* The words of one block, and of two.                                     *)
LEMMA WordsOfFew ==
    ASSUME NEW W, NEW b \in BlocksOf(W), NEW c \in BlocksOf(W)
    PROVE  /\ Words(<<b>>) = b.text
           /\ Words(<<b, c>>) = b.text \o c.text
<1>1. ASSUME NEW a \in BlocksOf(W) PROVE Words(<<a>>) = a.text
  <2>1. /\ <<a>> \in Seq(BlocksOf(W)) /\ Len(<<a>>) = 1 /\ <<a>>[1] = a
        /\ a.text \in Seq(W)
    BY DEF BlocksOf
  <2>2. PICK g : Joins(g, Texts(<<a>>), 1, W)
    <3>1. Texts(<<a>>) \in [1..1 -> Seq(W)]
      BY <2>1, WordsAreTexts
    <3>2. 1 \in Nat
      OBVIOUS
    <3> QED BY <3>1, <3>2, JoinSteps
  <2>3. g[1] = <<>> \o a.text
    <3>1. 1 \in 1..1 /\ 1 - 1 = 0
      OBVIOUS
    <3>2. Texts(<<a>>)[1] = <<a>>[1].text
      BY <2>1, <3>1, WordsAreTexts
    <3> QED BY <2>1, <2>2, <3>1, <3>2 DEF Joins
  <2>4. Words(<<a>>) = g[1]
    BY <2>1, <2>2, WordsAreTexts DEF Joins
  <2> QED BY <2>1, <2>3, <2>4, ConcatEmptySeq
<1>2. <<b>> \in Seq(BlocksOf(W)) /\ <<c>> \in Seq(BlocksOf(W))
  OBVIOUS
<1>3. <<b>> \o <<c>> = <<b, c>>
  <2>1. \A s, t \in Seq(BlocksOf(W)) :
          /\ s \o t \in Seq(BlocksOf(W)) /\ Len(s \o t) = Len(s) + Len(t)
          /\ \A i \in 1..(Len(s) + Len(t)) :
                (s \o t)[i] = IF i <= Len(s) THEN s[i] ELSE t[i - Len(s)]
    BY ConcatProperties
  <2> DEFINE u == <<b>> \o <<c>>
  <2>2. u \in Seq(BlocksOf(W)) /\ Len(u) = 2 /\ u[1] = b /\ u[2] = c
    <3>1. Len(<<b>>) = 1 /\ Len(<<c>>) = 1 /\ <<b>>[1] = b /\ <<c>>[1] = c
      OBVIOUS
    <3>2. 1 \in 1..(1 + 1) /\ 2 \in 1..(1 + 1) /\ 1 <= 1 /\ ~(2 <= 1) /\ 2 - 1 = 1 /\ 1 + 1 = 2
      OBVIOUS
    <3>3. u \in Seq(BlocksOf(W)) /\ Len(u) = 1 + 1
      BY <1>2, <2>1, <3>1
    <3>4. u[1] = <<b>>[1] /\ u[2] = <<c>>[2 - 1]
      BY <1>2, <2>1, <3>1, <3>2
    <3> QED BY <3>1, <3>2, <3>3, <3>4
  <2> HIDE DEF u
  <2>3. u = <<b, c>>
    BY <2>2
  <2> QED BY <2>3 DEF u
<1>4. Words(<<b>> \o <<c>>) = Words(<<b>>) \o Words(<<c>>)
  BY <1>2, WordsJoin
<1> QED BY <1>1, <1>3, <1>4

-----------------------------------------------------------------------------
(* Timelines: blocks one after the other, each of some length.             *)

Ordered(bs) ==
    /\ \A i \in 1..Len(bs) : bs[i].start < bs[i].end
    /\ \A i \in 1..(Len(bs) - 1) : bs[i].end <= bs[i + 1].start

Timelines(W) == {bs \in Seq(BlocksOf(W)) : Len(bs) > 0 /\ Ordered(bs)}

(* What may stand for the block: it lies within it.                        *)
Inside(W, block) ==
    {bs \in Timelines(W) : block.start <= bs[1].start /\ bs[Len(bs)].end <= block.end}

(* What says the same in its place.                                        *)
Covers(W, block) == {bs \in Inside(W, block) : Words(bs) = block.text}

(* The parts of a timeline.                                                *)
LEMMA TimelineParts ==
    ASSUME NEW W, NEW bs \in Timelines(W)
    PROVE  /\ bs \in Seq(BlocksOf(W)) /\ Len(bs) \in Nat \ {0}
           /\ \A i \in 1..Len(bs) :
                 /\ bs[i] \in BlocksOf(W) /\ bs[i].start \in Int /\ bs[i].end \in Int
                 /\ bs[i].text \in Seq(W)
                 /\ bs[i].start < bs[i].end
           /\ \A i \in 1..(Len(bs) - 1) : bs[i].end <= bs[i + 1].start
<1>1. bs \in Seq(BlocksOf(W)) /\ Len(bs) > 0 /\ Ordered(bs)
  BY DEF Timelines
<1>2. Len(bs) \in Nat \ {0}
  BY <1>1
<1>3. \A i \in 1..Len(bs) : bs[i] \in BlocksOf(W)
  BY <1>1, ElementOfSeq
<1>4. \A b \in BlocksOf(W) : b.start \in Int /\ b.end \in Int /\ b.text \in Seq(W)
  BY DEF BlocksOf
<1> QED BY <1>1, <1>2, <1>3, <1>4 DEF Ordered

(* Two timelines, the second after the first.                              *)
LEMMA TimelinesJoin ==
    ASSUME NEW W, NEW s \in Timelines(W), NEW t \in Timelines(W),
           s[Len(s)].end <= t[1].start
    PROVE  /\ s \o t \in Timelines(W)
           /\ (s \o t)[1] = s[1]
           /\ (s \o t)[Len(s \o t)] = t[Len(t)]
<1> DEFINE u == s \o t
<1>1. /\ s \in Seq(BlocksOf(W)) /\ t \in Seq(BlocksOf(W))
      /\ Len(s) \in Nat \ {0} /\ Len(t) \in Nat \ {0}
  BY TimelineParts
<1>2. /\ u \in Seq(BlocksOf(W)) /\ Len(u) = Len(s) + Len(t)
      /\ \A i \in 1..(Len(s) + Len(t)) : u[i] = IF i <= Len(s) THEN s[i] ELSE t[i - Len(s)]
  BY <1>1, ConcatProperties
<1> HIDE DEF u
<1>3. ASSUME NEW i \in 1..Len(u) PROVE u[i].start < u[i].end
  <2>1. i <= Len(s) => i \in 1..Len(s)
    BY <1>1
  <2>2. ~(i <= Len(s)) => i - Len(s) \in 1..Len(t)
    BY <1>1, <1>2
  <2>3. i \in 1..(Len(s) + Len(t))
    BY <1>2
  <2> QED BY <1>2, <2>1, <2>2, <2>3, TimelineParts
<1>4. ASSUME NEW i \in 1..(Len(u) - 1) PROVE u[i].end <= u[i + 1].start
  <2>1. i \in 1..(Len(s) + Len(t)) /\ i + 1 \in 1..(Len(s) + Len(t))
    BY <1>1, <1>2
  <2>2. CASE i < Len(s)
    <3>1. i \in 1..(Len(s) - 1) /\ i <= Len(s) /\ i + 1 <= Len(s)
      BY <1>1, <2>2
    <3>2. u[i] = s[i] /\ u[i + 1] = s[i + 1]
      BY <1>2, <2>1, <3>1
    <3> QED BY <3>1, <3>2, TimelineParts
  <2>3. CASE i = Len(s)
    <3>1. i <= Len(s) /\ ~(i + 1 <= Len(s)) /\ (i + 1) - Len(s) = 1
      BY <1>1, <2>3
    <3>2. u[i] = s[Len(s)] /\ u[i + 1] = t[1]
      BY <1>2, <2>1, <2>3, <3>1
    <3> QED BY <3>2
  <2>4. CASE i > Len(s)
    <3>1. /\ i - Len(s) \in 1..(Len(t) - 1) /\ ~(i <= Len(s)) /\ ~(i + 1 <= Len(s))
          /\ (i + 1) - Len(s) = (i - Len(s)) + 1
      BY <1>1, <1>2, <2>4
    <3>2. u[i] = t[i - Len(s)] /\ u[i + 1] = t[(i - Len(s)) + 1]
      BY <1>2, <2>1, <3>1
    <3> QED BY <3>1, <3>2, TimelineParts
  <2> QED BY <1>1, <2>1, <2>2, <2>3, <2>4
<1>5. u[1] = s[1] /\ u[Len(u)] = t[Len(t)]
  <2>1. /\ 1 \in 1..(Len(s) + Len(t)) /\ 1 <= Len(s)
        /\ Len(s) + Len(t) \in 1..(Len(s) + Len(t)) /\ ~(Len(s) + Len(t) <= Len(s))
        /\ (Len(s) + Len(t)) - Len(s) = Len(t)
    BY <1>1
  <2> QED BY <1>2, <2>1
<1>6. u \in Timelines(W)
  <2>1. Len(u) > 0
    BY <1>1, <1>2
  <2> QED BY <1>2, <1>3, <1>4, <2>1 DEF Timelines, Ordered
<1> QED BY <1>5, <1>6 DEF u

(* Of three numbers in order the first is not above the last.              *)
LEMMA NoGreater ==
    \A a, b, c \in Int : a <= b /\ b <= c => a <= c
OBVIOUS

(* A timeline in which every block is replaced by what covers it: it says  *)
(* the same, and lies between the same ends.                               *)
LEMMA CoversJoin ==
    ASSUME NEW W, NEW bs \in Timelines(W),
           NEW f \in [1..Len(bs) -> Timelines(W)],
           \A i \in 1..Len(bs) : f[i] \in Covers(W, bs[i])
    PROVE  /\ FlattenSeq(f) \in Timelines(W)
           /\ bs[1].start <= FlattenSeq(f)[1].start
           /\ FlattenSeq(f)[Len(FlattenSeq(f))].end <= bs[Len(bs)].end
           /\ Words(FlattenSeq(f)) = Words(bs)
<1>1. bs \in Seq(BlocksOf(W)) /\ Len(bs) \in Nat \ {0}
  BY TimelineParts
<1>2. f \in [1..Len(bs) -> Seq(BlocksOf(W))]
  BY DEF Timelines
<1>3. PICK g : Joins(g, f, Len(bs), BlocksOf(W))
  <2>1. Len(bs) \in Nat
    BY <1>1
  <2> QED BY <1>2, <2>1, JoinSteps
<1>4. PICK h : Joins(h, Texts(bs), Len(bs), W)
  <2>1. Len(bs) \in Nat /\ Texts(bs) \in [1..Len(bs) -> Seq(W)]
    BY <1>1, WordsAreTexts
  <2> QED BY <2>1, JoinSteps
<1>5. \A i \in 1..Len(bs) :
        g[i] = g[i - 1] \o f[i] /\ h[i] = h[i - 1] \o bs[i].text
  BY <1>1, <1>3, <1>4, WordsAreTexts DEF Joins
<1>6. /\ g[0] = <<>> /\ h[0] = <<>>
       /\ FlattenSeq(f) = g[Len(bs)] /\ Words(bs) = h[Len(bs)]
  BY <1>1, <1>3, <1>4, WordsAreTexts DEF Joins
<1>7. ASSUME NEW i \in 1..Len(bs)
      PROVE  /\ f[i] \in Timelines(W) /\ f[i] \in Seq(BlocksOf(W))
             /\ bs[i].start <= f[i][1].start /\ f[i][Len(f[i])].end <= bs[i].end
             /\ Words(f[i]) = bs[i].text
  BY <1>2 DEF Covers, Inside
<1> DEFINE Good(i) == /\ g[i] \in Timelines(W)
                      /\ bs[1].start <= g[i][1].start
                      /\ g[i][Len(g[i])].end <= bs[i].end
                      /\ Words(g[i]) = h[i]
           S == {i \in 1..Len(bs) : Good(i)}
<1>8. 1 \in S
  <2>1. 1 \in 1..Len(bs) /\ 1 - 1 = 0
    BY <1>1
  <2>2. g[1] = f[1]
    <3>1. g[1] = <<>> \o f[1]
      BY <1>5, <1>6, <2>1
    <3> QED BY <1>7, <2>1, <3>1, ConcatEmptySeq
  <2>3. h[1] = bs[1].text
    <3>1. h[1] = <<>> \o bs[1].text /\ bs[1].text \in Seq(W)
      BY <1>5, <1>6, <2>1, TimelineParts
    <3> QED BY <3>1, ConcatEmptySeq
  <2> QED BY <1>7, <2>1, <2>2, <2>3
<1>9. ASSUME NEW i \in 2..Len(bs), i - 1 \in S PROVE i \in S
  <2>1. i \in 1..Len(bs) /\ i - 1 \in 1..Len(bs) /\ i - 1 \in 1..(Len(bs) - 1) /\ (i - 1) + 1 = i
    BY <1>1
  <2>2. Good(i - 1)
    BY <1>9
  <2>3. bs[i - 1].end <= bs[i].start /\ bs[i - 1].end \in Int /\ bs[i].start \in Int
    BY <2>1, TimelineParts
  <2>4. g[i] = g[i - 1] \o f[i] /\ h[i] = h[i - 1] \o bs[i].text
    BY <1>5, <2>1
  <2> DEFINE s == g[i - 1]
             t == f[i]
  <2>5. s \in Timelines(W) /\ t \in Timelines(W)
    BY <1>7, <2>1, <2>2
  <2>6. /\ s \in Seq(BlocksOf(W)) /\ t \in Seq(BlocksOf(W))
        /\ s[Len(s)].end \in Int /\ t[1].start \in Int
    <3>1. Len(s) \in 1..Len(s) /\ 1 \in 1..Len(t)
      BY <2>5, TimelineParts
    <3> QED BY <2>5, <3>1, TimelineParts
  <2>7. s[Len(s)].end <= t[1].start
    <3>1. s[Len(s)].end <= bs[i - 1].end /\ bs[i].start <= t[1].start
      BY <1>7, <2>1, <2>2
    <3> HIDE DEF s, t
    <3>2. s[Len(s)].end <= bs[i].start
      BY <2>3, <2>6, <3>1, NoGreater
    <3> QED BY <2>3, <2>6, <3>1, <3>2, NoGreater
  <2>8. /\ s \o t \in Timelines(W)
        /\ (s \o t)[1] = s[1] /\ (s \o t)[Len(s \o t)] = t[Len(t)]
    BY <2>5, <2>7, TimelinesJoin
  <2>9. Words(s \o t) = Words(s) \o Words(t)
    BY <2>6, WordsJoin
  <2>10. Words(s) = h[i - 1] /\ Words(t) = bs[i].text
    BY <1>7, <2>1, <2>2
  <2>11. bs[1].start <= s[1].start /\ t[Len(t)].end <= bs[i].end
    BY <1>7, <2>1, <2>2
  <2>12. g[i] = s \o t
    BY <2>4
  <2> HIDE DEF s, t
  <2>13. Good(i)
    BY <2>4, <2>8, <2>9, <2>10, <2>11, <2>12
  <2> QED BY <2>1, <2>13
<1>10. Good(Len(bs))
  <2>1. 1 <= Len(bs) /\ 1 \in Nat /\ 1 + 1 = 2 /\ Len(bs) \in 1..Len(bs)
    BY <1>1
  <2>2. 1..Len(bs) \subseteq S
    <3> HIDE DEF S
    <3> QED BY <1>1, <1>8, <1>9, <2>1, Upwards
  <2> QED BY <2>1, <2>2
<1> QED BY <1>10, <1>6

-----------------------------------------------------------------------------
(* Splitting.                                                              *)

(* The greater and the lesser of two.                                      *)
LEMMA GreaterAndLesser ==
    ASSUME NEW a \in Int, NEW b \in Int
    PROVE  /\ Max({a, b}) = IF a >= b THEN a ELSE b
           /\ Min({a, b}) = IF a <= b THEN a ELSE b
<1>1. \E x \in {a, b} : \A y \in {a, b} : x >= y
  OBVIOUS
<1>2. Max({a, b}) \in {a, b} /\ Max({a, b}) >= a /\ Max({a, b}) >= b
  BY <1>1 DEF Max
<1>3. \E x \in {a, b} : \A y \in {a, b} : x =< y
  OBVIOUS
<1>4. Min({a, b}) \in {a, b} /\ Min({a, b}) <= a /\ Min({a, b}) <= b
  BY <1>3 DEF Min
<1> QED BY <1>2, <1>4

(* A block is split strictly inside, whatever the rounding gives.          *)
LEMMA SplitTimeInside ==
    ASSUME NEW W, NEW block \in BlocksOf(W), MaySplit(block)
    PROVE  /\ SplitTime(block) \in Int
           /\ block.start < SplitTime(block) /\ SplitTime(block) < block.end
<1> DEFINE n == Len(block.text)
           w == LeftWords(block.text)
           left == Letters(w)
           right == Letters(n - w)
           share == Rounded(Lasts(block) * left, left + right)
<1>1. block.start \in Int /\ block.end \in Int /\ n \in Nat
  BY DEF BlocksOf
<1>2. n > 1 /\ block.end - block.start > 1
  BY DEF MaySplit, Lasts
<1>3. left \in Int /\ left + right \in Nat \ {0}
  <2>1. w \in Int
    BY <1>1 DEF LeftWords
  <2>2. left = 2 * w - 1 /\ right = 2 * (n - w) - 1
    BY DEF Letters
  <2> HIDE DEF w, left, right, n
  <2> QED BY <1>1, <1>2, <2>1, <2>2
<1>4. share \in Int
  <2>1. \A a \in Int, b \in Nat \ {0} : Rounded(a, b) \in Int
    BY DEF Rounded
  <2>2. Lasts(block) * left \in Int
    BY <1>1, <1>3 DEF Lasts
  <2> HIDE DEF left, right
  <2> QED BY <1>3, <2>1, <2>2
<1>5. SplitTime(block) = Min({block.end - 1, Max({block.start + 1, block.start + share})})
  BY DEF SplitTime
<1> HIDE DEF share
<1> DEFINE from == Max({block.start + 1, block.start + share})
<1>6. from \in Int /\ block.start + 1 <= from
  <2>1. block.start + 1 \in Int /\ block.start + share \in Int
    BY <1>1, <1>4
  <2>2. from = IF block.start + 1 >= block.start + share THEN block.start + 1
               ELSE block.start + share
    BY <2>1, GreaterAndLesser
  <2> HIDE DEF from
  <2> QED BY <1>1, <1>4, <2>2
<1> HIDE DEF from
<1>7. SplitTime(block) = IF block.end - 1 <= from THEN block.end - 1 ELSE from
  <2>1. block.end - 1 \in Int
    BY <1>1
  <2>2. SplitTime(block) = Min({block.end - 1, from})
    BY <1>5 DEF from
  <2> QED BY <1>6, <2>1, <2>2, GreaterAndLesser
<1> QED BY <1>1, <1>2, <1>6, <1>7

(* A timeline of one block.                                                *)
LEMMA OneCovers ==
    ASSUME NEW W, NEW block \in BlocksOf(W), block.start < block.end
    PROVE  <<block>> \in Covers(W, block)
<1>1. <<block>> \in Seq(BlocksOf(W)) /\ Len(<<block>>) = 1 /\ <<block>>[1] = block
  OBVIOUS
<1>2. block.start \in Int /\ block.end \in Int
  BY DEF BlocksOf
<1>3. <<block>> \in Timelines(W)
  BY <1>1 DEF Timelines, Ordered
<1>4. Words(<<block>>) = block.text
  BY WordsOfFew
<1> QED BY <1>1, <1>2, <1>3, <1>4 DEF Covers, Inside

(* The halves of a block say what it says.                                 *)
LEMMA HalvesCover ==
    ASSUME NEW W, NEW block \in BlocksOf(W), MaySplit(block)
    PROVE  Halves(block) \in Covers(W, block)
<1> DEFINE n == Len(block.text)
           w == LeftWords(block.text)
           left == [start |-> block.start, end |-> SplitTime(block),
                    text |-> SubSeq(block.text, 1, w)]
           right == [start |-> SplitTime(block), end |-> block.end,
                     text |-> SubSeq(block.text, w + 1, n)]
<1>1. block.start \in Int /\ block.end \in Int /\ block.text \in Seq(W) /\ n \in Nat /\ n > 1
  BY DEF BlocksOf, MaySplit
<1>2. /\ SplitTime(block) \in Int
      /\ block.start < SplitTime(block) /\ SplitTime(block) < block.end
  BY SplitTimeInside
<1>3. w \in 1..n
  <2>1. w = (n + 1) \div 2
    BY DEF LeftWords
  <2> HIDE DEF w, n
  <2> QED BY <1>1, <2>1
<1>4. /\ SubSeq(block.text, 1, w) \in Seq(W) /\ SubSeq(block.text, w + 1, n) \in Seq(W)
      /\ SubSeq(block.text, 1, w) \o SubSeq(block.text, w + 1, n) = block.text
  <2>1. \A i \in 1..n : block.text[i] \in W
    BY <1>1, ElementOfSeq
  <2>2. \A a, b \in Int : (\A i \in a..b : block.text[i] \in W) => SubSeq(block.text, a, b) \in Seq(W)
    BY SubSeqProperties
  <2>3. 1 \in 1..(n + 1) /\ w \in (1 - 1)..n /\ n \in w..n
    BY <1>1, <1>3
  <2>4. SubSeq(block.text, 1, w) \o SubSeq(block.text, w + 1, n) = SubSeq(block.text, 1, n)
    BY <1>1, <2>3, ConcatAdjacentSubSeq
  <2>5. SubSeq(block.text, 1, n) = block.text
    BY <1>1, SubSeqFull
  <2>6. 1 \in Int /\ w \in Int /\ w + 1 \in Int /\ n \in Int
    BY <1>1, <1>3
  <2>7. (\A i \in 1..w : i \in 1..n) /\ (\A i \in (w + 1)..n : i \in 1..n)
    BY <1>1, <1>3
  <2> HIDE DEF w, n
  <2> QED BY <2>1, <2>2, <2>4, <2>5, <2>6, <2>7
<1>5. /\ left \in BlocksOf(W) /\ right \in BlocksOf(W)
  BY <1>1, <1>2, <1>4 DEF BlocksOf
<1>6. Halves(block) = <<left, right>>
  BY DEF Halves
<1>7. /\ left.start = block.start /\ left.end = SplitTime(block)
      /\ right.start = SplitTime(block) /\ right.end = block.end
      /\ left.text \o right.text = block.text
  BY <1>4
<1> HIDE DEF left, right
<1> DEFINE halves == <<left, right>>
<1>8. /\ halves \in Seq(BlocksOf(W)) /\ Len(halves) = 2
      /\ halves[1] = left /\ halves[2] = right
  BY <1>5
<1>9. Words(halves) = block.text
  BY <1>5, <1>7, WordsOfFew
<1> HIDE DEF halves
<1>10. halves \in Timelines(W)
  <2>1. ASSUME NEW i \in 1..2 PROVE halves[i].start < halves[i].end
    <3>1. i = 1 \/ i = 2
      OBVIOUS
    <3> QED BY <1>2, <1>7, <1>8, <3>1
  <2>2. ASSUME NEW i \in 1..(2 - 1) PROVE halves[i].end <= halves[i + 1].start
    <3>1. i = 1 /\ i + 1 = 2
      OBVIOUS
    <3> QED BY <1>2, <1>7, <1>8, <3>1
  <2>3. Ordered(halves)
    BY <1>8, <2>1, <2>2 DEF Ordered
  <2>4. Len(halves) > 0
    BY <1>8
  <2> QED BY <1>8, <2>3, <2>4 DEF Timelines
<1> QED BY <1>1, <1>6, <1>7, <1>8, <1>9, <1>10 DEF Covers, Inside, halves

(* Splitting once, and level by level.                                     *)
LEMMA SplitOnceCovers ==
    ASSUME NEW W, NEW block, NEW bs \in Covers(W, block), block.start \in Int, block.end \in Int
    PROVE  SplitOnce(bs) \in Covers(W, block)
<1> DEFINE f == [i \in DOMAIN bs |->
                   IF WithinLimits(bs[i]) \/ ~MaySplit(bs[i]) THEN <<bs[i]>> ELSE Halves(bs[i])]
<1>1. /\ bs \in Timelines(W) /\ Words(bs) = block.text
      /\ block.start <= bs[1].start /\ bs[Len(bs)].end <= block.end
  BY DEF Covers, Inside
<1>2. DOMAIN bs = 1..Len(bs) /\ Len(bs) \in Nat \ {0}
  BY <1>1, TimelineParts
<1>3. ASSUME NEW i \in 1..Len(bs) PROVE f[i] \in Covers(W, bs[i])
  <2>1. bs[i] \in BlocksOf(W) /\ bs[i].start < bs[i].end
    BY <1>1, TimelineParts
  <2>2. <<bs[i]>> \in Covers(W, bs[i])
    BY <2>1, OneCovers
  <2>3. MaySplit(bs[i]) => Halves(bs[i]) \in Covers(W, bs[i])
    BY <2>1, HalvesCover
  <2>4. f[i] = <<bs[i]>> \/ (MaySplit(bs[i]) /\ f[i] = Halves(bs[i]))
    BY <1>2
  <2> QED BY <2>2, <2>3, <2>4
<1>4. f \in [1..Len(bs) -> Timelines(W)]
  <2>1. \A i \in 1..Len(bs) : f[i] \in Timelines(W)
    BY <1>3 DEF Covers, Inside
  <2> QED BY <1>2, <2>1
<1>5. SplitOnce(bs) = FlattenSeq(f)
  BY DEF SplitOnce
<1> HIDE DEF f
<1>6. /\ FlattenSeq(f) \in Timelines(W)
      /\ bs[1].start <= FlattenSeq(f)[1].start
      /\ FlattenSeq(f)[Len(FlattenSeq(f))].end <= bs[Len(bs)].end
      /\ Words(FlattenSeq(f)) = Words(bs)
  BY <1>1, <1>3, <1>4, CoversJoin
<1> DEFINE s == FlattenSeq(f)
<1>7. /\ s[1].start \in Int /\ s[Len(s)].end \in Int
      /\ bs[1].start \in Int /\ bs[Len(bs)].end \in Int
  <2>1. 1 \in 1..Len(s) /\ Len(s) \in 1..Len(s)
    BY <1>6, TimelineParts
  <2>2. 1 \in 1..Len(bs) /\ Len(bs) \in 1..Len(bs)
    BY <1>2
  <2> QED BY <1>1, <1>6, <2>1, <2>2, TimelineParts
<1>8. s \in Timelines(W) /\ Words(s) = block.text
  BY <1>1, <1>6
<1>9. block.start <= s[1].start /\ s[Len(s)].end <= block.end
  <2>1. bs[1].start <= s[1].start /\ s[Len(s)].end <= bs[Len(bs)].end
    BY <1>6
  <2> HIDE DEF s
  <2> QED BY <1>1, <1>7, <2>1
<1>10. s \in Covers(W, block)
  <2> HIDE DEF s
  <2> QED BY <1>8, <1>9 DEF Covers, Inside
<1> QED BY <1>5, <1>10

(* What is within the limits, cannot be split, or has k words at most.     *)
Small(W, k) ==
    {block \in BlocksOf(W) :
        WithinLimits(block) \/ ~MaySplit(block) \/ Len(block.text) <= k}

(* Splitting once takes a word at least from what is still to be split.    *)
LEMMA SplitOnceShrinks ==
    ASSUME NEW W, NEW k \in Nat, NEW bs \in Seq(Small(W, k + 1))
    PROVE  SplitOnce(bs) \in Seq(Small(W, k))
<1> DEFINE f == [i \in DOMAIN bs |->
                   IF WithinLimits(bs[i]) \/ ~MaySplit(bs[i]) THEN <<bs[i]>> ELSE Halves(bs[i])]
<1>1. DOMAIN bs = 1..Len(bs) /\ Len(bs) \in Nat
  OBVIOUS
<1>2. ASSUME NEW i \in 1..Len(bs) PROVE f[i] \in Seq(Small(W, k))
  <2> DEFINE b == bs[i]
  <2>1. b \in Small(W, k + 1)
    BY ElementOfSeq
  <2>2. f[i] = IF WithinLimits(b) \/ ~MaySplit(b) THEN <<b>> ELSE Halves(b)
    BY <1>1
  <2> HIDE DEF b, f
  <2>3. b \in BlocksOf(W)
    BY <2>1 DEF Small
  <2>4. CASE WithinLimits(b) \/ ~MaySplit(b)
    <3>1. b \in Small(W, k)
      BY <2>3, <2>4 DEF Small
    <3>2. f[i] = <<b>>
      BY <2>2, <2>4
    <3> QED BY <3>1, <3>2
  <2>5. CASE ~WithinLimits(b) /\ MaySplit(b)
    <3> DEFINE n == Len(b.text)
               w == LeftWords(b.text)
               left == [start |-> b.start, end |-> SplitTime(b), text |-> SubSeq(b.text, 1, w)]
               right == [start |-> SplitTime(b), end |-> b.end, text |-> SubSeq(b.text, w + 1, n)]
    <3>1. /\ b.start \in Int /\ b.end \in Int /\ b.text \in Seq(W) /\ n \in Nat
          /\ n > 1 /\ n <= k + 1
      BY <2>1, <2>3, <2>5 DEF BlocksOf, Small, MaySplit
    <3>2. SplitTime(b) \in Int
      BY <2>3, <2>5, SplitTimeInside
    <3>3. w \in 1..(n - 1)
      <4>1. w = (n + 1) \div 2
        BY DEF LeftWords
      <4> HIDE DEF w, n
      <4> QED BY <3>1, <4>1
    <3>4. /\ SubSeq(b.text, 1, w) \in Seq(W) /\ Len(SubSeq(b.text, 1, w)) = w
          /\ SubSeq(b.text, w + 1, n) \in Seq(W) /\ Len(SubSeq(b.text, w + 1, n)) = n - w
      <4>1. \A j \in 1..n : b.text[j] \in W
        BY <3>1, ElementOfSeq
      <4>2. \A x, y \in Int : (\A j \in x..y : b.text[j] \in W) =>
              /\ SubSeq(b.text, x, y) \in Seq(W)
              /\ Len(SubSeq(b.text, x, y)) = IF x <= y THEN y - x + 1 ELSE 0
        BY SubSeqProperties
      <4>3. 1 \in Int /\ w \in Int /\ w + 1 \in Int /\ n \in Int /\ 1 <= w /\ w + 1 <= n
        BY <3>1, <3>3
      <4>4. (\A j \in 1..w : j \in 1..n) /\ (\A j \in (w + 1)..n : j \in 1..n)
        BY <3>1, <3>3
      <4> HIDE DEF w, n
      <4>5. /\ SubSeq(b.text, 1, w) \in Seq(W)
            /\ Len(SubSeq(b.text, 1, w)) = w - 1 + 1
        BY <4>1, <4>2, <4>3, <4>4
      <4>6. /\ SubSeq(b.text, w + 1, n) \in Seq(W)
            /\ Len(SubSeq(b.text, w + 1, n)) = n - (w + 1) + 1
        BY <4>1, <4>2, <4>3, <4>4
      <4> QED BY <4>3, <4>5, <4>6
    <3>5. f[i] = <<left, right>>
      BY <2>2, <2>5 DEF Halves
    <3>6. /\ left \in BlocksOf(W) /\ right \in BlocksOf(W)
          /\ Len(left.text) = w /\ Len(right.text) = n - w
      BY <3>1, <3>2, <3>4 DEF BlocksOf
    <3> HIDE DEF left, right, w, n
    <3>7. left \in Small(W, k) /\ right \in Small(W, k)
      BY <3>1, <3>3, <3>6 DEF Small
    <3> QED BY <3>5, <3>7
  <2> QED BY <2>4, <2>5
<1>3. f \in [1..Len(bs) -> Seq(Small(W, k))]
  BY <1>1, <1>2
<1>4. SplitOnce(bs) = FlattenSeq(f)
  BY DEF SplitOnce
<1> HIDE DEF f
<1>5. PICK g : Joins(g, f, Len(bs), Small(W, k))
  BY <1>1, <1>3, JoinSteps
<1>6. Len(bs) \in 0..Len(bs)
  BY <1>1
<1> QED BY <1>4, <1>5, <1>6 DEF Joins

(* A segment, split to the limits, says the same in pieces that are within *)
(* them or cannot be split.                                                *)
LEMMA SplitToLimitsCovers ==
    ASSUME NEW W, NEW segment \in BlocksOf(W), segment.start < segment.end
    PROVE  /\ SplitToLimits(segment) \in Covers(W, segment)
           /\ SplitToLimits(segment) \in Seq(Small(W, 0))
<1> DEFINE n == Len(segment.text)
           S == Covers(W, segment)
           Rule(f) == [level \in 0..n |->
                         IF level = 0 THEN <<segment>> ELSE Apply(SplitOnce, f[level - 1])]
           pieces == CHOOSE f : f = Rule(f)
           H == [level \in 1..n |-> [bs \in S |-> SplitOnce(bs)]]
<1>1. segment.start \in Int /\ segment.end \in Int /\ n \in Nat
  BY DEF BlocksOf
<1>2. \A bs : Apply(SplitOnce, bs) = SplitOnce(bs)
  BY DEF Apply
<1>3. <<segment>> \in S
  BY OneCovers
<1>4. \A bs \in S : SplitOnce(bs) \in S
  BY <1>1, SplitOnceCovers
<1>5. SplitToLimits(segment) = pieces[n]
  BY DEF SplitToLimits
<1> HIDE DEF S, n
<1>6. H \in Recursions(n, S) /\ \A level \in 1..n, bs \in S : H[level][bs] = SplitOnce(bs)
  BY <1>4 DEF Recursions
<1> HIDE DEF H
<1>7. PICK g : Unfolds(g, n, S, <<segment>>, H)
  BY <1>1, <1>3, <1>6, RecursionUpwards
<1>8. g = Rule(g)
  <2>1. ASSUME NEW level \in 1..n PROVE g[level] = Apply(SplitOnce, g[level - 1])
    <3>1. level - 1 \in 0..n
      BY <1>1
    <3>2. g[level - 1] \in S /\ g[level] = H[level][g[level - 1]]
      BY <1>7, <3>1 DEF Unfolds
    <3>3. g[level] = SplitOnce(g[level - 1])
      BY <1>6, <3>2
    <3> QED BY <1>2, <3>3
  <2>2. g \in [0..n -> S] /\ g[0] = <<segment>>
    BY <1>7 DEF Unfolds
  <2>3. ASSUME NEW level \in 0..n
        PROVE  g[level] = IF level = 0 THEN <<segment>> ELSE Apply(SplitOnce, g[level - 1])
    <3>1. level # 0 => level \in 1..n
      BY <1>1
    <3> QED BY <2>1, <2>2, <3>1
  <2> QED BY <2>2, <2>3
<1>9. pieces = Rule(pieces)
  BY <1>8
<1> HIDE DEF pieces
<1> DEFINE T == {level \in 0..n :
                   pieces[level] \in S /\ pieces[level] \in Seq(Small(W, n - level))}
<1>10. 0 \in T
  <2>1. pieces[0] = <<segment>> /\ 0 \in 0..n
    BY <1>1, <1>9
  <2>2. segment \in Small(W, n - 0)
    BY <1>1 DEF Small, n
  <2>3. <<segment>> \in Seq(Small(W, n - 0))
    BY <2>2
  <2> QED BY <1>3, <2>1, <2>3
<1>11. ASSUME NEW level \in 1..n, level - 1 \in T PROVE level \in T
  <2>1. /\ level \in 0..n /\ level # 0
        /\ n - level \in Nat /\ n - (level - 1) = (n - level) + 1
    BY <1>1
  <2>2. pieces[level] = SplitOnce(pieces[level - 1])
    <3>1. pieces[level] = Apply(SplitOnce, pieces[level - 1])
      BY <1>9, <2>1
    <3> QED BY <1>2, <3>1
  <2>3. pieces[level] \in S
    BY <1>4, <1>11, <2>2
  <2>4. pieces[level] \in Seq(Small(W, n - level))
    <3>1. pieces[level - 1] \in Seq(Small(W, (n - level) + 1))
      BY <1>11, <2>1
    <3> QED BY <2>1, <2>2, <3>1, SplitOnceShrinks
  <2> QED BY <2>1, <2>3, <2>4
<1>12. n \in T
  <2> HIDE DEF T
  <2>1. 0 <= n /\ 0 \in Nat /\ 0 + 1 = 1 /\ n \in 0..n
    BY <1>1
  <2>2. 0..n \subseteq T
    BY <1>1, <1>10, <1>11, <2>1, Upwards
  <2> QED BY <2>1, <2>2
<1>13. n - n = 0
  BY <1>1
<1> QED BY <1>5, <1>12, <1>13 DEF S

(* The pieces of a transcript say what its segments say, and splitting has *)
(* come to its end.                                                        *)
LEMMA PiecesSayAll ==
    ASSUME NEW W, NEW said \in Timelines(W)
    PROVE  /\ Pieces(said) \in Timelines(W) /\ Words(Pieces(said)) = Words(said)
           /\ Pieces(said) \in Seq(Small(W, 0))
<1> DEFINE f == [i \in DOMAIN said |-> SplitToLimits(said[i])]
<1>1. DOMAIN said = 1..Len(said)
  BY TimelineParts
<1>2. ASSUME NEW i \in 1..Len(said)
      PROVE  f[i] \in Covers(W, said[i]) /\ f[i] \in Seq(Small(W, 0))
  <2>1. said[i] \in BlocksOf(W) /\ said[i].start < said[i].end
    BY TimelineParts
  <2> QED BY <1>1, <2>1, SplitToLimitsCovers
<1>3. f \in [1..Len(said) -> Timelines(W)]
  <2>1. \A i \in 1..Len(said) : f[i] \in Timelines(W)
    BY <1>2 DEF Covers, Inside
  <2> QED BY <1>1, <2>1
<1>4. Pieces(said) = FlattenSeq(f)
  BY DEF Pieces
<1> HIDE DEF f
<1>5. FlattenSeq(f) \in Seq(Small(W, 0))
  <2>1. Len(said) \in Nat /\ Len(said) \in 0..Len(said)
    BY TimelineParts
  <2>2. f \in [1..Len(said) -> Seq(Small(W, 0))]
    BY <1>2, <1>3
  <2>3. PICK g : Joins(g, f, Len(said), Small(W, 0))
    BY <2>1, <2>2, JoinSteps
  <2> QED BY <2>1, <2>3 DEF Joins
<1> QED BY <1>2, <1>3, <1>4, <1>5, CoversJoin

-----------------------------------------------------------------------------
(* Merging.                                                                *)

(* A merge keeps what is said; the merged block lasts as long as both and  *)
(* the silence between them.                                               *)
LEMMA MergeKeeps ==
    ASSUME NEW W, NEW bs \in Timelines(W), NEW i \in 1..(Len(bs) - 1)
    PROVE  LET merged == MergeAt(bs, i) IN
           /\ merged \in Timelines(W) /\ Words(merged) = Words(bs)
           /\ Len(merged) = Len(bs) - 1
           /\ \A j \in 1..(i - 1) : merged[j] = bs[j]
           /\ merged[i] = Merge(bs[i], bs[i + 1])
           /\ \A j \in (i + 1)..Len(merged) : merged[j] = bs[j + 1]
           /\ Lasts(merged[i]) >= Lasts(bs[i]) /\ Lasts(merged[i]) >= Lasts(bs[i + 1])
<1> DEFINE n == Len(bs)
           before == SubSeq(bs, 1, i - 1)
           one == Merge(bs[i], bs[i + 1])
           after == SubSeq(bs, i + 2, n)
           merged == (before \o <<one>>) \o after
<1>1. /\ bs \in Seq(BlocksOf(W)) /\ n \in Nat \ {0} /\ i \in Nat \ {0} /\ i + 1 <= n
      /\ i \in 1..n /\ i + 1 \in 1..n
  BY TimelineParts
<1>2. /\ bs[i].start \in Int /\ bs[i].end \in Int
      /\ bs[i + 1].start \in Int /\ bs[i + 1].end \in Int
      /\ bs[i].text \in Seq(W) /\ bs[i + 1].text \in Seq(W)
      /\ bs[i].start < bs[i].end /\ bs[i].end <= bs[i + 1].start
      /\ bs[i + 1].start < bs[i + 1].end
      /\ bs[i] \in BlocksOf(W) /\ bs[i + 1] \in BlocksOf(W)
  BY <1>1, TimelineParts
<1>3. /\ one \in BlocksOf(W) /\ one.start = bs[i].start /\ one.end = bs[i + 1].end
      /\ one.text = bs[i].text \o bs[i + 1].text
  <2>1. bs[i].text \o bs[i + 1].text \in Seq(W)
    BY <1>2, ConcatProperties
  <2>2. one = [start |-> bs[i].start, end |-> bs[i + 1].end,
               text |-> bs[i].text \o bs[i + 1].text]
    BY DEF Merge
  <2> HIDE DEF one
  <2> QED BY <1>2, <2>1, <2>2 DEF BlocksOf
<1>4. \A a, b \in Int : 1 <= a /\ b <= n => \A k \in a..b : bs[k] \in BlocksOf(W)
  BY <1>1, TimelineParts
<1>5. /\ before \in Seq(BlocksOf(W)) /\ Len(before) = i - 1
      /\ \A j \in 1..(i - 1) : before[j] = bs[j]
  <2>1. \A k \in 1..(i - 1) : bs[k] \in BlocksOf(W)
    BY <1>1, <1>4
  <2>2. 1 \in Int /\ i - 1 \in Int /\ (i - 1) - 1 + 1 = i - 1
    BY <1>1
  <2>3. /\ before \in Seq(BlocksOf(W))
        /\ Len(before) = IF 1 <= i - 1 THEN (i - 1) - 1 + 1 ELSE 0
        /\ \A j \in 1..((i - 1) - 1 + 1) : before[j] = bs[1 + j - 1]
    BY <2>1, <2>2, SubSeqProperties
  <2> HIDE DEF before
  <2> QED BY <1>1, <2>3
<1>6. /\ after \in Seq(BlocksOf(W)) /\ Len(after) = n - (i + 1)
      /\ \A j \in 1..(n - (i + 1)) : after[j] = bs[j + (i + 1)]
  <2>1. \A k \in (i + 2)..n : bs[k] \in BlocksOf(W)
    BY <1>1, <1>4
  <2>2. i + 2 \in Int /\ n \in Int
    BY <1>1
  <2>3. /\ after \in Seq(BlocksOf(W))
        /\ Len(after) = IF i + 2 <= n THEN n - (i + 2) + 1 ELSE 0
        /\ \A j \in 1..(n - (i + 2) + 1) : after[j] = bs[(i + 2) + j - 1]
    BY <2>1, <2>2, SubSeqProperties
  <2> HIDE DEF after, n
  <2> QED BY <1>1, <2>3
<1>7. MergeAt(bs, i) = merged
  BY DEF MergeAt
<1>8. /\ merged \in Seq(BlocksOf(W)) /\ Len(merged) = n - 1
      /\ \A j \in 1..(i - 1) : merged[j] = bs[j]
      /\ merged[i] = one
      /\ \A j \in (i + 1)..(n - 1) : merged[j] = bs[j + 1]
  <2> DEFINE front == before \o <<one>>
  <2>1. \A s, t \in Seq(BlocksOf(W)) :
          /\ s \o t \in Seq(BlocksOf(W)) /\ Len(s \o t) = Len(s) + Len(t)
          /\ \A j \in 1..(Len(s) + Len(t)) :
                (s \o t)[j] = IF j <= Len(s) THEN s[j] ELSE t[j - Len(s)]
    BY ConcatProperties
  <2>2. <<one>> \in Seq(BlocksOf(W)) /\ Len(<<one>>) = 1 /\ <<one>>[1] = one
    BY <1>3
  <2> HIDE DEF before, one, after, n
  <2>3. /\ front \in Seq(BlocksOf(W)) /\ Len(front) = (i - 1) + 1
        /\ \A j \in 1..((i - 1) + 1) : front[j] = IF j <= i - 1 THEN before[j] ELSE <<one>>[j - (i - 1)]
    <3>1. before \in Seq(BlocksOf(W)) /\ <<one>> \in Seq(BlocksOf(W))
      BY <1>5, <2>2
    <3>2. /\ front \in Seq(BlocksOf(W)) /\ Len(front) = Len(before) + Len(<<one>>)
          /\ \A j \in 1..(Len(before) + Len(<<one>>)) :
                front[j] = IF j <= Len(before) THEN before[j] ELSE <<one>>[j - Len(before)]
      BY <2>1, <3>1
    <3>3. Len(before) = i - 1 /\ Len(<<one>>) = 1
      BY <1>5, <2>2
    <3> HIDE DEF front
    <3> QED BY <3>2, <3>3
  <2>4. /\ Len(front) = i /\ front[i] = one
        /\ \A j \in 1..(i - 1) : front[j] = bs[j]
    <3>1. (i - 1) + 1 = i /\ i - (i - 1) = 1 /\ i \in 1..i /\ ~(i <= i - 1)
      BY <1>1
    <3>2. front[i] = <<one>>[i - (i - 1)]
      BY <2>3, <3>1
    <3>3. ASSUME NEW j \in 1..(i - 1) PROVE front[j] = bs[j]
      <4>1. j \in 1..((i - 1) + 1) /\ j <= i - 1
        BY <1>1
      <4> QED BY <1>5, <2>3, <4>1
    <3> QED BY <2>2, <2>3, <3>1, <3>2, <3>3
  <2> HIDE DEF front
  <2>5. merged = front \o after
    BY DEF front
  <2> HIDE DEF merged
  <2>6. /\ merged \in Seq(BlocksOf(W)) /\ Len(merged) = i + (n - (i + 1))
        /\ \A j \in 1..(i + (n - (i + 1))) : merged[j] = IF j <= i THEN front[j] ELSE after[j - i]
    <3>1. front \in Seq(BlocksOf(W)) /\ after \in Seq(BlocksOf(W))
      BY <1>6, <2>3
    <3>2. /\ front \o after \in Seq(BlocksOf(W))
          /\ Len(front \o after) = Len(front) + Len(after)
          /\ \A j \in 1..(Len(front) + Len(after)) :
                (front \o after)[j] = IF j <= Len(front) THEN front[j] ELSE after[j - Len(front)]
      BY <2>1, <3>1
    <3>3. Len(front) = i /\ Len(after) = n - (i + 1)
      BY <1>6, <2>4
    <3> QED BY <2>5, <3>2, <3>3
  <2>7. i + (n - (i + 1)) = n - 1 /\ i \in 1..(n - 1)
    BY <1>1
  <2>8. ASSUME NEW j \in 1..(i - 1) PROVE merged[j] = bs[j]
    <3>1. j \in 1..(n - 1) /\ j <= i
      BY <1>1
    <3> QED BY <2>4, <2>6, <2>7, <3>1
  <2>9. ASSUME NEW j \in (i + 1)..(n - 1) PROVE merged[j] = bs[j + 1]
    <3>1. /\ j \in 1..(n - 1) /\ ~(j <= i) /\ j - i \in 1..(n - (i + 1))
          /\ (j - i) + (i + 1) = j + 1
      BY <1>1
    <3>2. merged[j] = after[j - i]
      BY <2>6, <2>7, <3>1
    <3> QED BY <1>6, <3>1, <3>2
  <2>10. merged[i] = one
    BY <1>1, <2>4, <2>6, <2>7
  <2> QED BY <2>6, <2>7, <2>8, <2>9, <2>10
<1>9. Words(merged) = Words(bs)
  <2> DEFINE two == SubSeq(bs, i, i + 1)
  <2>1. bs = (before \o two) \o after
    <3>1. /\ 1 \in 1..(n + 1) /\ i - 1 \in (1 - 1)..n /\ i + 1 \in (i - 1)..n
          /\ i + 1 \in 0..n /\ n \in (i + 1)..n
          /\ (i - 1) + 1 = i /\ (i + 1) + 1 = i + 2 /\ 1 - 1 = 0
      BY <1>1
    <3>2. before \o two = SubSeq(bs, 1, i + 1)
      BY <1>1, <3>1, ConcatAdjacentSubSeq
    <3>3. SubSeq(bs, 1, i + 1) \o after = SubSeq(bs, 1, n)
      <4>1. SubSeq(bs, 1, i + 1) \o SubSeq(bs, (i + 1) + 1, n) = SubSeq(bs, 1, n)
        BY <1>1, <3>1, ConcatAdjacentSubSeq
      <4> QED BY <3>1, <4>1
    <3>4. SubSeq(bs, 1, n) = bs
      BY <1>1, SubSeqFull
    <3> QED BY <3>2, <3>3, <3>4
  <2>2. two = <<bs[i], bs[i + 1]>>
    <3>1. \A k \in i..(i + 1) : bs[k] \in BlocksOf(W)
      BY <1>1, <1>4
    <3>2. i \in Int /\ i + 1 \in Int
      BY <1>1
    <3>3. /\ two \in Seq(BlocksOf(W))
          /\ Len(two) = IF i <= i + 1 THEN (i + 1) - i + 1 ELSE 0
          /\ \A j \in 1..((i + 1) - i + 1) : two[j] = bs[i + j - 1]
      BY <3>1, <3>2, SubSeqProperties
    <3> HIDE DEF two
    <3>4. (i + 1) - i + 1 = 2 /\ i <= i + 1 /\ i + 1 - 1 = i /\ i + 2 - 1 = i + 1
      BY <1>1
    <3>5. two \in Seq(BlocksOf(W)) /\ Len(two) = 2 /\ two[1] = bs[i] /\ two[2] = bs[i + 1]
      <4>1. 1 \in 1..2 /\ 2 \in 1..2
        OBVIOUS
      <4> QED BY <3>3, <3>4, <4>1
    <3> QED BY <3>5
  <2>3. /\ \A s, t \in Seq(BlocksOf(W)) :
             s \o t \in Seq(BlocksOf(W)) /\ Words(s \o t) = Words(s) \o Words(t)
    BY ConcatProperties, WordsJoin
  <2>4. Words(<<one>>) = one.text /\ Words(two) = bs[i].text \o bs[i + 1].text
    BY <1>2, <1>3, <2>2, WordsOfFew
  <2>5. <<one>> \in Seq(BlocksOf(W)) /\ two \in Seq(BlocksOf(W))
    BY <1>2, <1>3, <2>2
  <2> HIDE DEF two, before, one, after
  <2>6. Words(before \o two) = Words(before) \o Words(two) /\ before \o two \in Seq(BlocksOf(W))
    BY <1>5, <2>3, <2>5
  <2>7. /\ Words(before \o <<one>>) = Words(before) \o Words(<<one>>)
        /\ before \o <<one>> \in Seq(BlocksOf(W))
    BY <1>5, <2>3, <2>5
  <2>8. /\ Words((before \o two) \o after) = Words(before \o two) \o Words(after)
        /\ Words((before \o <<one>>) \o after) = Words(before \o <<one>>) \o Words(after)
    BY <1>6, <2>3, <2>6, <2>7
  <2>9. Words(two) = Words(<<one>>)
    BY <1>3, <2>4
  <2> QED BY <2>1, <2>6, <2>7, <2>8, <2>9
<1> HIDE DEF merged, one, before, after
<1>10. ASSUME NEW j \in 1..(n - 1) PROVE merged[j].start < merged[j].end
  <2>1. CASE j < i
    <3>1. j \in 1..(i - 1) /\ j \in 1..n
      BY <1>1, <2>1
    <3> QED BY <1>8, <3>1, TimelineParts
  <2>2. CASE j = i
    BY <1>2, <1>3, <1>8, <2>2
  <2>3. CASE j > i
    <3>1. j \in (i + 1)..(n - 1) /\ j + 1 \in 1..n
      BY <1>1, <2>3
    <3> QED BY <1>8, <3>1, TimelineParts
  <2> QED BY <1>1, <2>1, <2>2, <2>3
<1>11. ASSUME NEW j \in 1..((n - 1) - 1) PROVE merged[j].end <= merged[j + 1].start
  <2>1. CASE j < i - 1
    <3>1. j \in 1..(i - 1) /\ j + 1 \in 1..(i - 1) /\ j \in 1..(n - 1)
      BY <1>1, <2>1
    <3> QED BY <1>8, <3>1, TimelineParts
  <2>2. CASE j = i - 1
    <3>1. j \in 1..(i - 1) /\ j + 1 = i /\ j \in 1..(n - 1)
      BY <1>1, <2>2
    <3>2. bs[j].end <= bs[j + 1].start
      BY <3>1, TimelineParts
    <3> QED BY <1>3, <1>8, <3>1, <3>2
  <2>3. CASE j = i
    <3>1. j + 1 \in (i + 1)..(n - 1) /\ i + 1 \in 1..(n - 1)
      BY <1>1, <2>3
    <3>2. merged[j].end = bs[i + 1].end /\ merged[j + 1] = bs[(i + 1) + 1]
      BY <1>3, <1>8, <2>3, <3>1
    <3> QED BY <3>1, <3>2, TimelineParts
  <2>4. CASE j > i
    <3>1. j \in (i + 1)..(n - 1) /\ j + 1 \in (i + 1)..(n - 1) /\ j + 1 \in 1..(n - 1)
      BY <1>1, <2>4
    <3>2. merged[j] = bs[j + 1] /\ merged[j + 1] = bs[(j + 1) + 1]
      BY <1>8, <3>1
    <3> QED BY <3>1, <3>2, TimelineParts
  <2> QED BY <1>1, <2>1, <2>2, <2>3, <2>4
<1>12. merged \in Timelines(W)
  <2>1. n - 1 > 0
    BY <1>1
  <2> QED BY <1>8, <1>10, <1>11, <2>1 DEF Timelines, Ordered
<1>13. Lasts(merged[i]) >= Lasts(bs[i]) /\ Lasts(merged[i]) >= Lasts(bs[i + 1])
  BY <1>2, <1>3, <1>8 DEF Lasts
<1> QED BY <1>7, <1>8, <1>9, <1>12, <1>13 DEF one

(* Blocks the model can take.                                              *)
Fit(bs) == \A i \in 1..Len(bs) : WithinLimits(bs[i])

(* Only what is within the limits together is merged.                      *)
LEMMA MergeFits ==
    ASSUME NEW W, NEW bs \in Timelines(W), NEW i, CanMerge(bs, i), Fit(bs)
    PROVE  Fit(MergeAt(bs, i))
<1> DEFINE merged == MergeAt(bs, i)
<1>1. i \in 1..(Len(bs) - 1) /\ WithinLimits(Merge(bs[i], bs[i + 1]))
  BY DEF CanMerge
<1>2. /\ Len(merged) = Len(bs) - 1
      /\ \A j \in 1..(i - 1) : merged[j] = bs[j]
      /\ merged[i] = Merge(bs[i], bs[i + 1])
      /\ \A j \in (i + 1)..Len(merged) : merged[j] = bs[j + 1]
  BY <1>1, MergeKeeps
<1>3. Len(bs) \in Nat \ {0}
  BY TimelineParts
<1> HIDE DEF merged
<1>4. ASSUME NEW j \in 1..Len(merged) PROVE WithinLimits(merged[j])
  <2>1. CASE j < i
    <3>1. j \in 1..(i - 1) /\ j \in 1..Len(bs)
      BY <1>1, <1>2, <1>3, <2>1
    <3> QED BY <1>2, <3>1 DEF Fit
  <2>2. CASE j = i
    BY <1>1, <1>2, <2>2
  <2>3. CASE j > i
    <3>1. j \in (i + 1)..Len(merged) /\ j + 1 \in 1..Len(bs)
      BY <1>1, <1>2, <1>3, <2>3
    <3> QED BY <1>2, <3>1 DEF Fit
  <2> QED BY <1>1, <1>2, <1>3, <2>1, <2>2, <2>3
<1> QED BY <1>4 DEF Fit, merged

(* The walk over the blocks, with the words they say together.             *)
States(W, words) ==
    {walk \in [stuck : BOOLEAN, blocks : Timelines(W), at : Nat \ {0}] :
        /\ walk.at <= Len(walk.blocks) + 1
        /\ Words(walk.blocks) = words /\ Fit(walk.blocks)}

(* The blocks there are and those still ahead.                             *)
Ahead(walk) == 2 * Len(walk.blocks) - walk.at

(* A step of a walk, onward or merging the block it is at with the next or *)
(* with the one before: less is ahead.                                     *)
LEMMA MergesKeep ==
    ASSUME NEW W, NEW words, NEW walk \in States(W, words), ~Stopped(walk)
    PROVE  /\ Onward(walk) \in States(W, words)
           /\ Onward(walk).stuck = walk.stuck /\ Ahead(Onward(walk)) < Ahead(walk)
           /\ Onward(walk).blocks = walk.blocks /\ Onward(walk).at = walk.at + 1
           /\ CanMerge(walk.blocks, walk.at) =>
                /\ MergedRight(walk) \in States(W, words)
                /\ MergedRight(walk).stuck = walk.stuck /\ Ahead(MergedRight(walk)) < Ahead(walk)
                /\ MergedRight(walk).blocks = MergeAt(walk.blocks, walk.at)
                /\ MergedRight(walk).at = walk.at
           /\ CanMerge(walk.blocks, walk.at - 1) =>
                /\ MergedLeft(walk) \in States(W, words)
                /\ MergedLeft(walk).stuck = walk.stuck /\ Ahead(MergedLeft(walk)) < Ahead(walk)
                /\ MergedLeft(walk).blocks = MergeAt(walk.blocks, walk.at - 1)
                /\ MergedLeft(walk).at = walk.at - 1
<1>1. /\ walk = [stuck |-> walk.stuck, blocks |-> walk.blocks, at |-> walk.at]
      /\ walk.stuck \in BOOLEAN /\ walk.blocks \in Timelines(W) /\ walk.at \in Nat \ {0}
      /\ Words(walk.blocks) = words /\ Fit(walk.blocks)
  BY DEF States
<1>2. /\ Onward(walk) = [stuck |-> walk.stuck, blocks |-> walk.blocks, at |-> walk.at + 1]
      /\ MergedRight(walk) = [stuck |-> walk.stuck, blocks |-> MergeAt(walk.blocks, walk.at),
                              at |-> walk.at]
      /\ MergedLeft(walk) = [stuck |-> walk.stuck, blocks |-> MergeAt(walk.blocks, walk.at - 1),
                             at |-> Max({walk.at - 1, 1})]
  <2>1. ASSUME NEW s, NEW b, NEW a, NEW w, w = [stuck |-> s, blocks |-> b, at |-> a]
        PROVE  /\ Onward(w) = [stuck |-> s, blocks |-> b, at |-> a + 1]
               /\ MergedRight(w) = [stuck |-> s, blocks |-> MergeAt(b, a), at |-> a]
               /\ MergedLeft(w) = [stuck |-> s, blocks |-> MergeAt(b, a - 1),
                                   at |-> Max({a - 1, 1})]
    <3>1. w.blocks = b /\ w.at = a
      BY <2>1
    <3>2. Onward(w) = [w EXCEPT !.at = a + 1]
      BY <3>1 DEF Onward
    <3>3. MergedRight(w) = [w EXCEPT !.blocks = MergeAt(b, a)]
      BY <3>1 DEF MergedRight
    <3>4. MergedLeft(w) = [w EXCEPT !.blocks = MergeAt(b, a - 1), !.at = Max({a - 1, 1})]
      BY <3>1 DEF MergedLeft
    <3> QED BY <2>1, <3>2, <3>3, <3>4
  <2>2. walk = [stuck |-> walk.stuck, blocks |-> walk.blocks, at |-> walk.at]
    BY <1>1
  <2> QED BY <2>1, <2>2
<1>3. Len(walk.blocks) \in Nat \ {0} /\ walk.at <= Len(walk.blocks)
  BY <1>1, TimelineParts DEF Stopped
<1>4. Onward(walk) \in States(W, words) /\ Ahead(Onward(walk)) < Ahead(walk)
  BY <1>1, <1>2, <1>3 DEF States, Ahead
<1>5. \A i : CanMerge(walk.blocks, i) =>
              /\ i \in 1..(Len(walk.blocks) - 1)
              /\ MergeAt(walk.blocks, i) \in Timelines(W)
              /\ Words(MergeAt(walk.blocks, i)) = words
              /\ Len(MergeAt(walk.blocks, i)) = Len(walk.blocks) - 1
              /\ Fit(MergeAt(walk.blocks, i))
  BY <1>1, MergeKeeps, MergeFits DEF CanMerge
<1>6. ASSUME CanMerge(walk.blocks, walk.at)
      PROVE  MergedRight(walk) \in States(W, words) /\ Ahead(MergedRight(walk)) < Ahead(walk)
  BY <1>1, <1>2, <1>3, <1>5, <1>6 DEF States, Ahead
<1>7. ASSUME CanMerge(walk.blocks, walk.at - 1)
      PROVE  /\ MergedLeft(walk) \in States(W, words) /\ Ahead(MergedLeft(walk)) < Ahead(walk)
             /\ Max({walk.at - 1, 1}) = walk.at - 1
  <2>1. walk.at - 1 \in Int /\ walk.at - 1 >= 1
    BY <1>1, <1>5, <1>7
  <2>2. Max({walk.at - 1, 1}) = walk.at - 1
    BY <2>1, GreaterAndLesser
  <2>3. walk.at - 1 \in Nat \ {0}
    BY <1>1, <2>1
  <2>4. /\ MergeAt(walk.blocks, walk.at - 1) \in Timelines(W)
        /\ Words(MergeAt(walk.blocks, walk.at - 1)) = words
        /\ Len(MergeAt(walk.blocks, walk.at - 1)) = Len(walk.blocks) - 1
        /\ Fit(MergeAt(walk.blocks, walk.at - 1))
    BY <1>5, <1>7
  <2>5. /\ MergedLeft(walk).stuck = walk.stuck
        /\ MergedLeft(walk).blocks = MergeAt(walk.blocks, walk.at - 1)
        /\ MergedLeft(walk).at = walk.at - 1
    BY <1>2, <2>2
  <2>6. MergedLeft(walk) \in [stuck : BOOLEAN, blocks : Timelines(W), at : Nat \ {0}]
    BY <1>1, <1>2, <2>2, <2>3, <2>4
  <2> QED BY <1>1, <1>3, <2>2, <2>4, <2>5, <2>6 DEF States, Ahead
<1> QED BY <1>2, <1>4, <1>6, <1>7

(* The mandatory walk: no block behind it is too short.                    *)
MandatoryStates(W, words) ==
    {walk \in States(W, words) :
        \A i \in 1..(walk.at - 1) : Lasts(walk.blocks[i]) >= MandatoryMerge}

(* A round leaves no short block behind, and there is less ahead.          *)
LEMMA MandatoryRoundKeeps ==
    ASSUME NEW W, NEW words, NEW walk \in MandatoryStates(W, words), ~Stopped(walk)
    PROVE  /\ MandatoryRound(walk) \in MandatoryStates(W, words)
           /\ ~Stopped(MandatoryRound(walk)) => Ahead(MandatoryRound(walk)) < Ahead(walk)
<1> DEFINE bs == walk.blocks
           at == walk.at
           n == Len(bs)
<1>1. /\ walk \in States(W, words) /\ bs \in Timelines(W) /\ at \in Nat \ {0}
      /\ walk = [stuck |-> walk.stuck, blocks |-> bs, at |-> at]
      /\ Fit(bs)
      /\ \A i \in 1..(at - 1) : Lasts(bs[i]) >= MandatoryMerge
  BY DEF MandatoryStates, States
<1>2. n \in Nat \ {0} /\ at <= n
  BY <1>1, TimelineParts DEF Stopped
<1>3. MandatoryMerge \in Int
  BY TranslationBlocksAssumption
<1>4. \A i \in 1..n : Lasts(bs[i]) \in Int
  BY <1>1, TimelineParts DEF Lasts
<1>5. CASE Lasts(bs[at]) >= MandatoryMerge
  <2>1. MandatoryRound(walk) = Onward(walk)
    BY <1>5 DEF MandatoryRound
  <2> DEFINE next == Onward(walk)
  <2>2. /\ next \in States(W, words) /\ next.blocks = bs /\ next.at = at + 1
        /\ Ahead(next) < Ahead(walk)
    BY <1>1, MergesKeep
  <2> HIDE DEF next
  <2>3. \A i \in 1..((at + 1) - 1) : Lasts(bs[i]) >= MandatoryMerge
    <3>1. \A i \in 1..((at + 1) - 1) : i \in 1..(at - 1) \/ i = at
      BY <1>1
    <3> QED BY <1>1, <1>5, <3>1
  <2>4. next \in MandatoryStates(W, words) /\ Ahead(next) < Ahead(walk)
    BY <2>2, <2>3 DEF MandatoryStates
  <2> QED BY <2>1, <2>4 DEF next
<1>6. CASE MandatoryRound(walk) = MergedLeft(walk) /\ CanMerge(bs, at - 1)
  <2> DEFINE next == MergedLeft(walk)
             merged == MergeAt(bs, at - 1)
  <2>1. /\ next \in States(W, words) /\ next.blocks = merged /\ next.at = at - 1
        /\ Ahead(next) < Ahead(walk)
    BY <1>1, <1>6, MergesKeep
  <2>2. at - 1 \in 1..(n - 1)
    BY <1>6 DEF CanMerge
  <2>3. Len(merged) = n - 1 /\ \A j \in 1..((at - 1) - 1) : merged[j] = bs[j]
    BY <1>1, <2>2, MergeKeeps
  <2> HIDE DEF next, merged
  <2>4. \A i \in 1..((at - 1) - 1) : Lasts(merged[i]) >= MandatoryMerge
    BY <1>1, <2>3
  <2>5. next \in MandatoryStates(W, words) /\ Ahead(next) < Ahead(walk)
    BY <2>1, <2>4 DEF MandatoryStates
  <2> QED BY <1>6, <2>5 DEF next
<1>7. CASE MandatoryRound(walk) = MergedRight(walk) /\ CanMerge(bs, at)
  <2> DEFINE next == MergedRight(walk)
             merged == MergeAt(bs, at)
  <2>1. /\ next \in States(W, words) /\ next.blocks = merged /\ next.at = at
        /\ Ahead(next) < Ahead(walk)
    BY <1>1, <1>7, MergesKeep
  <2>2. at \in 1..(n - 1)
    BY <1>7 DEF CanMerge
  <2>3. Len(merged) = n - 1 /\ \A j \in 1..(at - 1) : merged[j] = bs[j]
    BY <1>1, <2>2, MergeKeeps
  <2> HIDE DEF next, merged
  <2>4. \A i \in 1..(at - 1) : Lasts(merged[i]) >= MandatoryMerge
    BY <1>1, <2>3
  <2>5. next \in MandatoryStates(W, words) /\ Ahead(next) < Ahead(walk)
    BY <2>1, <2>4 DEF MandatoryStates
  <2> QED BY <1>7, <2>5 DEF next
<1>8. CASE MandatoryRound(walk) = [walk EXCEPT !.stuck = TRUE]
  <2> DEFINE next == [walk EXCEPT !.stuck = TRUE]
  <2>1. next = [stuck |-> TRUE, blocks |-> bs, at |-> at]
    <3>1. ASSUME NEW s, NEW b, NEW a, NEW v, NEW w, w = [stuck |-> s, blocks |-> b, at |-> a]
          PROVE  [w EXCEPT !.stuck = v] = [stuck |-> v, blocks |-> b, at |-> a]
      BY <3>1
    <3>2. \A v : [walk EXCEPT !.stuck = v] = [stuck |-> v, blocks |-> bs, at |-> at]
      BY <1>1, <3>1
    <3> QED BY <3>2, Zenon
  <2> HIDE DEF next
  <2>2. next \in MandatoryStates(W, words)
    BY <1>1, <1>2, <2>1 DEF MandatoryStates, States
  <2>3. Stopped(next)
    BY <2>1 DEF Stopped
  <2> QED BY <1>8, <2>2, <2>3 DEF next
<1> QED BY <1>5, <1>6, <1>7, <1>8 DEF MandatoryRound

(* A mandatory walk at its end has left every block behind.                *)
LEMMA PassedAll ==
    ASSUME NEW W, NEW words, NEW walk \in MandatoryStates(W, words),
           Stopped(walk), ~walk.stuck
    PROVE  \A i \in 1..Len(walk.blocks) : Lasts(walk.blocks[i]) >= MandatoryMerge
<1>1. /\ walk.blocks \in Timelines(W) /\ walk.at \in Nat \ {0} /\ walk.at > Len(walk.blocks)
      /\ \A i \in 1..(walk.at - 1) : Lasts(walk.blocks[i]) >= MandatoryMerge
  BY DEF MandatoryStates, States, Stopped
<1>2. Len(walk.blocks) \in Nat
  BY <1>1, TimelineParts
<1> QED BY <1>1, <1>2

(* The optional walk: no block is too short for the mandatory one.         *)
OptionalStates(W, words) ==
    {walk \in States(W, words) :
        \A i \in 1..Len(walk.blocks) : Lasts(walk.blocks[i]) >= MandatoryMerge}

(* Merging makes no block shorter.                                         *)
LEMMA MergeStaysLong ==
    ASSUME NEW W, NEW bs \in Timelines(W), NEW i \in 1..(Len(bs) - 1),
           \A j \in 1..Len(bs) : Lasts(bs[j]) >= MandatoryMerge
    PROVE  \A j \in 1..Len(MergeAt(bs, i)) : Lasts(MergeAt(bs, i)[j]) >= MandatoryMerge
<1> DEFINE merged == MergeAt(bs, i)
<1>1. /\ merged \in Timelines(W)
      /\ Len(merged) = Len(bs) - 1
      /\ \A j \in 1..(i - 1) : merged[j] = bs[j]
      /\ \A j \in (i + 1)..Len(merged) : merged[j] = bs[j + 1]
      /\ Lasts(merged[i]) >= Lasts(bs[i])
  BY MergeKeeps
<1>2. Len(bs) \in Nat \ {0} /\ MandatoryMerge \in Int
  BY TimelineParts, TranslationBlocksAssumption
<1> HIDE DEF merged
<1>3. \A j \in 1..Len(bs) : Lasts(bs[j]) \in Int
  BY TimelineParts DEF Lasts
<1>4. \A j \in 1..Len(merged) : Lasts(merged[j]) \in Int
  BY <1>1, TimelineParts DEF Lasts
<1>5. ASSUME NEW j \in 1..Len(merged) PROVE Lasts(merged[j]) >= MandatoryMerge
  <2>1. CASE j < i
    <3>1. j \in 1..(i - 1) /\ j \in 1..Len(bs)
      BY <1>1, <1>2, <2>1
    <3> QED BY <1>1, <3>1
  <2>2. CASE j = i
    <3>1. i \in 1..Len(bs)
      BY <1>2
    <3>2. Lasts(bs[i]) >= MandatoryMerge
      BY <3>1
    <3> QED BY <1>1, <1>2, <1>3, <1>4, <2>2, <3>1, <3>2
  <2>3. CASE j > i
    <3>1. j \in (i + 1)..Len(merged) /\ j + 1 \in 1..Len(bs)
      BY <1>1, <1>2, <2>3
    <3> QED BY <1>1, <3>1
  <2> QED BY <1>1, <1>2, <2>1, <2>2, <2>3
<1> QED BY <1>5 DEF merged

(* A round of the optional walk.                                           *)
LEMMA OptionalRoundKeeps ==
    ASSUME NEW W, NEW words, NEW walk \in OptionalStates(W, words), ~Stopped(walk)
    PROVE  /\ OptionalRound(walk) \in OptionalStates(W, words)
           /\ Ahead(OptionalRound(walk)) < Ahead(walk)
<1>1. /\ walk \in States(W, words) /\ walk.blocks \in Timelines(W) /\ walk.stuck = FALSE
      /\ \A i \in 1..Len(walk.blocks) : Lasts(walk.blocks[i]) >= MandatoryMerge
  BY DEF OptionalStates, States, Stopped
<1>2. \A i : CanMerge(walk.blocks, i) =>
             \A j \in 1..Len(MergeAt(walk.blocks, i)) :
                Lasts(MergeAt(walk.blocks, i)[j]) >= MandatoryMerge
  BY <1>1, MergeStaysLong DEF CanMerge
<1>3. Onward(walk) \in OptionalStates(W, words) /\ Ahead(Onward(walk)) < Ahead(walk)
  BY <1>1, MergesKeep DEF OptionalStates
<1>4. CanMerge(walk.blocks, walk.at) =>
        MergedRight(walk) \in OptionalStates(W, words) /\ Ahead(MergedRight(walk)) < Ahead(walk)
  BY <1>1, <1>2, MergesKeep DEF OptionalStates
<1>5. CanMerge(walk.blocks, walk.at - 1) =>
        MergedLeft(walk) \in OptionalStates(W, words) /\ Ahead(MergedLeft(walk)) < Ahead(walk)
  BY <1>1, <1>2, MergesKeep DEF OptionalStates
<1> QED BY <1>3, <1>4, <1>5 DEF OptionalRound

(* The mandatory walk ends, and has left no short block behind.            *)
LEMMA MandatoryWalk ==
    ASSUME NEW W, NEW bs \in Timelines(W), Fit(bs)
    PROVE  /\ Walk(MandatoryRound, bs) \in MandatoryStates(W, Words(bs))
           /\ Stopped(Walk(MandatoryRound, bs))
<1> DEFINE n == 2 * Len(bs)
           start == [stuck |-> FALSE, blocks |-> bs, at |-> 1]
           S == MandatoryStates(W, Words(bs))
           After(before) == IF Stopped(before) THEN before ELSE MandatoryRound(before)
           Rule(f) == [k \in 0..n |->
                         IF k = 0 THEN start
                         ELSE Apply(LAMBDA before : IF Stopped(before) THEN before
                                                    ELSE MandatoryRound(before), f[k - 1])]
           walk == CHOOSE f : f = Rule(f)
           H == [k \in 1..n |-> [w \in S |-> After(w)]]
<1>1. Len(bs) \in Nat \ {0} /\ n \in Nat
  BY TimelineParts
<1>2. \A w : Apply(LAMBDA before : IF Stopped(before) THEN before ELSE MandatoryRound(before), w)
               = After(w)
  BY DEF Apply
<1>3. start \in S /\ Ahead(start) = n - 1
  <2>1. start.blocks = bs /\ start.at = 1
    OBVIOUS
  <2>2. start \in States(W, Words(bs))
    BY <1>1 DEF States
  <2> HIDE DEF start
  <2> QED BY <1>1, <2>1, <2>2 DEF MandatoryStates, Ahead
<1>4. Walk(MandatoryRound, bs) = walk[n]
  BY DEF Walk
<1>5. ASSUME NEW w \in S
      PROVE  /\ After(w) \in S
             /\ Ahead(w) \in Int /\ Ahead(w) >= 0
             /\ Stopped(w) => After(w) = w
             /\ ~Stopped(w) /\ ~Stopped(After(w)) => Ahead(After(w)) < Ahead(w)
  <2>1. w.at \in Nat \ {0} /\ w.blocks \in Timelines(W) /\ w.at <= Len(w.blocks) + 1
    BY DEF MandatoryStates, States
  <2>2. Len(w.blocks) \in Nat \ {0}
    BY <2>1, TimelineParts
  <2>3. Ahead(w) \in Int /\ Ahead(w) >= 0
    BY <2>1, <2>2 DEF Ahead
  <2>4. CASE Stopped(w)
    BY <2>3, <2>4
  <2>5. CASE ~Stopped(w)
    BY <2>3, <2>5, MandatoryRoundKeeps
  <2> QED BY <2>4, <2>5
<1> HIDE DEF S, n, start, After
<1>6. H \in Recursions(n, S) /\ \A k \in 1..n, w \in S : H[k][w] = After(w)
  BY <1>5 DEF Recursions
<1> HIDE DEF H
<1>7. PICK g : Unfolds(g, n, S, start, H)
  BY <1>1, <1>3, <1>6, RecursionUpwards
<1>8. g = Rule(g)
  <2>1. ASSUME NEW k \in 1..n
        PROVE  g[k] = Apply(LAMBDA before : IF Stopped(before) THEN before
                                            ELSE MandatoryRound(before), g[k - 1])
    <3>1. k - 1 \in 0..n
      BY <1>1
    <3>2. g[k - 1] \in S /\ g[k] = H[k][g[k - 1]]
      BY <1>7, <3>1 DEF Unfolds
    <3>3. g[k] = After(g[k - 1])
      BY <1>6, <3>2
    <3> QED BY <1>2, <3>3
  <2>2. g \in [0..n -> S] /\ g[0] = start
    BY <1>7 DEF Unfolds
  <2>3. ASSUME NEW k \in 0..n PROVE g[k] = Rule(g)[k]
    <3>1. k # 0 => k \in 1..n
      BY <1>1
    <3> QED BY <2>1, <2>2, <3>1
  <2> QED BY <2>2, <2>3
<1>9. walk = Rule(walk)
  BY <1>8
<1> HIDE DEF walk
<1>10. walk[0] = start
  <2>1. 0 \in 0..n
    BY <1>1
  <2> QED BY <1>9, <2>1
<1>11. \A k \in 1..n : walk[k] = After(walk[k - 1])
  <2>1. ASSUME NEW k \in 1..n PROVE walk[k] = After(walk[k - 1])
    <3>1. k \in 0..n /\ k # 0
      BY <1>1
    <3> QED BY <1>2, <1>9, <3>1
  <2> QED BY <2>1
<1> DEFINE T == {k \in 0..n : /\ walk[k] \in S
                              /\ Stopped(walk[k]) \/ Ahead(walk[k]) <= n - 1 - k}
<1>12. 0 \in T
  BY <1>1, <1>3, <1>10
<1>13. ASSUME NEW k \in 1..n, k - 1 \in T PROVE k \in T
  <2>1. k \in 0..n /\ walk[k] = After(walk[k - 1])
    BY <1>1, <1>11
  <2>2. walk[k - 1] \in S /\ (Stopped(walk[k - 1]) \/ Ahead(walk[k - 1]) <= n - 1 - (k - 1))
    BY <1>13
  <2>3. walk[k] \in S
    BY <1>5, <2>1, <2>2
  <2>4. Stopped(walk[k]) \/ Ahead(walk[k]) <= n - 1 - k
    <3>1. CASE Stopped(walk[k - 1])
      BY <1>5, <2>1, <2>2, <3>1
    <3>2. CASE ~Stopped(walk[k - 1]) /\ ~Stopped(walk[k])
      <4>1. Ahead(walk[k]) < Ahead(walk[k - 1]) /\ Ahead(walk[k - 1]) <= n - 1 - (k - 1)
        BY <1>5, <2>1, <2>2, <3>2
      <4>2. Ahead(walk[k]) \in Int /\ Ahead(walk[k - 1]) \in Int
        BY <1>5, <2>2, <2>3
      <4> QED BY <1>1, <4>1, <4>2
    <3> QED BY <3>1, <3>2
  <2> QED BY <2>1, <2>3, <2>4
<1>14. n \in T
  <2> HIDE DEF T
  <2>1. 0 <= n /\ 0 \in Nat /\ 0 + 1 = 1 /\ n \in 0..n
    BY <1>1
  <2>2. 0..n \subseteq T
    BY <1>1, <1>12, <1>13, <2>1, Upwards
  <2> QED BY <2>1, <2>2
<1>15. walk[n] \in S /\ Stopped(walk[n])
  <2>1. Ahead(walk[n]) \in Int /\ Ahead(walk[n]) >= 0
    BY <1>5, <1>14
  <2> QED BY <1>1, <1>14, <2>1
<1> QED BY <1>4, <1>15 DEF S

(* The optional walk ends, and no block has become short.                   *)
LEMMA OptionalWalk ==
    ASSUME NEW W, NEW bs \in Timelines(W), Fit(bs),
           \A i \in 1..Len(bs) : Lasts(bs[i]) >= MandatoryMerge
    PROVE  /\ Walk(OptionalRound, bs) \in OptionalStates(W, Words(bs))
           /\ Stopped(Walk(OptionalRound, bs))
<1> DEFINE n == 2 * Len(bs)
           start == [stuck |-> FALSE, blocks |-> bs, at |-> 1]
           S == OptionalStates(W, Words(bs))
           After(before) == IF Stopped(before) THEN before ELSE OptionalRound(before)
           Rule(f) == [k \in 0..n |->
                         IF k = 0 THEN start
                         ELSE Apply(LAMBDA before : IF Stopped(before) THEN before
                                                    ELSE OptionalRound(before), f[k - 1])]
           walk == CHOOSE f : f = Rule(f)
           H == [k \in 1..n |-> [w \in S |-> After(w)]]
<1>1. Len(bs) \in Nat \ {0} /\ n \in Nat
  BY TimelineParts
<1>2. \A w : Apply(LAMBDA before : IF Stopped(before) THEN before ELSE OptionalRound(before), w)
               = After(w)
  BY DEF Apply
<1>3. start \in S /\ Ahead(start) = n - 1
  <2>1. start.blocks = bs /\ start.at = 1
    OBVIOUS
  <2>2. start \in States(W, Words(bs))
    BY <1>1 DEF States
  <2> HIDE DEF start
  <2> QED BY <1>1, <2>1, <2>2 DEF OptionalStates, Ahead
<1>4. Walk(OptionalRound, bs) = walk[n]
  BY DEF Walk
<1>5. ASSUME NEW w \in S
      PROVE  /\ After(w) \in S
             /\ Ahead(w) \in Int /\ Ahead(w) >= 0
             /\ Stopped(w) => After(w) = w
             /\ ~Stopped(w) /\ ~Stopped(After(w)) => Ahead(After(w)) < Ahead(w)
  <2>1. w.at \in Nat \ {0} /\ w.blocks \in Timelines(W) /\ w.at <= Len(w.blocks) + 1
    BY DEF OptionalStates, States
  <2>2. Len(w.blocks) \in Nat \ {0}
    BY <2>1, TimelineParts
  <2>3. Ahead(w) \in Int /\ Ahead(w) >= 0
    BY <2>1, <2>2 DEF Ahead
  <2>4. CASE Stopped(w)
    BY <2>3, <2>4
  <2>5. CASE ~Stopped(w)
    BY <2>3, <2>5, OptionalRoundKeeps
  <2> QED BY <2>4, <2>5
<1> HIDE DEF S, n, start, After
<1>6. H \in Recursions(n, S) /\ \A k \in 1..n, w \in S : H[k][w] = After(w)
  BY <1>5 DEF Recursions
<1> HIDE DEF H
<1>7. PICK g : Unfolds(g, n, S, start, H)
  BY <1>1, <1>3, <1>6, RecursionUpwards
<1>8. g = Rule(g)
  <2>1. ASSUME NEW k \in 1..n
        PROVE  g[k] = Apply(LAMBDA before : IF Stopped(before) THEN before
                                            ELSE OptionalRound(before), g[k - 1])
    <3>1. k - 1 \in 0..n
      BY <1>1
    <3>2. g[k - 1] \in S /\ g[k] = H[k][g[k - 1]]
      BY <1>7, <3>1 DEF Unfolds
    <3>3. g[k] = After(g[k - 1])
      BY <1>6, <3>2
    <3> QED BY <1>2, <3>3
  <2>2. g \in [0..n -> S] /\ g[0] = start
    BY <1>7 DEF Unfolds
  <2>3. ASSUME NEW k \in 0..n PROVE g[k] = Rule(g)[k]
    <3>1. k # 0 => k \in 1..n
      BY <1>1
    <3> QED BY <2>1, <2>2, <3>1
  <2> QED BY <2>2, <2>3
<1>9. walk = Rule(walk)
  BY <1>8
<1> HIDE DEF walk
<1>10. walk[0] = start
  <2>1. 0 \in 0..n
    BY <1>1
  <2> QED BY <1>9, <2>1
<1>11. \A k \in 1..n : walk[k] = After(walk[k - 1])
  <2>1. ASSUME NEW k \in 1..n PROVE walk[k] = After(walk[k - 1])
    <3>1. k \in 0..n /\ k # 0
      BY <1>1
    <3> QED BY <1>2, <1>9, <3>1
  <2> QED BY <2>1
<1> DEFINE T == {k \in 0..n : /\ walk[k] \in S
                              /\ Stopped(walk[k]) \/ Ahead(walk[k]) <= n - 1 - k}
<1>12. 0 \in T
  BY <1>1, <1>3, <1>10
<1>13. ASSUME NEW k \in 1..n, k - 1 \in T PROVE k \in T
  <2>1. k \in 0..n /\ walk[k] = After(walk[k - 1])
    BY <1>1, <1>11
  <2>2. walk[k - 1] \in S /\ (Stopped(walk[k - 1]) \/ Ahead(walk[k - 1]) <= n - 1 - (k - 1))
    BY <1>13
  <2>3. walk[k] \in S
    BY <1>5, <2>1, <2>2
  <2>4. Stopped(walk[k]) \/ Ahead(walk[k]) <= n - 1 - k
    <3>1. CASE Stopped(walk[k - 1])
      BY <1>5, <2>1, <2>2, <3>1
    <3>2. CASE ~Stopped(walk[k - 1]) /\ ~Stopped(walk[k])
      <4>1. Ahead(walk[k]) < Ahead(walk[k - 1]) /\ Ahead(walk[k - 1]) <= n - 1 - (k - 1)
        BY <1>5, <2>1, <2>2, <3>2
      <4>2. Ahead(walk[k]) \in Int /\ Ahead(walk[k - 1]) \in Int
        BY <1>5, <2>2, <2>3
      <4> QED BY <1>1, <4>1, <4>2
    <3> QED BY <3>1, <3>2
  <2> QED BY <2>1, <2>3, <2>4
<1>14. n \in T
  <2> HIDE DEF T
  <2>1. 0 <= n /\ 0 \in Nat /\ 0 + 1 = 1 /\ n \in 0..n
    BY <1>1
  <2>2. 0..n \subseteq T
    BY <1>1, <1>12, <1>13, <2>1, Upwards
  <2> QED BY <2>1, <2>2
<1>15. walk[n] \in S /\ Stopped(walk[n])
  <2>1. Ahead(walk[n]) \in Int /\ Ahead(walk[n]) >= 0
    BY <1>5, <1>14
  <2> QED BY <1>1, <1>14, <2>1
<1> QED BY <1>4, <1>15 DEF S

-----------------------------------------------------------------------------
(* build_translation_blocks refuses, or it validates a walk that is stuck  *)
(* or has come to its end.                                                 *)
LEMMA SpokenStates ==
    ASSUME NEW W, NEW said \in Timelines(W)
    PROVE  LET built == BuildTranslationBlocks(said) IN
           \/ built = Refused("translation_block_too_long")
           \/ built = Refused("translation_short_block_unmergeable")
           \/ \E walk \in OptionalStates(W, Words(said)) : built = Validated(walk)
<1> DEFINE pieces == Pieces(said)
           first == Walk(MandatoryRound, pieces)
           second == Walk(OptionalRound, first.blocks)
           spoken == Spoken(pieces)
<1>1. pieces \in Timelines(W) /\ Words(pieces) = Words(said)
  BY PiecesSayAll
<1>2. /\ Fit(pieces) => BuildTranslationBlocks(said) = Validated(spoken)
      /\ ~Fit(pieces) =>
           BuildTranslationBlocks(said) = Refused("translation_block_too_long")
  <2>1. \A x : Apply(Validated, x) = Validated(x)
    BY DEF Apply
  <2>2. BuildTranslationBlocks(said) =
          IF \A i \in DOMAIN pieces : WithinLimits(pieces[i])
          THEN Apply(Validated, spoken) ELSE Refused("translation_block_too_long")
    BY DEF BuildTranslationBlocks, Apply
  <2> HIDE DEF pieces, spoken
  <2>3. DOMAIN pieces = 1..Len(pieces)
    BY <1>1, TimelineParts
  <2> QED BY <2>1, <2>2, <2>3 DEF Fit
<1>3. spoken = IF first.stuck THEN first ELSE second
  BY DEF Spoken, Apply
<1> HIDE DEF pieces, spoken
<1>4. SUFFICES ASSUME Fit(pieces)
               PROVE  \/ Validated(spoken) = Refused("translation_short_block_unmergeable")
                      \/ spoken \in OptionalStates(W, Words(said))
  BY <1>2
<1>5. first \in MandatoryStates(W, Words(said)) /\ Stopped(first)
  BY <1>1, <1>4, MandatoryWalk
<1> HIDE DEF first, second
<1>6. CASE first.stuck
  BY <1>3, <1>6 DEF Validated
<1>7. CASE ~first.stuck
  <2>1. /\ first.blocks \in Timelines(W) /\ Words(first.blocks) = Words(said)
        /\ Fit(first.blocks)
        /\ \A i \in 1..Len(first.blocks) : Lasts(first.blocks[i]) >= MandatoryMerge
    BY <1>5, <1>7, PassedAll DEF MandatoryStates, States
  <2>2. second \in OptionalStates(W, Words(said))
    BY <2>1, OptionalWalk DEF second
  <2> QED BY <1>3, <1>7, <2>2
<1> QED BY <1>6, <1>7

(* Whatever segments build_translation_blocks accepts, the blocks it makes *)
(* of them say all that they say, in order, within the limits and none too *)
(* short.                                                                  *)
THEOREM BuiltSaysAll ==
    ASSUME NEW W, NEW said \in Timelines(W),
           BuildTranslationBlocks(said).error = "none"
    PROVE  /\ SaysAll(BuildTranslationBlocks(said).blocks, said)
           /\ BuildTranslationBlocks(said).blocks \in Timelines(W)
<1> DEFINE bs == BuildTranslationBlocks(said).blocks
<1>1. PICK walk \in OptionalStates(W, Words(said)) :
         BuildTranslationBlocks(said) = Validated(walk)
  BY SpokenStates DEF Refused
<1>2. bs = walk.blocks /\ ValidSequence(bs)
  BY <1>1 DEF Validated, Refused, Built
<1>3. /\ bs \in Timelines(W) /\ Words(bs) = Words(said)
      /\ \A i \in 1..Len(bs) : Lasts(bs[i]) >= MandatoryMerge
  BY <1>2 DEF OptionalStates, States
<1> HIDE DEF bs
<1>4. DOMAIN bs = 1..Len(bs) /\ Len(bs) \in Nat
  BY <1>3, TimelineParts
<1>5. ASSUME NEW b \in DOMAIN bs
       PROVE  /\ Lasts(bs[b]) \in MandatoryMerge..MaxDuration
              /\ Len(bs[b].text) <= MaxTokens
              /\ b > 1 => bs[b - 1].end <= bs[b].start
  <2>1. b \in 1..Len(bs) /\ MandatoryMerge \in Int /\ MaxDuration \in Int
    BY <1>4, TranslationBlocksAssumption
  <2>2. Lasts(bs[b]) <= MaxDuration /\ Len(bs[b].text) <= MaxTokens
    BY <1>2 DEF ValidSequence, WithinLimits
  <2>3. Lasts(bs[b]) \in Int /\ Lasts(bs[b]) >= MandatoryMerge
    BY <1>3, <2>1, TimelineParts DEF Lasts
  <2>4. ASSUME b > 1 PROVE bs[b - 1].end <= bs[b].start
    <3>1. b - 1 \in 1..(Len(bs) - 1) /\ (b - 1) + 1 = b
      BY <1>4, <2>1, <2>4
    <3> QED BY <1>3, <3>1, TimelineParts
  <2> QED BY <2>1, <2>2, <2>3, <2>4
<1> QED BY <1>3, <1>5 DEF SaysAll, bs

(* The last validation never fails: what the merges make of a validated    *)
(* transcript is in order and within the limits, so it is refused for a    *)
(* block that is too long or too short, or not at all.                     *)
THEOREM TimelineStaysValid ==
    ASSUME NEW W, NEW said \in Timelines(W)
    PROVE  BuildTranslationBlocks(said).error \in
             {"none", "translation_block_too_long", "translation_short_block_unmergeable"}
<1>1. ASSUME NEW walk \in OptionalStates(W, Words(said)) PROVE ValidSequence(walk.blocks)
  <2>1. walk.blocks \in Timelines(W) /\ Fit(walk.blocks)
    BY DEF OptionalStates, States
  <2>2. DOMAIN walk.blocks = 1..Len(walk.blocks) /\ Len(walk.blocks) \in Nat
    BY <2>1, TimelineParts
  <2>3. ASSUME NEW i \in 1..(Len(walk.blocks) - 1) PROVE GapAfter(walk.blocks, i) >= 0
    <3>1. i \in 1..Len(walk.blocks) /\ i + 1 \in 1..Len(walk.blocks)
      BY <2>2
    <3>2. /\ walk.blocks[i].end \in Int /\ walk.blocks[i + 1].start \in Int
          /\ walk.blocks[i].end <= walk.blocks[i + 1].start
      BY <2>1, <3>1, TimelineParts
    <3> QED BY <3>2 DEF GapAfter
  <2> QED BY <2>1, <2>2, <2>3 DEF ValidSequence, Fit
<1>2. \A walk \in OptionalStates(W, Words(said)) :
         Validated(walk).error \in {"none", "translation_short_block_unmergeable"}
  BY <1>1 DEF Validated, Refused, Built
<1> QED BY <1>2, SpokenStates DEF Refused

(* The loops of build_translation_blocks have no bound of their own: the   *)
(* levels and rounds the model gives them are enough.  After them a piece  *)
(* is within the limits or cannot be split and, when all are within the    *)
(* limits, either walk has left its last block behind or is stuck.         *)
THEOREM LoopsEnd ==
    ASSUME NEW W, NEW said \in Timelines(W)
    PROVE  LET pieces == Pieces(said)
               first == Walk(MandatoryRound, pieces)
           IN /\ \A i \in DOMAIN pieces : WithinLimits(pieces[i]) \/ ~MaySplit(pieces[i])
              /\ (\A i \in DOMAIN pieces : WithinLimits(pieces[i])) =>
                   /\ Stopped(first)
                   /\ ~first.stuck => Stopped(Walk(OptionalRound, first.blocks))
<1> DEFINE pieces == Pieces(said)
           first == Walk(MandatoryRound, pieces)
<1>1. pieces \in Timelines(W) /\ pieces \in Seq(Small(W, 0))
  BY PiecesSayAll
<1> HIDE DEF pieces
<1>2. ASSUME NEW i \in DOMAIN pieces
      PROVE  WithinLimits(pieces[i]) \/ ~MaySplit(pieces[i])
  <2>1. pieces[i] \in Small(W, 0)
    BY <1>1
  <2>2. Len(pieces[i].text) \in Nat
    BY <2>1 DEF Small, BlocksOf
  <2> QED BY <2>1, <2>2 DEF Small, MaySplit
<1>3. DOMAIN pieces = 1..Len(pieces)
  BY <1>1, TimelineParts
<1>4. ASSUME Fit(pieces)
      PROVE  first \in MandatoryStates(W, Words(pieces)) /\ Stopped(first)
  BY <1>1, <1>4, MandatoryWalk
<1> HIDE DEF first
<1>5. ASSUME Fit(pieces), ~first.stuck PROVE Stopped(Walk(OptionalRound, first.blocks))
  <2>1. first.blocks \in Timelines(W) /\ Fit(first.blocks)
    BY <1>4, <1>5 DEF MandatoryStates, States
  <2>2. \A i \in 1..Len(first.blocks) : Lasts(first.blocks[i]) >= MandatoryMerge
    BY <1>4, <1>5, PassedAll
  <2> QED BY <2>1, <2>2, OptionalWalk
<1>6. (\A i \in DOMAIN pieces : WithinLimits(pieces[i])) => Fit(pieces)
  BY <1>3 DEF Fit
<1> QED BY <1>2, <1>4, <1>5, <1>6 DEF first, pieces

-----------------------------------------------------------------------------
(* What is said.                                                           *)

(* Whatever its gaps, lengths and sizes, a transcript is a timeline.       *)
LEMMA ScriptsAreTimelines ==
    Scripts \subseteq Timelines(Nat \X Nat)
<1> DEFINE W == Nat \X Nat
           Shapes == [gap : Gaps, length : Lengths, size : Sizes]
<1> SUFFICES ASSUME NEW shapes \in [1..Segments -> Shapes]
             PROVE  LET end[i \in 0..Segments] ==
                            IF i = 0 THEN 0
                            ELSE end[i - 1] + shapes[i].gap + shapes[i].length
                    IN [i \in 1..Segments |->
                          [start |-> end[i] - shapes[i].length, end |-> end[i],
                           text |-> [n \in 1..shapes[i].size |-> <<i, n>>]]]
                       \in Timelines(W)
  BY DEF Scripts
<1> DEFINE Rule(f) == [i \in 0..Segments |->
                         IF i = 0 THEN 0 ELSE f[i - 1] + shapes[i].gap + shapes[i].length]
           end == CHOOSE f : f = Rule(f)
           H == [i \in 1..Segments |->
                   [e \in Nat |-> e + shapes[i].gap + shapes[i].length]]
           said == [i \in 1..Segments |->
                      [start |-> end[i] - shapes[i].length, end |-> end[i],
                       text |-> [n \in 1..shapes[i].size |-> <<i, n>>]]]
<1>1. Segments \in Nat /\ Segments > 0
  BY TextStagesAssumption
<1>2. \A i \in 1..Segments :
        shapes[i].gap \in Nat /\ shapes[i].length \in Nat /\ shapes[i].length > 0
        /\ shapes[i].size \in Nat
  <2>1. ASSUME NEW i \in 1..Segments PROVE shapes[i] \in Shapes
    OBVIOUS
  <2>2. /\ \A v \in Gaps : v \in Nat
        /\ \A v \in Lengths : v \in Nat /\ v > 0
        /\ \A v \in Sizes : v \in Nat
    <3>1. \A v \in Nat \ {0} : v \in Nat /\ v > 0
      OBVIOUS
    <3>2. Gaps \subseteq Nat /\ Lengths \subseteq Nat \ {0} /\ Sizes \subseteq Nat \ {0}
      BY TextStagesAssumption
    <3> QED BY <3>1, <3>2
  <2>3. \A x \in Shapes : x.gap \in Gaps /\ x.length \in Lengths /\ x.size \in Sizes
    OBVIOUS
  <2> HIDE DEF Shapes
  <2>4. \A x \in Shapes : x.gap \in Nat /\ x.length \in Nat /\ x.length > 0 /\ x.size \in Nat
    BY <2>2, <2>3
  <2> QED BY <2>1, <2>4
<1>3. H \in Recursions(Segments, Nat)
      /\ \A i \in 1..Segments, e \in Nat : H[i][e] = e + shapes[i].gap + shapes[i].length
  BY <1>2 DEF Recursions
<1> HIDE DEF H
<1>4. PICK g : Unfolds(g, Segments, Nat, 0, H)
  BY <1>1, <1>3, RecursionUpwards
<1>5. g = Rule(g)
  <2>1. ASSUME NEW i \in 1..Segments
        PROVE  g[i] = g[i - 1] + shapes[i].gap + shapes[i].length
    <3>1. i - 1 \in 0..Segments
      BY <1>1
    <3>2. g[i - 1] \in Nat /\ g[i] = H[i][g[i - 1]]
      BY <1>4, <3>1 DEF Unfolds
    <3> QED BY <1>3, <3>2
  <2>2. g \in [0..Segments -> Nat] /\ g[0] = 0
    BY <1>4 DEF Unfolds
  <2>3. ASSUME NEW i \in 0..Segments PROVE g[i] = Rule(g)[i]
    <3>1. i # 0 => i \in 1..Segments
      BY <1>1
    <3> QED BY <2>1, <2>2, <3>1
  <2> QED BY <2>2, <2>3
<1>6. end = Rule(end)
  BY <1>5
<1> HIDE DEF end
<1>7. end[0] = 0
      /\ \A i \in 1..Segments : end[i] = end[i - 1] + shapes[i].gap + shapes[i].length
  <2>1. 0 \in 0..Segments /\ \A i \in 1..Segments : i \in 0..Segments /\ i # 0
    BY <1>1
  <2> QED BY <1>6, <2>1
<1>8. \A i \in 0..Segments : end[i] \in Nat
  <2> DEFINE T == {i \in 0..Segments : end[i] \in Nat}
  <2>1. 0 \in T
    BY <1>1, <1>7
  <2>2. ASSUME NEW i \in 1..Segments, i - 1 \in T PROVE i \in T
    BY <1>1, <1>2, <1>7, <2>2
  <2> HIDE DEF T
  <2>3. 0 <= Segments /\ 0 \in Nat /\ 0 + 1 = 1
    BY <1>1
  <2>4. 0..Segments \subseteq T
    BY <1>1, <2>1, <2>2, <2>3, Upwards
  <2> QED BY <2>4 DEF T
<1>9. ASSUME NEW i \in 1..Segments
      PROVE  /\ said[i] \in BlocksOf(W)
             /\ said[i].start < said[i].end
             /\ i > 1 => said[i - 1].end <= said[i].start
  <2>1. i - 1 \in 0..Segments /\ i \in 0..Segments
    BY <1>1
  <2>2. end[i] \in Nat /\ end[i - 1] \in Nat
    BY <1>8, <2>1
  <2>3. [n \in 1..shapes[i].size |-> <<i, n>>] \in Seq(W)
    BY <1>2
  <2>4. said[i] \in BlocksOf(W)
    BY <1>2, <2>2, <2>3 DEF BlocksOf
  <2>5. said[i].start < said[i].end
    BY <1>2, <2>2
  <2>6. ASSUME i > 1 PROVE said[i - 1].end <= said[i].start
    <3>1. i - 1 \in 1..Segments
      BY <1>1, <2>6
    <3>2. said[i - 1].end = end[i - 1] /\ said[i].start = end[i] - shapes[i].length
      BY <3>1
    <3>3. end[i] = end[i - 1] + shapes[i].gap + shapes[i].length
      BY <1>7
    <3> HIDE DEF said
    <3> QED BY <1>2, <2>2, <3>2, <3>3
  <2> QED BY <2>4, <2>5, <2>6
<1>10. said \in Seq(BlocksOf(W)) /\ Len(said) = Segments
  <2>1. said = [i \in 1..Segments |-> said[i]]
    OBVIOUS
  <2>2. \A i \in 1..Segments : said[i] \in BlocksOf(W)
    BY <1>9
  <2> HIDE DEF said
  <2>3. said \in [1..Segments -> BlocksOf(W)]
    BY <2>1, <2>2
  <2> QED BY <1>1, <2>3
<1> HIDE DEF said
<1>11. Ordered(said)
  <2>1. ASSUME NEW i \in 1..(Segments - 1)
        PROVE  i + 1 \in 1..Segments /\ i + 1 > 1 /\ (i + 1) - 1 = i
    BY <1>1
  <2> QED BY <1>9, <1>10, <2>1 DEF Ordered
<1>12. said \in Timelines(W)
  BY <1>1, <1>10, <1>11 DEF Timelines
<1> QED BY <1>12 DEF said, end

(* Nobody changes what is said.                                            *)
LEMMA ScriptStays ==
    Spec => [](script \in Scripts)
<1>1. Init => script \in Scripts
  BY DEF Init
<1>2. script \in Scripts /\ [Next]_vars => (script \in Scripts)'
  <2> SUFFICES ASSUME [Next]_vars PROVE script' = script
    OBVIOUS
  <2>1. CASE TranscriptionSteps
    BY <2>1 DEF TranscriptionSteps, EnterTranscription, Adopt, ParseSubtitle,
       BeginRecognition, Recognize, PublishTranscript, SaveTranscript, CommitTranscript,
       Rest, World
  <2>2. CASE TranslationSteps
    BY <2>2 DEF TranslationSteps, EnterTranslation, MakePlan, TranslateBlock, CommitBlock,
       PublishTranslation, SaveTranslation, SealTranslation, Rest, World
  <2>3. CASE WorkerCrash \/ User \/ Cancel \/ InstallModel
    BY <2>3 DEF WorkerCrash, User, Resume, ChooseLanguage, Cancel, InstallModel, Stays
  <2>4. CASE UNCHANGED vars
    BY <2>4 DEF vars
  <2> QED BY <2>1, <2>2, <2>3, <2>4 DEF Next
<1> QED BY <1>1, <1>2, PTL DEF Spec

(* The translation a job is sealed with says every word of its transcript, *)
(* in order, in blocks that are within the limits of the model, long       *)
(* enough to be spoken and do not overlap, however long the transcript is  *)
(* and wherever the worker died.                                           *)
THEOREM TranslationSaysAll == Spec => []SealedSaysAll
<1>1. IInv /\ script \in Scripts => SealedSaysAll
  <2> SUFFICES ASSUME IInv, script \in Scripts, row.status = "READY_TTS"
               PROVE  SaysAll([b \in DOMAIN sealed.texts |-> sealed.texts[b].source], script)
    BY DEF SealedSaysAll
  <2> DEFINE built == BuildTranslationBlocks(script)
  <2>1. Place(row) = "READY_TTS"
    BY DEF Place
  <2>2. plan # Nothing /\ plan.artifact # Nothing /\ sealed = plan.artifact
    BY <2>1 DEF IInv, PlanSees
  <2>3. Planned
    BY <2>2 DEF IInv, PlanSees
  <2>4. sealed.texts = blocks
    BY <2>2, <2>3 DEF Planned, Artifact
  <2>5. /\ built.error = "none"
        /\ DOMAIN blocks = DOMAIN built.blocks
        /\ \A b \in DOMAIN blocks : blocks[b].source = built.blocks[b]
    BY <2>3 DEF Planned, None
  <2>6. SaysAll(built.blocks, script) /\ built.blocks \in Timelines(Nat \X Nat)
    BY <2>5, BuiltSaysAll, ScriptsAreTimelines
  <2>7. built.blocks = [b \in DOMAIN built.blocks |-> built.blocks[b]]
    BY <2>6 DEF Timelines
  <2> HIDE DEF built
  <2>8. [b \in DOMAIN sealed.texts |-> sealed.texts[b].source] = built.blocks
    BY <2>4, <2>5, <2>7
  <2> QED BY <2>6, <2>8
<1> QED BY Invariant, ScriptStays, <1>1, PTL

=============================================================================
