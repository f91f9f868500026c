# Verification of Thuyết Minh Offline GPU

TLA+ models of the job control of this repository, the TLC runs that check
them and the theorems about them that TLAPS proves. Paths below are relative
to the repository; the Python package is `src/dub_server`.

## 1. The system

One dubbing job goes through download or upload, subtitle matching or
speech recognition, translation, voice separation, synthesis, timing, and
export. Three kinds of processes work on it:

* the **API process** (`api.py`): one asyncio loop. A coroutine runs alone
  between two awaits, `def` endpoints run in threads, background tasks monitor
  downloads and expire uploads;
* the **GPU worker process** (`worker.py`): one sequential loop that takes a
  job through one stage at a time (`transcription_stage.py`,
  `translation_stage.py`, `phase4_stage.py`);
* **external services**: qBittorrent, Prowlarr, OpenSubtitles.

API and worker are restarted by their supervisor (`compose.yaml`,
`restart: unless-stopped`). They share nothing but the SQLite database
(`state.py`, WAL, each operation in `BEGIN IMMEDIATE`) and the files of a job.

### Inventory

| Component | State | Operations | What must hold | Hard part |
|---|---|---|---|---|
| Job store (`state.py`) | row of a job: status, previous status, slot, cancel flag, retryable, details, revision; events, checkpoints, transcript segments, translation blocks | create, update_status, update_progress, request/finalize cancel, resume, commit_* | one heavy job; cancellation is final; a parked job can resume | read in one transaction, write in another |
| Worker loop (`worker.py`) | queue position, shutdown event | list three queues, VRAM guard, run a stage, finalize a cancellation | every job is taken to an end or to its user; GPU work is released before CANCELLED | death anywhere, stop signals, exceptions nobody catches |
| Stages | what was last read of the job; models, decoders | read, check, advance, report, fail, commit | a cancelled job is left alone; a restart continues | stale reads, forced restarts of a step |
| Offline requests of the API | a request in progress | cancel, resume, select language | a request never breaks what the worker does | branches chosen by an old read |
| Download control (`api.py`, `acquisition/`) | torrent, backend started/uncertain, tracked operations, mutation lock | create, monitor, pause, resume, cancel, restart | no torrent runs for a cancelled job | awaits, timeouts, late effects |
| Coordinator (`acquisition/coordinator.py`) | media and subtitle choice | refresh, select subtitle, select ASR | a choice is not overwritten by an old refresh | writes after awaits |
| Stage checkpoints | artifact files, checkpoint rows, blocks | publish, checkpoint, commit | nothing finished is lost or mixed with other inputs | crash between two steps |
| Phase 4 checkpoints | separation, narration, timeline, export, rewrites | validate, rebuild, seal | a rebuilt part invalidates what was built over it | chains of digests |
| Upload sessions (`api.py`) | session file, media, locks | upload, finalize, delete, expire | one job per session, its files kept | expiry against finalize |
| Artifact cleanup | plan | plan, execute | no file of a job at work is removed | plan older than the job |
| Event stream (`api.py`) | cursor | list, send, end | the client sees the last event | end decided after the page |
| Timing, block building, subtitles | none | pure functions | bounds, order, coverage | edges |
| Model store, GPU, adapters, CLI, installers, dashboard | files, devices | I/O | | outside a model checker's reach |

`PROJECT.json` lists the same components with their sources and status, and
the hazards of the code with the properties that watch them.

## 2. Modules

| Module | What it is |
|---|---|
| `JobLifecycle` | abstract: the life of a job (absent, active, parked, cancelling, cancelled, completed) and one slot |
| `JobRows` | no state: the columns of a row that control a job, the status graph `_TRANSITIONS`, and the row each operation writes |
| `JobStore` | the store and any number of clients that read in one transaction and write in another |
| `RowProofs` | lemmas about the rows of `JobRows`, whoever writes them, on which the next modules rest |
| `JobStoreProofs`, `OfflineControlProofs`, `DownloadControlProofs`, `TextStagesProofs`, `Phase4Proofs`, `JobFilesProofs`, `NarrationTimingProofs` | the inductive invariant of the module named, and the theorems about it |
| `OfflineControl` | the API's offline requests, the language selection thread, and the worker with its three stages, over the same rows, with crashes, stops and restarts |
| `DownloadControl` | the API's downloads: create, resume, cancel, the monitor, the coordinator and `lifespan`, over a torrent backend that answers late, wrongly or not at all |
| `TranslationBlocks` | no state: `build_translation_blocks` as functions |
| `TextStages` | transcription and translation of one job step by step: files, checkpoints, segments, blocks and commits |
| `Phase4Stages` | separation, narration, timing with its rewrites, and export of one job step by step |
| `NarrationTiming` | the planner, the fitter's decision and the timeline of `timing.py` |
| `JobFiles` | one upload session, the job made of it, the expiry sweep and the maintenance script |
| `MC...` | instances for TLC (with symmetry of jobs and clients in the runs without liveness) |

`JobStore`, `OfflineControl` and `DownloadControl` each implement
`JobLifecycle` under the mapping `PhaseOf` of the status and the set of slot
holders. They do not instantiate each other: they share the row operators of
`JobRows` and give each operation to the process that calls it, with the data
that process holds. `OfflineControl` and `DownloadControl` meet at
READY_OFFLINE: before it only the API writes the row, after it API and worker.
`TextStages` and `Phase4Stages` take over inside the worker where
`OfflineControl` says only `in`: they follow one job through every file and
transaction, and reduce the API to a cancellation at any time and a resume.
`TextStages` builds its plan with `TranslationBlocks`; what `Phase4Stages` says
of the planner (too long, or fitted, with borrowed silence or without) is what
`NarrationTiming` computes.

### How state and actions correspond to the code

`rows[j]` (`row` where there is one job) is the row of `jobs`: `status`,
`previous` (`previous_status`), `slot` (`active_slot`), `cancel`
(`cancel_requested`), `retryable`. Stage, progress, texts and results are data
and left out, but for the keys of `details` by which processes agree:
`pending[j]` of `OfflineControl` is `offline_cancel_pending`; `task`,
`started` and `warned` of `DownloadControl` are `task_id`, `backend_started`
and the warning of a failed cancellation. Details are written as a whole, so a
process that writes details it read earlier writes back what has changed since:
the field `flag` of the worker and of the chooser, `started` of a refresh.

An action is one SQLite transaction of one process, one published file, one
call of a model or a service, or a decision between two of them. In the API's
event loop it is the code from one await to the next.

* `JobStore`: `Read` is `get_job`; a `Finish...` action is the later
  transaction of `request_cancel`, `finalize_cancel`, `resume`,
  `update_progress`, of a caller that passes `expected_status`
  (`FinishExpected`), or of phase 4's forced restart of a step
  (`FinishRestage`). `Abandon` is a refusal or a client that died. The other
  actions are operations of one transaction. `Advance` is `update_status`
  without an expected status: any status the graph allows except the two of a
  cancellation, which only `request_cancel` and `finalize_cancel` bring about.
* `OfflineControl`, API: `CancelRead` chooses the branch of `cancel_job`,
  `CancelRequest`, `CancelMark` and `CancelFinalize` are its three writes;
  `ResumeRead`/`ResumeWrite` and `ChooseRead`/`ChooseWrite` likewise; a resume
  refused because the job is being cancelled finalizes it.
  `ApiStart`/`ApiReconcile` are the part of `lifespan` that finalizes
  cancellations without a torrent.
* `OfflineControl`, worker: `ListTranscript`, `ListTranslation`, `ListPhase4`
  are the three `process_next_*`; `Guard...` is the VRAM guard; `Enter` is the
  first read of a stage's `run`. Inside a stage, `StageRead` is the read before
  a write, `StageAdvance` the write of the next status, `Report...` and
  `Progress...` the progress writes, `Fail...` the error path, `StageStops` a
  check that sees the shutdown event. `AfterRun` finalizes a cancellation once
  `run` has returned. An `InvalidTransition` nobody catches leads to `dead`.
* `DownloadControl`: `co[w][j]` is the coroutine `w` of job `j`: `op` is the
  create or resume request and the awaits it goes through (`search`, `add`,
  `relocate`, `start`, then `settle` or `fail`), `cancel` the cancel request,
  `rec` the reconciliation of a restarted API. `sent` says that the call is at
  the backend, hence that the coroutine holds `torrent_mutation_lock`.
  `...Returns`, `...Fails` are what may come of a call, a time-out whose effect
  arrives all the same included. `PauseSend`/`PauseReturns`/`PauseFails` and
  `AfterPause` are the pause all cancellations share, with its deferral while
  another job is active (`Deferred`). `OwnerDone`/`OwnerSlow` wait for the
  request in flight. `PollBegins` to `SelectionArrives` are
  `AcquisitionCoordinator.refresh`, await by await. `ApiStart`, `BootCalls`,
  `BootRecords`, `BootCancels` and `BootSettles` are `lifespan`.
  `torrent.home` is the job whose directory the torrent was put in; all jobs
  are for one release, so that the torrent one job left is found by another.
* `TextStages`: one action per line of the protocol: `ParseSubtitle` or
  `Recognize`, `PublishTranscript`, `SaveTranscript`, `CommitTranscript`, then
  `InitializePlan`, `TranslateBlock`/`CommitBlock` for each block,
  `PublishTranslation`, `SaveTranslation`, `SealTranslation`. A transcript is
  the run that made it and whether it is Vietnamese (`vi`), a text the run and
  the model it comes from, and a digest is the content digested, so that "same
  digest" in the model is "same content" in the code. `script` is what is said:
  segments with times and words, of which the blocks are built.
* `TranslationBlocks`: `SplitToLimits`, then `MandatoryRound` and
  `OptionalRound` as walks with an index over the sequence being merged, then
  `Validated`, as in `translation.py`. A text is a sequence of words, each of
  one token and one letter.
* `Phase4Stages`: `Separate`/`SaveSeparation`; `Synthesize`/`SaveNarration` for
  each block; `PlanTiming`, `FitBlock`, `BuildTimeline`, `WriteSubtitles`,
  `SealTimeline`; on failure of the planner `SelectRewrite`, `RewriteText`, the
  semantic branch with its `Ledger` written before the model is called, and
  `ClearTiming`; `Export`, `SaveExport`, `Complete`. `checkpoints` are the four
  rows of the checkpoint table, each bound to what it was made from. The
  `...Reusable` operators are the validations by which a resumed stage skips a
  step.
* `NarrationTiming`: `PlanNarrationSlots` is the planner in the profile of the
  job, the second call that lends silence included; `FitBlock` is what the
  fitter decides from the slot in samples (pad, stretch, slow down, refuse);
  `BuildTimeline` the frames of silence and speech on the track. Every division
  is rounded the way the code rounds it. A loop is a function of the rounds it
  has made: `Bisect` of its bounds, `Latest` of its pass from the last block to
  the first, `Cursor` and `Smoothed` of theirs.
* `JobFiles`: `api.at` is where the request that holds the session's lock
  stands; `Put...`, `Finalize...`, `DeleteBegins`, `Sweep...` are the requests
  and the sweep, one action per file written, renamed or removed; a removal of
  a directory that fails, or in which the API dies, leaves any part of it
  (`PartlyRemoved`). `PlanCleanup`
  and `ExecuteCleanup` are the maintenance script, the second under
  `run_if_job_revision`. The phase `active` of the job stands for every status
  in which it is worked on or waits for its user.

## 3. What is checked

| Run | Instance | Shows |
|---|---|---|
| `store_slot` | 2 jobs, 1 client | `OneHeavyJob`; `ImplementsLifecycle`: the slot changes hands only as the life cycle says |
| `store_race` | 1 job, 2 clients | `CancelFlagAgrees`, `ParkedRemembers`, `StaleReadsBounded`, `CancelSticks`: old reads never undo a cancellation |
| `offline_safety` | 2 jobs, 1 worker crash, 1 stop, 1 API crash, 1 rewrite | `FlagOnlyWhileCancelling`, `WorkerHoldsSlot`, `DeathOnlyByCancel`, `FlagDefersFinalize`, `ImplementsLifecycle` |
| `offline_settle` | 1 job, each process killed or stopped once | `WorkSettles`: no status of the queues is a dead end; `CancelHasOwner`, `CancelSettles`: until the worker is killed, every cancellation has somebody who ends it, and ends |
| `download_safety` | 2 jobs of one release, 1 error, 1 stop by the user, 1 API crash | `RunningIsOwned`: no torrent runs for nobody; `AcknowledgedRuns`: none is paused under an acknowledged download; `PausedOnlyByUser`, `CancelOutlivesCalls`, `CreatedIsOwned`, `ImplementsLifecycle` |
| `download_settle` | 1 job, 2 errors, 1 stop, 1 API crash | `CancelSettles`: a cancellation ends or warns its user; `StartSettles`: no requested download stays unpolled |
| `text_stages` | 2 segments, 2 faults, 1 model replaced | `OneTranscript`, `WorkIsKept`, `CrashIsNotFatal`; `SealedIsOne`: a sealed translation is one file of one transcript and one model; `SealedSaysAll`: it says every word of the transcript, once and in order; `StagesFinish` |
| `phase4` | 2 blocks, 2 rewrites and 2 semantic ones, 2 faults | `OutputIsOne`, `NarrationIsKept`, `NeverIllegal`, `SemanticIsBounded`; `Phase4Finishes` |
| `files` | 2 contents, 3 writes of the row, 2 faults | `JobKeepsItsSources`, `LivingFilesStay`; `AbandonedIsSwept`: nothing is left of an abandoned session, but for two cases (first two observations) |
| `timing` | 3 blocks, 3 gaps, 2 lengths, 3 amounts of speech, both profiles | `PlanIsSound`, `SilenceOnlyIsLent`, `RefusedIsOvercrowded` |
| `cancelled_not_released` | 1 job | violated: see findings |
| `marked_cancel_lost` | 1 job, 1 worker crash | violated: see findings |

`TypeOK` of `OfflineControl` is checked by `offline_safety`; the types of the
other modules are conjuncts of their inductive invariants (section 4).

Each property of a passing run has a mutant, an operator beside the definition
it changes, that breaks it: a dropped index, an unchecked expected status, a
queue that forgets a status, a swapped order of two writes, a checkpoint
compared by less than what it is bound to, a limit rounded the other way.

**Bounds.**

* A conflict over the slot needs two jobs; a stale read needs one job and two
  clients (one holds the read, the other moves the job; a third adds only
  another order of the same writes, since a client keeps nothing but its read).
* In `OfflineControl` the actors are fixed; `MaxCrashes`, `MaxStops` and
  `MaxApiCrashes` bound how often processes die, `MaxRewrites` how often one run
  of phase 4 returns from timing to synthesis. One of each suffices to interrupt
  every step and restart from what it left; users cancel and resume without
  bound.
* In `DownloadControl` two jobs of one release are the smallest instance in
  which a pause for one job can stop the torrent of another, and in which a
  deferral happens. `MaxErrors` counts failed and timed-out calls: with one, an
  error meets every interleaving of the two jobs; with two, an error is followed
  by an error of its own handling. `MaxStops` is the user pausing in
  qBittorrent. Requests are not bounded.
* In `TextStages`, `Phase4Stages` and `JobFiles`, two faults interrupt any step
  and then the recovery from it; a third would interrupt a recovery that starts
  from one of the same sets of files. `Resume` and `Cancel` are not bounded. Two
  segments of the lengths given are split, merged by obligation, merged by
  choice, and refused. Two blocks are the least in which one block is rewritten
  while the other is kept, in which the planner's group differs from its
  candidates, and in which a stale slot of one block can be met by a new
  narration of the other. `MaxModels` = 1 suffices to mix two models.
  `MaxRevisions` counts writes of the job's row: to fail, to be resumed, to end.
* In `NarrationTiming` three blocks have an inner one with a neighbour on each
  side, so that windows chain, groups start before the block that fails, and
  speech has to be passed over by lent silence. The gaps are touching, within
  the borrowing window and beyond it; the amounts of speech fit at ease, need
  the limit, and fit nowhere. A second is ten units and three samples, so that
  almost every boundary is rounded.

**Fairness.** Users and faults are fair only where this list says so.

* `OfflineControl`: the API finishes its request and is restarted (`WF(Api)`,
  `WF(ChooseWrite)`), the worker's loop runs and is restarted
  (`WF(WorkerSteps)`): both follow from the supervisor and from sequential code
  without locks held across steps. A stage is finite work with finitely many
  progress reports, so it does not report for ever without reading on, nor read
  for ever without moving on (`SF(StageRead)`, `SF(StageAdvance)`). Liveness is
  checked with one job: with several, the worker's queue order (oldest first) is
  abstracted to any order, which would let a job starve that the code serves.
* `DownloadControl`: the event loop runs each coroutine on, and each await of a
  backend ends because all are under time-outs (`WF` of the coroutines). The
  mutation lock is an `asyncio.Lock`, first come first served, hence `SF` of the
  calls that wait for it. The monitor polls for ever. Torrents owe nothing.
* `TextStages`, `Phase4Stages`: the worker goes on and takes its queue again
  after a restart (`WF`); and, because the properties ask whether the job can be
  brought to its end, a user retries what may be retried and answers what he is
  asked. Cancelling is never required.
* `JobFiles`: a request that has its body runs on; a dead API is restarted; the
  monitor scans for ever; the lock of the session is first come first served,
  hence `SF(SweepBegins)`. Nothing is fair about a body: the server streams it
  without a time-out. That no client stalls one for ever is instead a premise
  of `AbandonedIsSwept`, `BodiesEnd`, where a reader sees it.

Deadlock is not checked where the system may stop: when every job has ended.

### Findings

1. **CANCELLED while a stage runs.** `cancel_job` classifies the job as idle
   from one read (`api.py:3473-3496`) and later finalizes it (3517). If the
   worker starts the stage in between, the job is CANCELLED and its slot free
   while decoder or model are in use, against the comment at `api.py:3512-3513`
   and `PHASE2_REPORT.md:101`. A restarted API does the same at 1508-1515, and
   the refused resume at 3909-3918.
2. **A marked cancellation that never ends.** A phase 4 progress report reads
   the details (`phase4_stage.py:3337`), the API cancels and marks the job, and
   the report writes the old details over CANCELLING: the mark is gone. As long
   as the stage returns, the worker still finalizes the job (`CancelSettles`);
   if the worker dies first, no queue lists the job again and it keeps the slot
   until the user cancels once more or the API restarts.

### Observations

Behaviour met while modelling that is in the models, and that a reader of the
code may not expect. The first two are cases in which an abandoned upload is
not cleaned up by its TTL, as `README.md:240` of the repository has it:
`AbandonedIsSwept` names both as its exceptions, and TLC finds a counterexample
when either is taken out.

* A session half removed is never swept (`torn`). `shutil.rmtree` removes its
  directory in any order (`api.py:906`, 2716). If it fails, or the API is
  killed, after `.upload-session.json` and before the media, no scan lists the
  directory again, since scans go by that record (`api.py:794-799`), and every
  request is refused with `upload_session_invalid`, the retry that
  `delete_upload` asks for (2722-2727) included. Removing the record last would
  make the removal resumable.
* A stalled body stops the sweep (`BodiesEnd`). The monitor waits for the lock
  of one listed session after the other without a limit (`api.py:937`), and
  `receive_upload_artifact` holds that lock while the client sends
  (`_stream_upload_body`, no time-out). A client that stalls keeps its session
  and all behind it from being swept until it goes or the API restarts.
* An error of the acquisition can fail a job that was READY_OFFLINE and that
  the worker has already taken; the stage then finds its job failed and leaves.
* A cancellation whose pause was deferred for another job is not retried by
  itself: it waits, with its warning, for the user or for the next start of the
  API. `backend_state_uncertain` is written and never read.
* A segment shorter than 250 ms that is too far from its neighbours, or whose
  neighbours are full, fails the job for good with
  `translation_short_block_unmergeable`.
* The semantic rescue of `README.md:354-371` is for a block that has a last
  rewrite. A block too long by itself, none of whose rewrites was ever accepted,
  fails with `timing_group_budget_impossible` without it
  (`phase4_stage.py:1510`).
* `receive_upload_artifact` looks at the status of the session and not for its
  job: when the seal of the session was lost, an upload may replace the media of
  a job that exists (`sealLost` in `JobKeepsItsSources`).
* The maintenance script removes the files of a failed job older than its
  retention though the row stays retryable.
* `dub watch` replays a job's events from the first (`cli.py:597`), so the
  FAILED or NEEDS_... event of a job that was resumed since ends the watch.

## 4. What is proved

Every invariant and every action property of the passing runs is a theorem of
the specification, for every value of the constants; so is
`ImplementsLifecycle` of `JobStore`, `OfflineControl` and `DownloadControl`.
Each proofs module begins with the inductive invariant `IInv`, which TLC has
checked on the instance of the run, and ends with `Spec => []IInv` and what
follows from it.

| Module | Theorems | Assumptions |
|---|---|---|
| `JobStoreProofs` | `TypeCorrect`, `HeavyJobIsUnique`, `FlagAgrees`, `ParkingRemembered`, `StaleReadsAreBounded`, `CancellationSticks`, `StoreImplementsLifecycle` | none |
| `OfflineControlProofs` | `TypeCorrect`, `MarksAreCancellations`, `SlotIsHeld`, `DeathIsByCancel`, `CancelIsOwned`, `MarkDefersFinalize`, `ProcessesImplementLifecycle` | `BoundsAssumption`: the bounds are naturals |
| `DownloadControlProofs` | `RunningTorrentIsOwned`, `AcknowledgedStartRuns`, `CancelWaitsForCalls`, `CreationIsOwned`, `ParkedByUser`, `DownloadsImplementLifecycle` | `DownloadAssumption`: the bounds are naturals |
| `JobFilesProofs` | `TypeCorrect`, `SourcesAreKept`, `LivingFilesAreKept` | `ContentsAssumption`: no content is called "none" |
| `TextStagesProofs` | `TranscriptIsOne`, `TranslationIsOne`, `CrashesAreSurvived`, `WorkIsNeverLost`, `TranslationSaysAll`; of the blocks alone `BuiltSaysAll`, `TimelineStaysValid`, `LoopsEnd` | `TextStagesAssumption`: there is a segment, gaps are naturals, lengths and sizes positive; `TranslationBlocksAssumption`: the limits are naturals, those of a block positive |
| `Phase4Proofs` | `OutputAgrees`, `TransitionsAreLegal`, `SemanticRewritesAreBounded`, `NarrationStays` | `Phase4Assumption`: there is a block, times and bounds are naturals |
| `NarrationTimingProofs` | `PlansAreSound`, `OnlySilenceIsLent`, `RefusalsAreNeeded` | `TimingAssumption`: there is a block, rates and speeds are positive and in order, and a scene lasts a sample |

So the number of jobs, clients, blocks, segments, deaths, errors, models and
rewrites is arbitrary there, and the small numbers of the runs are no limit to
what is known.

**The rows.** No property of a job is inductive by itself, because a process
writes what it computed from an earlier read. `RowProofs` therefore states once
what the columns of a row say of each other (`RowOK`: a live job has the slot,
a slot is an active job's, the flag is a cancellation, a parked job remembers
where it was) and which row may replace another (`Move`: a cancellation or an
end is not undone, the slot is kept on the way to CANCELLING), and shows that
every write of the store is such a move. The modules then argue about moves:
`TableWritten` and `MoveIsPhaseStep` give the unique index and the refinement of
`JobLifecycle` for all of them.

**`JobStore`.** `IInv` is `TypeOK`, `RowOK` of each row, `OneOwner` and
`StaleReadsBounded`: a `resume` writes the status it computed from an old read,
so that `ParkedRemembers` or `CancelSticks` survive it only if the read is
bounded.

**`OfflineControl`.** Worker, request and thread each keep a read while the
others write. `WorkerSees`, `ApiSees` and `ChooserSees` say of every such read
that the job is where it was read or has been cancelled since. That it can only
have been cancelled is because each process is alone with some statuses: the
API touches only rows it cancels, or that are parked, absent or asked for their
language (`ApiRow`), and the worker only rows of its queues and cancellations
(`WorkerRow`). One half of each proof shows that a process's own step keeps
what it sees, the other that a step of the other side is an `ApiTable` or a
`WorkerTable` step, which disturbs nothing. `OwnerKnown` is `CancelHasOwner`
with the stage as an owner only where its next look at the job makes it return;
the property itself is not inductive.

**`DownloadControl`.** `OpSees`, `CancelSees` and `RefreshSees` say what a
coroutine still knows after an await, `LockSees` that one call at most is at
the backend, and by whom. A step is then one job's (`OnlyJob`) and either
leaves the torrent alone or gives it no rest, or is a pause; each of the two is
shown once (`OthersKeep`, `QuietPreserves`), so that a case about an action
only says what becomes of its own job. That two jobs never disturb each other's
torrent is `SlotIsolates`: while a job has the slot, no other download is under
way, and no other start was acknowledged.

**`JobFiles`.** `LockProtects` says at which places of which request what was
seen under the lock of the session is still so, `SessionOfJob` what the session
of a job is unless its seal was lost, `PlanKnows` that a plan of the revision
the job still has is right.

**`TextStages`.** What a step may rely on after a death is what is on disk and
in the database. `TranscriptSees` and `PlanSees` say how file, checkpoint,
segments, digest, plan, blocks and artifact agree at the place where the job
is, or will be when it is resumed (`Place`); `WorkerSees` what the worker holds
of them. `OneTranscript` follows because the checkpoint is written before the
commit and never again; `SealedIsOne` because every block of a plan has the
plan's model.

`SealedSaysAll` needs of the stages only that the sources of the blocks are
those that were built (`Planned`); the rest is about `TranslationBlocks`. A
sequence of blocks is a *timeline* if they last, are in order and do not
overlap (`Timelines`); every script is one (`ScriptsAreTimelines`). What
*covers* a block is a timeline within its times that says its words (`Covers`):
two halves do, whatever the rounding of the cut gives (`SplitTimeInside`,
`HalvesCover`), and covers put one after the other cover what they stand for
(`CoversJoin`), so every level of splitting keeps the transcript
(`SplitOnceCovers`, `PiecesSayAll`). A merge keeps words, order and limits
(`MergeKeeps`, `MergeFits`). The mandatory walk steps back after a merge to the
left; its invariant is that no block behind its index is short
(`MandatoryStates`), and its end puts all of them behind (`PassedAll`); the
optional walk only lengthens blocks (`MergeStaysLong`). `FlattenSeq` and the
walks are recursive functions, reached with `Upwards` and `RecursionUpwards` as
in `NarrationTiming` below.

The loops of the code have no bound, those of the model have one, which
`LoopsEnd` shows to be enough: every level takes a word off the longest piece
that is still to be split (`Small`, `SplitOnceShrinks`), so that after
`Len(text)` levels each is within the limits or cannot be split; and `Ahead`,
twice the blocks less the index, falls in every round of a walk, so that
neither goes on after as many rounds as `Walk` gives it. `TimelineStaysValid` says that
`_validate_block_sequence` never fails: a transcript is refused for a block
that is too long or too short, or not at all. These three are about every
timeline over any set of words, not only the scripts of `TextStages`.

**`Phase4Stages`.** `TtsSees`, `TimingSees` and `ExportSees` are what each
checkpoint says of itself, whoever wrote it and whatever has been lost or
replaced since; `RunSees` is what the present run has compared itself: from the
narration on that the separation is the one on disk, from the plan on that no
block is missing, from the mix on that the timeline is the one planned. A job
completes at the end of one run, where all of that holds, and `OutputIsOne`
follows. `KeepTimeline` and `ExportReusable`, by which a resumed run trusts an
earlier one, are the two places where the checkpoints' own word is needed.
`NeverIllegal` is the table `StatusesAt` of the status a job has at each place
of the worker. `SemanticIsBounded` holds because the ledger is written before
the request (`SemanticSees`, `RewriteSees`): the requests counted are never
more than the attempts recorded.

**`NarrationTiming`.** The state adds little here: `IInv` says that the blocks
follow one another (`Spoken`), that the plan is what the planner returns for
them (`PlanSees`), and that what was fitted and written is the plan's. The work
is in the planner, whose passes are recursive functions over the blocks. The
library's induction takes an operator, so `LeastNatural` (a set of naturals has
a least element) gives induction over sets instead (`Upwards`, `Downwards`), and
`RecursionUpwards` that a function given by its first value and a step exists:
`CursorRule`, `LatestRule`, `BisectFinds` and their like then say of each loop
what it computes. `CenteredFits` is the heart: if the cursor, which begins every
block as early as it can, is in time, then no block's latest start is before
the cursor, and so centring inside [cursor, latest start] keeps order and
windows. `SmoothedFacts` says that two passes suffice for a bounded slope.
`SamplesApart` says that rounding both ends of a slot to samples loses none of
the samples its duration was rounded up for, which is why the fitter, that
measures the speed again, refuses nothing the planner let pass.

`RefusalsAreNeeded` is the converse. A block never lasts longer at a higher
speed (`ShorterWhenFaster`), so if a chain fits at full speed it fits at the
level found for it (`LevelSuffices`), chains do not disturb one another because
each begins after all windows before it (`ChainsJoin`), and smoothing only
hurries: once no chain is crowded there is a plan, and the failure the code
calls unexpected never happens. When a chain is crowded, `GroupWaits` and
`CrowdedIsJustified` count what its late group needs: it has no silence inside,
so that what the last block lacks is what the whole group lacks.

**Only model-checked.** Everything under fairness, which is out of the prover's
reach: `CancelSettles`, `WorkSettles`, `StartSettles`, `StagesFinish`,
`Phase4Finishes`, `AbandonedIsSwept`; and the two findings, which are
counterexamples.

## 5. Not modelled, and the plan

Left out of the models:

* `JobStore`: the event table and `append_warning` (an insertion that no
  decision reads), the schema migration (runs once, before any client).
* `OfflineControl`: `list_jobs` cuts a page of 100 before it filters; 100
  unmarked CANCELLING jobs would hide the rest. The heartbeat and the GPU
  recheck only end the process.
* `DownloadControl`: the search and the choice of a release, the scoring of
  subtitles, an error of SQLite itself inside `resume`.
* `TextStages`: the retry of an empty translation in two halves, which changes
  no state; punctuation, and tokens that are not words.
* `Phase4Stages`: rewrite entries of the first format, the warnings and
  `accepted` flags of a block, the speeds of the strict profile, which one unit
  of duration stands for. Models are replaced only while the worker is away.
  The initial state is what `commit_translation_artifact` leaves.
* `NarrationTiming`: FFmpeg and its output; speeds are integers in parts of a
  unit, so the comparison of a floating-point product at exactly 1.20
  (`timing.py:964`) is not reached.
* `JobFiles`: `get_job_artifact` (read-only), the new revision of a warning,
  several sessions at once (they share nothing but the sweep's order).
* The event stream is a straight loop of reads that changes nothing; the model
  store, native inference, media tools, GPU preflight, command line, installers
  and dashboard are I/O around this control. What the control sees of them (a
  model replaced, a file lost, a call that fails) is in the models.

Nothing the prover can reach remains to be proved of the properties the runs
check. What would come next is a model of the punctuation in the split of a
block, and of `list_jobs` with its page.
