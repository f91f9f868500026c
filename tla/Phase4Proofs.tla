---------------------------- MODULE Phase4Proofs ----------------------------
(***************************************************************************)
(* Proofs about Phase4Stages, for any number of blocks, attempts, faults   *)
(* and models.                                                             *)
(*                                                                         *)
(* What a run of the stage relies on is what a checkpoint of an earlier    *)
(* run says and what it has compared itself since it was entered.  The     *)
(* inductive invariant has one part for each: what the checkpoints say of  *)
(* themselves (TtsSees, TimingSees, ExportSees), and what is true at each  *)
(* place of the worker (RunSees): from the narration on the separation is  *)
(* the one on disk, from the plan on every block is narrated, from the mix *)
(* on the timeline is the one planned.                                     *)
(***************************************************************************)
EXTENDS Phase4Stages, RowProofs, WellFoundedInduction

RowSees ==
    /\ row \in Row /\ RowOK(row)
    /\ row.status \in Phase4Queue \cup {"FAILED", "CANCELLING", "COMPLETED"}
    /\ row.status = "FAILED" => row.previous \in Phase4Queue

(* The status a job has while the worker is at a place of the stage.       *)
StatusesAt ==
    [away             |-> Phase4Queue \cup {"FAILED", "COMPLETED"},
     separate         |-> Phase4Queue,
     separating       |-> {"SEPARATING"},
     separated        |-> {"SEPARATING"},
     separation_saved |-> {"SEPARATING"},
     narrate          |-> Phase4Queue,
     synthesize       |-> {"SYNTHESIZING"},
     synthesized      |-> {"SYNTHESIZING"},
     plan             |-> {"TIMING"},
     fit              |-> {"TIMING"},
     fitted           |-> {"TIMING"},
     built            |-> {"TIMING"},
     seal             |-> {"TIMING"},
     mix              |-> {"TIMING"},
     select           |-> {"TIMING"},
     rewrite          |-> {"TIMING"},
     ledger           |-> {"TIMING"},
     semantic         |-> {"TIMING"},
     clear            |-> {"TIMING"},
     export           |-> {"MIXING"},
     mux              |-> {"MUXING"},
     verify           |-> {"MIXING", "MUXING"},
     hash             |-> {"VERIFYING"},
     complete         |-> {"VERIFYING"}]

StatusSees ==
    /\ worker.at \in DOMAIN StatusesAt
    /\ row.status \in StatusesAt[worker.at] \cup {"CANCELLING"}
    /\ worker.at # "away" =>
         worker = [at |-> worker.at, on |-> worker.on, exhausted |-> worker.exhausted]
    /\ worker.at = "away" => worker = Away

(* The files, and how long a block of narration may be.                    *)
FileSees ==
    /\ file = [accompaniment |-> file.accompaniment, raw |-> file.raw,
               fitted |-> file.fitted, timeline |-> file.timeline, srt |-> file.srt,
               mp4 |-> file.mp4]
    /\ file.raw = [b \in BlockIds |-> file.raw[b]]
    /\ file.fitted = [b \in BlockIds |-> file.fitted[b]]
    /\ \A b \in BlockIds : file.raw[b] # Nothing => file.raw[b].us \in 0..(Longest + 1)

(* The rewrites of a narration, and the semantic ones that are counted.    *)
RewriteSees(rewrite, number) ==
    /\ rewrite = [by |-> rewrite.by, attempt |-> rewrite.attempt,
                  pending |-> rewrite.pending, text |-> rewrite.text]
    /\ rewrite.attempt \in Nat
    /\ number <= IF rewrite.by = "v3" THEN rewrite.attempt ELSE 0
    /\ rewrite.by = "v3" => rewrite.attempt <= SemanticAttempts

TtsSees ==
    /\ asked \in [BlockIds -> Int]
    /\ tts = Nothing => \A b \in BlockIds : asked[b] <= 0
    /\ tts # Nothing =>
         /\ tts = [model |-> tts.model, blocks |-> tts.blocks, rewrites |-> tts.rewrites]
         /\ tts.blocks = [b \in BlockIds |-> tts.blocks[b]]
         /\ tts.rewrites = [b \in BlockIds |-> tts.rewrites[b]]
         /\ \A b \in BlockIds : RewriteSees(tts.rewrites[b], asked[b])

TimingSees ==
    timing # Nothing =>
        /\ timing = [model |-> timing.model, policy |-> timing.policy,
                     blocks |-> timing.blocks, sealed |-> timing.sealed]
        /\ timing.blocks = [b \in BlockIds |-> timing.blocks[b]]
        /\ timing.sealed # Nothing =>
             timing.sealed = [timeline |-> timing.blocks, srt |-> timing.blocks]

ExportSees ==
    export # Nothing =>
        export.mp4 = [separation |-> export.bindings.separation,
                      timeline |-> export.bindings.timeline]

-----------------------------------------------------------------------------
(* What the run has made sure of.                                          *)

TtsHere == tts # Nothing /\ tts.model = model
NarrationHere == TtsHere /\ Missing = {}

(* The plan the worker fits, with what is fitted so far.                   *)
PayloadSees(p) ==
    /\ p = [model |-> model, policy |-> p.policy, blocks |-> p.blocks, sealed |-> p.sealed]
    /\ p.blocks = [b \in BlockIds |-> p.blocks[b]]
    /\ \A b \in BlockIds :
         p.blocks[b] # Nothing => p.blocks[b] = Fit(b) /\ file.fitted[b] = Fit(b)

(* A sealed timeline is taken over from the checkpoint.                    *)
SealedSees(p) ==
    p.sealed # Nothing =>
        /\ timing # Nothing /\ timing.model = model /\ timing.sealed = p.sealed
        /\ \A b \in BlockIds : p.blocks[b] # Nothing => p.blocks[b] = timing.blocks[b]

TimelineHere ==
    /\ timing # Nothing /\ timing.model = model
    /\ timing.sealed = [timeline |-> file.timeline, srt |-> file.srt]
    /\ file.timeline = file.srt
    /\ \A b \in BlockIds : file.srt[b] = Fit(b)

Muxed == file.mp4 = [separation |-> file.accompaniment, timeline |-> file.timeline]

(* A request for a rewrite.                                                *)
RequestSees ==
    /\ worker.on = [block |-> Asked, attempt |-> worker.on.attempt,
                    budget |-> worker.on.budget, retry |-> worker.on.retry]
    /\ Asked \in BlockIds
    /\ worker.on.attempt \in Nat

(* A request for a semantic one: the attempt after those of the entry the  *)
(* block has, or had before the request was recorded.                      *)
SemanticSees(entry) ==
    /\ RequestSees
    /\ worker.on.attempt <= SemanticAttempts
    /\ worker.on.attempt = IF entry.by = "v3" THEN entry.attempt + 1 ELSE 1

Fitting == {"fit", "fitted", "built", "seal"}
Mixed == {"mix", "export", "mux", "verify", "hash", "complete"}
PlannedAt == Fitting \cup Mixed \cup {"plan", "select", "rewrite", "ledger", "semantic"}
Narrating == PlannedAt \cup {"synthesize", "synthesized", "clear"}
Separated == Narrating \cup {"narrate", "separation_saved"}

RunSees ==
    LET at == worker.at
        on == worker.on IN
    /\ at \in Separated => SeparationReusable
    /\ at \in Narrating => TtsHere
    /\ at \in PlannedAt => Missing = {}
    /\ at = "select" => on.group \subseteq BlockIds /\ on.owner \in BlockIds
    /\ at = "rewrite" => RequestSees /\ Rewrite(Asked).by # "v3"
    /\ at = "ledger" => SemanticSees(Rewrite(Asked)) /\ on.retry = Rewrite(Asked)
    /\ at = "semantic" =>
         /\ SemanticSees(on.retry)
         /\ RewriteSees(on.retry, asked[Asked] - 1)
         /\ Rewrite(Asked).by = "v3" /\ Rewrite(Asked).attempt = on.attempt
    /\ at \in Fitting => PayloadSees(on)
    /\ at = "fit" => SealedSees(on)
    /\ at \in {"built", "seal"} => Unfitted = {} /\ file.timeline = on.blocks
    /\ at = "seal" => file.srt = on.blocks
    /\ at \in Mixed => TimelineHere
    /\ at \in {"verify", "hash", "complete"} => Muxed
    /\ at = "complete" => export.mp4 = file.mp4

IInv ==
    /\ RowSees
    /\ StatusSees
    /\ FileSees
    /\ TtsSees
    /\ TimingSees
    /\ ExportSees
    /\ RunSees
    /\ OutputIsOne
    /\ NeverIllegal

-----------------------------------------------------------------------------
(* Least elements.                                                         *)

(* A set of naturals that is not empty has a least element.                *)
LEMMA LeastNatural ==
    ASSUME NEW T \in SUBSET Nat, T # {}
    PROVE  \E x \in T : \A y \in T : x <= y
<1> DEFINE R == OpToRel(<, Nat)
<1>1. \A x, y \in Nat : x < y => <<x, y>> \in R
  BY DEF OpToRel
<1>2. IsWellFoundedOn(R, Nat)
  BY NatLessThanWellFounded
<1> HIDE DEF R
<1>3. PICK x \in T : \A y \in T : ~(<<y, x>> \in R)
  BY <1>2, WFMin
<1>4. ASSUME NEW y \in T PROVE x <= y
  <2>1. x \in Nat /\ y \in Nat
    OBVIOUS
  <2>2. ~(y < x)
    BY <1>1, <1>3, <2>1
  <2> QED BY <2>1, <2>2
<1> QED BY <1>4

(* The blocks are numbered from one.                                       *)
LEMMA BlocksAreNumbers ==
    /\ Blocks \in BlockIds /\ Blocks \in Nat /\ Longest \in Nat
    /\ BlockIds \subseteq Nat \ {0}
    /\ \A b \in BlockIds : b <= Blocks
BY Phase4Assumption DEF BlockIds

(* The least block of some blocks is one of them.                          *)
LEMMA MinIsMember ==
    ASSUME NEW S \in SUBSET BlockIds, S # {}
    PROVE  Min(S) \in S
<1>1. \E x \in S : \A y \in S : x =< y
  BY LeastNatural, BlocksAreNumbers
<1> QED BY <1>1 DEF Min

(* Of candidates that are narrated one comes first.                        *)
LEMMA FirstIsMember ==
    ASSUME NEW S \in SUBSET BlockIds, S # {}, worker.on.owner \in BlockIds,
           \A b \in S : Us(b) \in 0..(Longest + 1)
    PROVE  First(S) \in S
<1> DEFINE Short == {Longest + 1 - Us(b) : b \in S}
<1>1. Short \in SUBSET Nat /\ Short # {}
  BY Phase4Assumption
<1>2. PICK x \in Short : \A y \in Short : x <= y
  BY <1>1, LeastNatural
<1>3. PICK l \in S : x = Longest + 1 - Us(l)
  BY <1>2
<1>4. \A c \in S : Us(c) <= Us(l)
  <2> SUFFICES ASSUME NEW c \in S PROVE Us(c) <= Us(l)
    OBVIOUS
  <2>1. Longest + 1 - Us(c) \in Short
    OBVIOUS
  <2>2. Longest + 1 - Us(l) <= Longest + 1 - Us(c)
    BY <1>2, <1>3, <2>1
  <2>3. Us(c) \in Nat /\ Us(l) \in Nat
    OBVIOUS
  <2> HIDE DEF Short
  <2> QED BY <2>2, <2>3, BlocksAreNumbers
<1> DEFINE Far == {Blocks - b : b \in {c \in S : Us(c) = Us(l)}}
<1>5. Far \in SUBSET Nat /\ Far # {}
  BY BlocksAreNumbers, Phase4Assumption
<1>6. PICK z \in Far : \A y \in Far : z <= y
  BY <1>5, LeastNatural
<1>7. PICK b \in S : Us(b) = Us(l) /\ z = Blocks - b
  BY <1>6
<1>8. ASSUME NEW c \in S \ {b} PROVE Precedes(b, c)
  <2>1. CASE Us(c) < Us(b)
    BY <2>1 DEF Precedes
  <2>2. CASE Us(c) = Us(b)
    <3>1. Blocks - c \in Far
      BY <1>7, <2>2
    <3>2. worker.on.owner \in Nat /\ b \in Nat /\ c \in Nat /\ b # c
      BY <1>8, BlocksAreNumbers
    <3>3. c < b
      <4>1. Blocks - b <= Blocks - c
        BY <1>6, <1>7, <3>1
      <4> HIDE DEF Far
      <4> QED BY <3>2, <4>1, BlocksAreNumbers
    <3>4. Distance(b) < Distance(c)
      BY <3>2, <3>3 DEF Distance
    <3> QED BY <2>2, <3>4 DEF Precedes
  <2> QED BY <1>4, <1>7, <2>1, <2>2
<1>9. \E d \in S : \A c \in S \ {d} : Precedes(d, c)
  BY <1>8
<1> QED BY <1>9 DEF First

-----------------------------------------------------------------------------
(* Rows.                                                                   *)

(* A job in the queue of phase 4 is neither parked, cancelled nor over.    *)
LEMMA QueueIsLive ==
    /\ Phase4Queue \subseteq Live
    /\ Live \subseteq Statuses /\ Live \cap (Cancelled \cup Terminal \cup Parked) = {}
    /\ "none" \notin Statuses
BY DEF Phase4Queue, Live, Active, Cancelled, Statuses, Terminal, Parked

(* A job in the queue is not asked to stop.                                *)
LEMMA QueuedRow ==
    ASSUME RowSees, row.status \in Phase4Queue
    PROVE  ~row.cancel /\ row.cancel \in BOOLEAN /\ row.status \in Live
BY QueueIsLive, NoRowIsNoRow DEF RowSees, RowOK, Row, Live

(* _set_status, and the completion.                                        *)
LEMMA StatusRow ==
    ASSUME RowSees, row.status \in Phase4Queue,
           NEW s \in Phase4Queue \cup {"COMPLETED"},
           row' = UpdatedRow(row, s, FALSE, row.cancel)
    PROVE  RowSees' /\ row'.status = s
<1>1. ~row.cancel /\ row.cancel \in BOOLEAN
  BY QueuedRow
<1>2. s \in Statuses /\ s \notin Cancelled \cup Parked /\ s # "CANCELLING"
  BY QueueIsLive DEF Statuses, Terminal, Cancelled, Parked
<1>3. row' \in Row /\ RowOK(row')
  BY <1>1, <1>2, UpdatedRowOK DEF RowSees
<1>4. row'.status = s
  BY DEF UpdatedRow
<1> QED BY <1>2, <1>3, <1>4 DEF RowSees, Parked

(* A job that fails remembers a status of the queue.                       *)
LEMMA FailRow ==
    ASSUME RowSees, row.status \in Phase4Queue, NEW retryable \in BOOLEAN,
           row' = UpdatedRow(row, "FAILED", retryable, row.cancel)
    PROVE  RowSees' /\ row'.status = "FAILED"
<1>1. ~row.cancel /\ row.cancel \in BOOLEAN /\ row.status \in Live
  BY QueuedRow
<1>2. "FAILED" \in Statuses /\ "FAILED" \notin Cancelled /\ "FAILED" # "CANCELLING"
  BY DEF Statuses, Parked, Cancelled
<1>3. row' \in Row /\ RowOK(row')
  BY <1>1, <1>2, UpdatedRowOK DEF RowSees
<1>4. row'.status = "FAILED" /\ row'.previous = row.status
  BY <1>1, QueueIsLive DEF UpdatedRow, PreviousAfter, Parked
<1> QED BY <1>3, <1>4 DEF RowSees

(* A job that is cancelled.                                                *)
LEMMA CancelRow ==
    ASSUME RowSees, row.status \in Live, row' = UpdatedRow(row, "CANCELLING", FALSE, TRUE)
    PROVE  RowSees' /\ row'.status = "CANCELLING"
<1>1. "CANCELLING" \in Statuses /\ "CANCELLING" \in Cancelled /\ "CANCELLING" \notin Parked
  BY DEF Statuses, Active, Cancelled, Parked
<1>2. row' \in Row /\ RowOK(row')
  BY <1>1, QueueIsLive, UpdatedRowOK DEF RowSees
<1>3. row'.status = "CANCELLING"
  BY DEF UpdatedRow
<1> QED BY <1>2, <1>3 DEF RowSees

(* A job that is resumed is in the queue again.                            *)
LEMMA ResumeRow ==
    ASSUME RowSees, row.status = "FAILED",
           row' = UpdatedRow(row, ResumeTarget(row.previous), FALSE, FALSE)
    PROVE  RowSees' /\ row'.status \in Phase4Queue
<1>1. row.previous \in Phase4Queue /\ row.previous \in Live /\ row.previous # "none"
  BY QueueIsLive DEF RowSees
<1>2. ResumeTarget(row.previous) = row.previous
  BY <1>1, QueueIsLive DEF ResumeTarget
<1>3. row.previous \notin Cancelled \cup Parked /\ row.previous \in Statuses
      /\ row.previous # "CANCELLING"
  BY <1>1, QueueIsLive DEF Cancelled
<1>4. row' \in Row /\ RowOK(row')
  BY <1>2, <1>3, UpdatedRowOK DEF RowSees
<1>5. row'.status = row.previous
  BY <1>2 DEF UpdatedRow
<1> QED BY <1>1, <1>3, <1>4, <1>5 DEF RowSees, Parked

(* The transitions the stage asks for without force.                       *)
LEMMA MayGoOn ==
    /\ row.status = "SEPARATING" => MayBecome(row, "SYNTHESIZING", FALSE)
    /\ row.status = "SYNTHESIZING" => MayBecome(row, "TIMING", FALSE)
    /\ row.status = "TIMING" => MayBecome(row, "MIXING", FALSE)
    /\ row.status = "MIXING" => MayBecome(row, "MUXING", FALSE)
    /\ \A s : MayBecome(row, s, TRUE)
BY DEF MayBecome, Transitions, Forward, Live, Active, Cancelled

(* The table of statuses.                                                  *)
LEMMA Places ==
    /\ \A at \in DOMAIN StatusesAt : at # "away" => StatusesAt[at] \subseteq Phase4Queue
    /\ PlannedAt \cup Narrating \cup Separated \cup Fitting \cup Mixed \subseteq DOMAIN StatusesAt
    /\ "away" \notin PlannedAt \cup Narrating \cup Separated \cup Fitting \cup Mixed
BY DEF StatusesAt, PlannedAt, Narrating, Separated, Fitting, Mixed, Phase4Queue

-----------------------------------------------------------------------------
(* How a place is left.                                                    *)

DataSees == FileSees /\ TtsSees /\ TimingSees /\ ExportSees

(* Nothing is asked of a worker that is away.                              *)
LEMMA AwaySees ==
    ASSUME worker' = Away
    PROVE  RunSees'
<1>1. worker'.at = "away"
  BY DEF Away
<1>2. "away" \notin PlannedAt \cup Narrating \cup Separated \cup Fitting \cup Mixed
  BY Places
<1>3. \A place \in {"select", "rewrite", "ledger", "semantic", "fit", "built", "seal",
                    "verify", "hash", "complete"} : place # "away"
  OBVIOUS
<1> QED BY <1>1, <1>2, <1>3 DEF RunSees

(* The worker leaves a job that is not completed: nothing has to be shown  *)
(* of a run.                                                               *)
LEMMA LeavesPreserves ==
    ASSUME IInv, worker' = Away, RowSees', row'.status # "COMPLETED",
           NeverIllegal', DataSees'
    PROVE  IInv'
<1>1. row'.status \in StatusesAt["away"] \cup {"CANCELLING"}
  BY DEF RowSees, StatusesAt
<1>2. StatusSees'
  BY <1>1 DEF StatusSees, Away, StatusesAt
<1>3. OutputIsOne'
  BY DEF OutputIsOne
<1> QED BY <1>2, <1>3, AwaySees DEF IInv, DataSees

(* The status of a job that is worked on.                                  *)
LEMMA WorkedOn ==
    ASSUME IInv, worker.at # "away"
    PROVE  /\ worker = [at |-> worker.at, on |-> worker.on, exhausted |-> worker.exhausted]
           /\ row.status \in Phase4Queue \cup {"CANCELLING"}
           /\ row.status # "COMPLETED"
           /\ Gone <=> row.status = "CANCELLING"
           /\ ~Gone => row.status \in Phase4Queue /\ row.status \in StatusesAt[worker.at]
<1>1. row.status \in Phase4Queue \cup {"CANCELLING"}
  BY Places DEF IInv, StatusSees
<1>2. \A s \in Phase4Queue : s \notin Cancelled /\ s # "COMPLETED"
  BY DEF Phase4Queue, Cancelled
<1>3. Gone <=> row.status = "CANCELLING"
  BY <1>1, <1>2 DEF Gone, Cancelled
<1> QED BY <1>1, <1>2, <1>3 DEF IInv, StatusSees

(* The worker leaves the row as it is, after a cancellation or by its      *)
(* death.                                                                  *)
LEMMA GivesUpPreserves ==
    ASSUME IInv, worker.at # "away", Leaves, Quiet, DataSees'
    PROVE  IInv'
<1>1. RowSees' /\ row'.status # "COMPLETED" /\ NeverIllegal'
  BY WorkedOn DEF Quiet, IInv, RowSees, NeverIllegal
<1> QED BY <1>1, LeavesPreserves DEF Leaves

(* The worker leaves with an error.                                        *)
LEMMA FailsPreserves ==
    ASSUME IInv, worker.at # "away", NEW code, NEW retryable \in BOOLEAN,
           Fails(code, retryable), code # "illegal_transition", DataSees'
    PROVE  IInv'
<1>1. CASE Gone
  BY <1>1, GivesUpPreserves DEF Fails
<1>2. CASE ~Gone
  <2>1. row' = UpdatedRow(row, "FAILED", retryable, row.cancel) /\ error' = code
        /\ worker' = Away
    BY <1>2 DEF Fails, Leaves
  <2>2. RowSees' /\ row'.status = "FAILED"
    BY <1>2, <2>1, WorkedOn, FailRow DEF IInv
  <2> QED BY <2>1, <2>2, LeavesPreserves DEF NeverIllegal
<1> QED BY <1>1, <1>2

(* The worker goes on to a place of the same status.                       *)
LEMMA GoesOnPreserves ==
    ASSUME IInv, NEW p \in DOMAIN StatusesAt \ {"away"}, NEW x, NEW e,
           worker' = [at |-> p, on |-> x, exhausted |-> e], Quiet,
           row.status \in StatusesAt[p] \cup {"CANCELLING"}, DataSees', RunSees'
    PROVE  IInv'
<1>1. RowSees' /\ NeverIllegal' /\ row' = row
  BY DEF Quiet, IInv, RowSees, NeverIllegal
<1>2. StatusSees'
  <2>1. worker'.at = p /\ row'.status \in StatusesAt[p] \cup {"CANCELLING"}
    BY <1>1
  <2> QED BY <2>1 DEF StatusSees, StatusesAt
<1>3. "COMPLETED" \notin Phase4Queue
  BY DEF Phase4Queue
<1>4. OutputIsOne'
  BY <1>1, <1>3, Places DEF OutputIsOne
<1> QED BY <1>1, <1>2, <1>4 DEF IInv, DataSees

(* The worker goes on to a place of another status, by a transition that   *)
(* is allowed.                                                             *)
LEMMA SetStatusPreserves ==
    ASSUME IInv, worker.at # "away",
           NEW s \in Phase4Queue, NEW forced \in BOOLEAN,
           NEW p \in DOMAIN StatusesAt \ {"away"}, NEW x,
           SetStatus(s, forced, p, x), s \in StatusesAt[p],
           Gone \/ MayBecome(row, s, forced), DataSees',
           worker' = [at |-> p, on |-> x, exhausted |-> worker.exhausted] => RunSees'
    PROVE  IInv'
<1>1. CASE Gone
  BY <1>1, GivesUpPreserves DEF SetStatus
<1>2. CASE ~Gone
  <2>1. row' = UpdatedRow(row, s, FALSE, row.cancel) /\ error' = None
        /\ worker' = [worker EXCEPT !.at = p, !.on = x]
    BY <1>2 DEF SetStatus, GoesOn
  <2>2. worker' = [at |-> p, on |-> x, exhausted |-> worker.exhausted]
    BY <2>1, WorkedOn
  <2>3. RowSees' /\ row'.status = s
    BY <1>2, <2>1, WorkedOn, StatusRow DEF IInv
  <2>4. StatusSees'
    <3>1. worker'.at = p /\ row'.status \in StatusesAt[p] \cup {"CANCELLING"}
      BY <2>2, <2>3
    <3> QED BY <2>2, <3>1 DEF StatusSees, StatusesAt
  <2>5. OutputIsOne' /\ NeverIllegal'
    BY <2>1, <2>3 DEF OutputIsOne, NeverIllegal, Phase4Queue, None
  <2> QED BY <2>2, <2>3, <2>4, <2>5 DEF IInv, DataSees
<1> QED BY <1>1, <1>2

-----------------------------------------------------------------------------
(* Steps that leave the files and the checkpoints alone.                   *)

Untouched == UNCHANGED <<file, checkpoints, model, asked>>

(* The plan of a block is a matter of the narration only.                  *)
LEMMA UntouchedFit ==
    ASSUME UNCHANGED tts
    PROVE  /\ \A b : Text(b)' = Text(b) /\ Us(b)' = Us(b) /\ Rewrite(b)' = Rewrite(b)
           /\ \A b : Fit(b)' = Fit(b)
<1>1. \A b : Text(b)' = Text(b) /\ Us(b)' = Us(b) /\ Rewrite(b)' = Rewrite(b)
  BY DEF Text, Us, Rewrite
<1>2. \A S : Sum(S)' = Sum(S)
  BY DEF Sum, Us
<1>3. \A b : Slot(b)' = Slot(b)
  BY <1>1, <1>2 DEF Slot
<1> QED BY <1>1, <1>3 DEF Fit

(* What is known of files and checkpoints lasts as long as they do.        *)
LEMMA UntouchedSees ==
    ASSUME IInv, Untouched
    PROVE  /\ DataSees'
           /\ SeparationReusable' <=> SeparationReusable
           /\ TtsHere' <=> TtsHere
           /\ Missing' = Missing
           /\ TimelineHere' <=> TimelineHere
           /\ Muxed' <=> Muxed
           /\ \A p : PayloadSees(p)' <=> PayloadSees(p)
           /\ \A p : SealedSees(p)' <=> SealedSees(p)
<1> USE DEF Untouched, checkpoints
<1>1. DataSees'
  BY DEF IInv, DataSees, FileSees, TtsSees, TimingSees, ExportSees, RewriteSees
<1>2. SeparationReusable' <=> SeparationReusable
  BY DEF SeparationReusable
<1>3. TtsHere' <=> TtsHere
  BY DEF TtsHere
<1>4. Missing' = Missing
  BY DEF Missing, Narrated, Text
<1>5. TimelineHere' <=> TimelineHere
  BY UntouchedFit DEF TimelineHere
<1>6. Muxed' <=> Muxed
  BY DEF Muxed
<1>7. \A p : PayloadSees(p)' <=> PayloadSees(p)
  BY UntouchedFit DEF PayloadSees
<1>8. \A p : SealedSees(p)' <=> SealedSees(p)
  BY DEF SealedSees
<1> QED BY <1>1, <1>2, <1>3, <1>4, <1>5, <1>6, <1>7, <1>8

-----------------------------------------------------------------------------
(* Separation.                                                             *)

(* The worker takes a job from the queue, and knows nothing of it.         *)
LEMMA EnterPreserves ==
    ASSUME IInv, EnterPhase4
    PROVE  IInv'
<1>1. Untouched /\ Quiet
      /\ worker' = [at |-> "separate", on |-> Nothing, exhausted |-> Zeros]
  BY DEF EnterPhase4, Same, NoCheckpoint, Untouched
<1>2. row.status \in StatusesAt["separate"] /\ "separate" \in DOMAIN StatusesAt \ {"away"}
  BY DEF EnterPhase4, StatusesAt
<1>3. RunSees'
  BY <1>1 DEF RunSees, PlannedAt, Narrating, Separated, Fitting, Mixed
<1> QED BY <1>1, <1>2, <1>3, UntouchedSees, GoesOnPreserves

(* A separation that is kept is the one on disk.                           *)
LEMMA BeginSeparationPreserves ==
    ASSUME IInv, BeginSeparation
    PROVE  IInv'
<1>1. Untouched /\ worker.at = "separate" /\ worker.at # "away"
  BY DEF BeginSeparation, Same, NoCheckpoint, Untouched, At
<1>2. CASE SeparationReusable
  <2>1. Quiet /\ worker' = [at |-> "narrate", on |-> Nothing, exhausted |-> worker.exhausted]
    BY <1>1, <1>2, WorkedOn DEF BeginSeparation, Goes, GoesOn
  <2>2. RunSees'
    BY <1>1, <1>2, <2>1, UntouchedSees
    DEF RunSees, PlannedAt, Narrating, Separated, Fitting, Mixed
  <2>3. row.status \in StatusesAt["narrate"] \cup {"CANCELLING"}
        /\ "narrate" \in DOMAIN StatusesAt \ {"away"}
    BY <1>1, WorkedOn DEF StatusesAt
  <2> QED BY <1>1, <2>1, <2>2, <2>3, UntouchedSees, GoesOnPreserves
<1>3. CASE ~SeparationReusable
  <2>1. SetStatus("SEPARATING", TRUE, "separating", Nothing)
    BY <1>3 DEF BeginSeparation
  <2>2. "separating" \in DOMAIN StatusesAt \ {"away"}
        /\ "SEPARATING" \in StatusesAt["separating"] /\ "SEPARATING" \in Phase4Queue
    BY DEF StatusesAt, Phase4Queue
  <2>3. worker' = [at |-> "separating", on |-> Nothing, exhausted |-> worker.exhausted]
          => RunSees'
    BY DEF RunSees, PlannedAt, Narrating, Separated, Fitting, Mixed
  <2> QED BY <1>1, <2>1, <2>2, <2>3, UntouchedSees, MayGoOn, SetStatusPreserves
<1> QED BY <1>2, <1>3

(* A step of the stage writes one file, or leaves.                         *)
LEMMA SeparatePreserves ==
    ASSUME IInv, Separate
    PROVE  IInv'
<1>1. worker.at = "separating" /\ worker.at # "away" /\ UNCHANGED <<checkpoints, model, asked>>
  BY DEF Separate, Same, NoCheckpoint, At
<1>2. ASSUME UNCHANGED file PROVE DataSees'
  BY <1>1, <1>2, UntouchedSees DEF Untouched
<1>3. ASSUME Quiet, file' = [file EXCEPT !.accompaniment = [take |-> take]],
             Goes("separated")
      PROVE  IInv'
  <2>1. worker' = [at |-> "separated", on |-> Nothing, exhausted |-> worker.exhausted]
    BY <1>1, <1>3, WorkedOn DEF Goes, GoesOn
  <2>2. RunSees'
    BY <2>1 DEF RunSees, PlannedAt, Narrating, Separated, Fitting, Mixed
  <2>3. DataSees'
    <3>1. FileSees'
      BY <1>3 DEF IInv, FileSees
    <3> QED BY <1>1, <3>1
        DEF IInv, DataSees, TtsSees, TimingSees, ExportSees, RewriteSees, checkpoints
  <2>4. row.status \in StatusesAt["separated"] \cup {"CANCELLING"}
        /\ "separated" \in DOMAIN StatusesAt \ {"away"}
    BY <1>1, WorkedOn DEF StatusesAt
  <2> QED BY <1>3, <2>1, <2>2, <2>3, <2>4, GoesOnPreserves
<1> QED BY <1>1, <1>2, <1>3, GivesUpPreserves, FailsPreserves DEF Separate, Calls

(* The checkpoint names the file that is there.                            *)
LEMMA SaveSeparationPreserves ==
    ASSUME IInv, SaveSeparation
    PROVE  IInv'
<1>1. worker.at = "separated" /\ worker.at # "away" /\ Quiet
      /\ UNCHANGED <<file, tts, timing, export, model, asked>>
  BY DEF SaveSeparation, Same, At
<1>2. DataSees'
  BY <1>1 DEF IInv, DataSees, FileSees, TtsSees, TimingSees, ExportSees, RewriteSees
<1>3. CASE Gone
  BY <1>1, <1>2, <1>3, GivesUpPreserves DEF SaveSeparation
<1>4. CASE ~Gone
  <2>1. separation' = [model |-> model, result |-> file.accompaniment]
        /\ worker' = [at |-> "separation_saved", on |-> Nothing, exhausted |-> worker.exhausted]
    BY <1>1, <1>4, WorkedOn DEF SaveSeparation, Goes, GoesOn
  <2>2. SeparationReusable'
    BY <1>1, <2>1 DEF SeparationReusable, Nothing
  <2>3. RunSees'
    BY <2>1, <2>2 DEF RunSees, PlannedAt, Narrating, Separated, Fitting, Mixed
  <2>4. row.status \in StatusesAt["separation_saved"] \cup {"CANCELLING"}
        /\ "separation_saved" \in DOMAIN StatusesAt \ {"away"}
    BY <1>1, WorkedOn DEF StatusesAt
  <2> QED BY <1>1, <1>2, <2>1, <2>3, <2>4, GoesOnPreserves
<1> QED BY <1>3, <1>4

(* The narration starts from a separation that is there.                   *)
LEMMA EndSeparationPreserves ==
    ASSUME IInv, EndSeparation
    PROVE  IInv'
<1>1. Untouched /\ worker.at = "separation_saved" /\ worker.at # "away"
      /\ SetStatus("SYNTHESIZING", FALSE, "narrate", Nothing)
  BY DEF EndSeparation, Same, NoCheckpoint, Untouched, At
<1>2. SeparationReusable
  BY <1>1 DEF IInv, RunSees, Separated
<1>3. worker' = [at |-> "narrate", on |-> Nothing, exhausted |-> worker.exhausted] => RunSees'
  BY <1>1, <1>2, UntouchedSees DEF RunSees, PlannedAt, Narrating, Separated, Fitting, Mixed
<1>4. Gone \/ MayBecome(row, "SYNTHESIZING", FALSE)
  <2>1. StatusesAt["separation_saved"] = {"SEPARATING"}
    BY DEF StatusesAt
  <2>2. ~Gone => row.status = "SEPARATING"
    BY <1>1, <2>1, WorkedOn
  <2> QED BY <2>2, MayGoOn
<1>5. "narrate" \in DOMAIN StatusesAt \ {"away"}
      /\ "SYNTHESIZING" \in StatusesAt["narrate"] /\ "SYNTHESIZING" \in Phase4Queue
  BY DEF StatusesAt, Phase4Queue
<1> QED BY <1>1, <1>3, <1>4, <1>5, UntouchedSees, SetStatusPreserves

-----------------------------------------------------------------------------
(* Narration.                                                              *)

(* A narration begun anew has no rewrites, and none are counted.           *)
LEMMA OpenNarrationPreserves ==
    ASSUME IInv, OpenNarration
    PROVE  IInv'
<1>1. worker.at = "narrate" /\ worker.at # "away" /\ SeparationReusable
      /\ UNCHANGED <<file, separation, timing, export, model>>
      /\ SetStatus("SYNTHESIZING", TRUE, "synthesize", Nothing)
  BY DEF OpenNarration, Same, At, IInv, RunSees, Separated
<1>2. TtsHere' /\ TtsSees'
  <2>1. CASE NarrationReusable
    BY <1>1, <2>1 DEF OpenNarration, NarrationReusable, TtsHere, IInv, TtsSees, RewriteSees
  <2>2. CASE ~NarrationReusable
    <3>1. tts' = NewNarration /\ asked' = Zeros
      BY <2>2 DEF OpenNarration
    <3>2. TtsHere'
      BY <1>1, <3>1 DEF TtsHere, NewNarration, Nothing
    <3>3. \A b \in BlockIds : tts'.rewrites[b] = NoRewrite /\ asked'[b] = 0
      BY <3>1 DEF NewNarration, Zeros
    <3>4. RewriteSees(NoRewrite, 0)
      BY DEF RewriteSees, NoRewrite, None
    <3>5. \A b \in BlockIds : RewriteSees(tts'.rewrites[b], asked'[b])
      BY <3>3, <3>4
    <3>6. asked' \in [BlockIds -> Int] /\ \A b \in BlockIds : asked'[b] <= 0
      BY <3>1 DEF Zeros
    <3>7. tts' = [model |-> tts'.model, blocks |-> tts'.blocks, rewrites |-> tts'.rewrites]
          /\ tts'.blocks = [b \in BlockIds |-> tts'.blocks[b]]
          /\ tts'.rewrites = [b \in BlockIds |-> tts'.rewrites[b]]
      BY <3>1 DEF NewNarration, NoFiles
    <3> QED BY <3>2, <3>5, <3>6, <3>7 DEF TtsSees, RewriteSees
  <2> QED BY <2>1, <2>2
<1>3. DataSees'
  BY <1>1, <1>2 DEF IInv, DataSees, FileSees, TimingSees, ExportSees
<1>4. SeparationReusable'
  BY <1>1 DEF SeparationReusable
<1>5. worker' = [at |-> "synthesize", on |-> Nothing, exhausted |-> worker.exhausted] => RunSees'
  BY <1>2, <1>4 DEF RunSees, PlannedAt, Narrating, Separated, Fitting, Mixed
<1>6. "synthesize" \in DOMAIN StatusesAt \ {"away"}
      /\ "SYNTHESIZING" \in StatusesAt["synthesize"] /\ "SYNTHESIZING" \in Phase4Queue
  BY DEF StatusesAt, Phase4Queue
<1> QED BY <1>1, <1>3, <1>5, <1>6, MayGoOn, SetStatusPreserves

(* A block of narration is written, of a length the model may give.        *)
LEMMA SynthesizePreserves ==
    ASSUME IInv, Synthesize
    PROVE  IInv'
<1> DEFINE b == Min(Missing)
<1>1. worker.at = "synthesize" /\ worker.at # "away" /\ SeparationReusable /\ TtsHere
      /\ UNCHANGED <<checkpoints, model, asked>>
  BY DEF Synthesize, Same, NoCheckpoint, At, IInv, RunSees, Separated, Narrating
<1>2. ASSUME UNCHANGED file PROVE DataSees'
  BY <1>1, <1>2, UntouchedSees DEF Untouched
<1>3. ASSUME Quiet, NEW us \in Durations,
             file' = [file EXCEPT !.raw[b] = [text |-> Text(b), us |-> us]],
             GoesOn("synthesized", b)
      PROVE  IInv'
  <2>1. worker' = [at |-> "synthesized", on |-> b, exhausted |-> worker.exhausted]
    BY <1>1, <1>3, WorkedOn DEF GoesOn
  <2>2. us \in 0..(Longest + 1)
    BY Phase4Assumption DEF Durations
  <2> HIDE DEF b
  <2>3. FileSees'
    <3>1. \A c \in BlockIds : file'.raw[c] = IF c = b THEN [text |-> Text(b), us |-> us]
                                             ELSE file.raw[c]
      BY <1>3 DEF IInv, FileSees
    <3>2. \A c \in BlockIds : file'.raw[c] # Nothing => file'.raw[c].us \in 0..(Longest + 1)
      BY <2>2, <3>1 DEF IInv, FileSees
    <3> QED BY <1>3, <3>2 DEF IInv, FileSees
  <2>4. DataSees'
    BY <1>1, <2>3 DEF IInv, DataSees, TtsSees, TimingSees, ExportSees, RewriteSees, checkpoints
  <2>5. SeparationReusable' /\ TtsHere'
    BY <1>1, <1>3 DEF SeparationReusable, TtsHere, checkpoints, IInv, FileSees
  <2>6. RunSees'
    BY <2>1, <2>5 DEF RunSees, PlannedAt, Narrating, Separated, Fitting, Mixed
  <2>7. row.status \in StatusesAt["synthesized"] \cup {"CANCELLING"}
        /\ "synthesized" \in DOMAIN StatusesAt \ {"away"}
    BY <1>1, WorkedOn DEF StatusesAt
  <2> QED BY <1>3, <2>1, <2>4, <2>6, <2>7, GoesOnPreserves
<1> QED BY <1>1, <1>2, <1>3, GivesUpPreserves, FailsPreserves DEF Synthesize, Calls

(* The checkpoint names the file that is there.                            *)
LEMMA SaveNarrationPreserves ==
    ASSUME IInv, SaveNarration
    PROVE  IInv'
<1>1. worker.at = "synthesized" /\ worker.at # "away" /\ SeparationReusable /\ TtsHere /\ Quiet
      /\ UNCHANGED <<file, separation, timing, export, model, asked>>
      /\ tts' = [tts EXCEPT !.blocks[worker.on] = file.raw[worker.on]]
  BY DEF SaveNarration, Same, At, IInv, RunSees, Separated, Narrating
<1>2. worker' = [at |-> "synthesize", on |-> Nothing, exhausted |-> worker.exhausted]
  BY <1>1, WorkedOn DEF SaveNarration, Goes, GoesOn
<1>3. tts' = [model |-> tts.model, blocks |-> tts'.blocks, rewrites |-> tts.rewrites]
      /\ tts'.blocks = [b \in BlockIds |-> tts'.blocks[b]]
  BY <1>1 DEF IInv, TtsSees, TtsHere
<1>4. tts' # Nothing
  BY <1>3 DEF Nothing
<1>5. TtsSees' /\ TtsHere'
  BY <1>1, <1>3, <1>4 DEF IInv, TtsSees, TtsHere, RewriteSees
<1>6. DataSees'
  BY <1>1, <1>5 DEF IInv, DataSees, FileSees, TimingSees, ExportSees
<1>7. SeparationReusable'
  BY <1>1 DEF SeparationReusable
<1>8. RunSees'
  BY <1>2, <1>5, <1>7 DEF RunSees, PlannedAt, Narrating, Separated, Fitting, Mixed
<1>9. row.status \in StatusesAt["synthesize"] \cup {"CANCELLING"}
      /\ "synthesize" \in DOMAIN StatusesAt \ {"away"}
  BY <1>1, WorkedOn DEF StatusesAt
<1> QED BY <1>1, <1>2, <1>6, <1>8, <1>9, GoesOnPreserves

(* The plan starts from blocks that are all narrated.                      *)
LEMMA CloseNarrationPreserves ==
    ASSUME IInv, CloseNarration
    PROVE  IInv'
<1>1. Untouched /\ worker.at = "synthesize" /\ worker.at # "away"
      /\ SetStatus("TIMING", FALSE, "plan", Nothing)
      /\ SeparationReusable /\ TtsHere /\ Missing = {}
  BY DEF CloseNarration, Same, NoCheckpoint, Untouched, At, IInv, RunSees, Separated, Narrating
<1>2. worker' = [at |-> "plan", on |-> Nothing, exhausted |-> worker.exhausted] => RunSees'
  BY <1>1, UntouchedSees DEF RunSees, PlannedAt, Narrating, Separated, Fitting, Mixed
<1>3. Gone \/ MayBecome(row, "TIMING", FALSE)
  <2>1. StatusesAt["synthesize"] = {"SYNTHESIZING"}
    BY DEF StatusesAt
  <2>2. ~Gone => row.status = "SYNTHESIZING"
    BY <1>1, <2>1, WorkedOn
  <2> QED BY <2>2, MayGoOn
<1>4. "plan" \in DOMAIN StatusesAt \ {"away"}
      /\ "TIMING" \in StatusesAt["plan"] /\ "TIMING" \in Phase4Queue
  BY DEF StatusesAt, Phase4Queue
<1> QED BY <1>1, <1>2, <1>3, <1>4, UntouchedSees, SetStatusPreserves

-----------------------------------------------------------------------------
(* Timing.                                                                 *)

(* What is asked to be shorter is a block, and its group are blocks.       *)
LEMMA FailureIsOfBlocks ==
    /\ Failure.owner \in BlockIds
    /\ Failure.group \subseteq BlockIds
<1>1. CASE TooLong(Slack) # {}
  <2>1. TooLong(Slack) \in SUBSET BlockIds
    BY DEF TooLong
  <2>2. Min(TooLong(Slack)) \in BlockIds
    BY <1>1, <2>1, MinIsMember
  <2> QED BY <1>1, <2>2 DEF Failure
<1>2. CASE TooLong(Slack) = {}
  BY <1>2, BlocksAreNumbers DEF Failure
<1> QED BY <1>1, <1>2

(* The payload the fitting starts from agrees with the plan.               *)
LEMMA PayloadStarts ==
    ASSUME IInv
    PROVE  PayloadSees(TimingPayload) /\ SealedSees(TimingPayload)
<1> DEFINE fitting == [b \in BlockIds |-> IF Fitted(b) THEN timing.blocks[b] ELSE Nothing]
<1>1. CASE TimingReusable
  <2>1. timing # Nothing /\ timing.model = model
        /\ timing = [model |-> timing.model, policy |-> timing.policy,
                     blocks |-> timing.blocks, sealed |-> timing.sealed]
    BY <1>1 DEF TimingReusable, IInv, TimingSees
  <2>2. TimingPayload = [timing EXCEPT !.blocks = fitting]
    BY <1>1 DEF TimingPayload
  <2>3. TimingPayload = [model |-> model, policy |-> timing.policy,
                         blocks |-> fitting, sealed |-> timing.sealed]
    BY <2>1, <2>2
  <2>4. \A b \in BlockIds : fitting[b] # Nothing =>
          fitting[b] = timing.blocks[b] /\ fitting[b] = Fit(b) /\ file.fitted[b] = Fit(b)
    BY DEF Fitted
  <2>5. fitting = [b \in BlockIds |-> fitting[b]]
    OBVIOUS
  <2> HIDE DEF fitting
  <2>6. PayloadSees(TimingPayload)
    BY <2>3, <2>4, <2>5 DEF PayloadSees
  <2> QED BY <2>1, <2>3, <2>4, <2>6 DEF SealedSees
<1>2. CASE ~TimingReusable
  <2>1. TimingPayload = [model |-> model, policy |-> Policy, blocks |-> NoFiles,
                         sealed |-> Nothing]
    BY <1>2 DEF TimingPayload
  <2>2. NoFiles = [b \in BlockIds |-> NoFiles[b]] /\ \A b \in BlockIds : NoFiles[b] = Nothing
    BY DEF NoFiles
  <2> QED BY <2>1, <2>2 DEF PayloadSees, SealedSees
<1> QED BY <1>1, <1>2

(* The plan fits, or a block or a group is to be made shorter.             *)
LEMMA PlanTimingPreserves ==
    ASSUME IInv, PlanTiming
    PROVE  IInv'
<1>1. Untouched /\ worker.at = "plan" /\ worker.at # "away"
      /\ SeparationReusable /\ TtsHere /\ Missing = {}
  BY DEF PlanTiming, Same, NoCheckpoint, Untouched, At, IInv, RunSees, Separated, Narrating,
         PlannedAt
<1>2. ASSUME Fails("rewrite_required", FALSE) PROVE IInv'
  BY <1>1, <1>2, UntouchedSees, FailsPreserves
<1>3. ASSUME GoesOn("select", Failure), Quiet PROVE IInv'
  <2>1. PICK failure : failure = Failure
    OBVIOUS
  <2>2. worker' = [at |-> "select", on |-> failure, exhausted |-> worker.exhausted]
    BY <1>1, <1>3, <2>1, WorkedOn DEF GoesOn
  <2>3. failure.owner \in BlockIds /\ failure.group \subseteq BlockIds
    BY <2>1, FailureIsOfBlocks
  <2>4. RunSees'
    BY <1>1, <2>2, <2>3, UntouchedSees
    DEF RunSees, PlannedAt, Narrating, Separated, Fitting, Mixed
  <2>5. row.status \in StatusesAt["select"] \cup {"CANCELLING"}
        /\ "select" \in DOMAIN StatusesAt \ {"away"}
    BY <1>1, WorkedOn DEF StatusesAt
  <2> QED BY <1>1, <1>3, <2>2, <2>4, <2>5, UntouchedSees, GoesOnPreserves
<1>4. ASSUME SetStatus("TIMING", TRUE, "fit", TimingPayload) PROVE IInv'
  <2>1. PICK p : p = TimingPayload
    OBVIOUS
  <2>2. PayloadSees(p) /\ SealedSees(p)
    BY <2>1, PayloadStarts
  <2>3. SetStatus("TIMING", TRUE, "fit", p)
    BY <1>4, <2>1
  <2>4. worker' = [at |-> "fit", on |-> p, exhausted |-> worker.exhausted] => RunSees'
    <3> SUFFICES ASSUME worker' = [at |-> "fit", on |-> p, exhausted |-> worker.exhausted]
                 PROVE  RunSees'
      OBVIOUS
    <3>1. PayloadSees(p)' /\ SealedSees(p)'
      BY <1>1, <2>2, UntouchedSees
    <3>2. worker'.on = p
      OBVIOUS
    <3>3. PayloadSees(worker.on)' /\ SealedSees(worker.on)'
      BY <3>1, <3>2 DEF PayloadSees, SealedSees
    <3> QED BY <1>1, <3>3, UntouchedSees
        DEF RunSees, PlannedAt, Narrating, Separated, Fitting, Mixed
  <2>5. "fit" \in DOMAIN StatusesAt \ {"away"}
        /\ "TIMING" \in StatusesAt["fit"] /\ "TIMING" \in Phase4Queue
    BY DEF StatusesAt, Phase4Queue
  <2> QED BY <1>1, <2>3, <2>4, <2>5, UntouchedSees, MayGoOn, SetStatusPreserves
<1> QED BY <1>2, <1>3, <1>4 DEF PlanTiming

(* The fit of a block is something, and stays what it is.                  *)
LEMMA FitIsSomething == \A b : Fit(b) # Nothing
BY DEF Fit, Nothing

(* A block is fitted as planned, and held in memory.                       *)
LEMMA FitBlockPreserves ==
    ASSUME IInv, FitBlock
    PROVE  IInv'
<1>1. worker.at = "fit" /\ worker.at # "away" /\ UNCHANGED <<checkpoints, model, asked>>
      /\ SeparationReusable /\ TtsHere /\ Missing = {} /\ PayloadSees(worker.on)
  BY DEF FitBlock, Same, NoCheckpoint, At, IInv, RunSees, Separated, Narrating,
         PlannedAt, Fitting
<1>2. ASSUME UNCHANGED file PROVE DataSees'
  BY <1>1, <1>2, UntouchedSees DEF Untouched
<1>3. ASSUME Quiet, NEW b, NEW fit, fit = Fit(b),
             file' = [file EXCEPT !.fitted[b] = fit],
             GoesOn("fitted", [worker.on EXCEPT !.blocks[b] = fit])
      PROVE  IInv'
  <2>1. PICK q : q = [worker.on EXCEPT !.blocks[b] = fit]
    OBVIOUS
  <2>2. worker' = [at |-> "fitted", on |-> q, exhausted |-> worker.exhausted]
    BY <1>1, <1>3, <2>1, WorkedOn DEF GoesOn
  <2>3. /\ file'.fitted = [c \in BlockIds |-> file'.fitted[c]]
        /\ \A c \in BlockIds : file'.fitted[c] = IF c = b THEN fit ELSE file.fitted[c]
        /\ file' = [file EXCEPT !.fitted = file'.fitted]
    BY <1>3 DEF IInv, FileSees
  <2>4. FileSees' /\ file'.raw = file.raw /\ file'.accompaniment = file.accompaniment
    BY <2>3 DEF IInv, FileSees
  <2>5. DataSees'
    BY <1>1, <2>4 DEF IInv, DataSees, TtsSees, TimingSees, ExportSees, RewriteSees, checkpoints
  <2>6. SeparationReusable' /\ TtsHere' /\ Missing' = {}
    BY <1>1, <2>4 DEF SeparationReusable, TtsHere, Missing, Narrated, Text, checkpoints
  <2>7. PayloadSees(q)'
    <3>1. q = [model |-> model, policy |-> q.policy, blocks |-> q.blocks, sealed |-> q.sealed]
          /\ q.blocks = [c \in BlockIds |-> q.blocks[c]]
          /\ \A c \in BlockIds : q.blocks[c] = IF c = b THEN fit ELSE worker.on.blocks[c]
      BY <1>1, <2>1 DEF PayloadSees
    <3>2. \A c : Fit(c)' = Fit(c)
      BY <1>1, UntouchedFit DEF checkpoints
    <3>3. \A c \in BlockIds :
            q.blocks[c] # Nothing => q.blocks[c] = Fit(c) /\ file'.fitted[c] = Fit(c)
      BY <1>1, <1>3, <2>3, <3>1 DEF PayloadSees
    <3> QED BY <1>1, <3>1, <3>2, <3>3 DEF PayloadSees
  <2>8. PayloadSees(worker.on)'
    <3>1. worker'.on = q
      BY <2>2
    <3> QED BY <2>7, <3>1 DEF PayloadSees
  <2>9. RunSees'
    BY <2>2, <2>6, <2>8 DEF RunSees, PlannedAt, Narrating, Separated, Fitting, Mixed
  <2>10. row.status \in StatusesAt["fitted"] \cup {"CANCELLING"}
         /\ "fitted" \in DOMAIN StatusesAt \ {"away"}
    BY <1>1, WorkedOn DEF StatusesAt
  <2> QED BY <1>3, <2>2, <2>5, <2>9, <2>10, GoesOnPreserves
<1> QED BY <1>1, <1>2, <1>3, GivesUpPreserves, FailsPreserves DEF FitBlock, Calls

(* The checkpoint says what is held, and no longer that a timeline is      *)
(* sealed.                                                                 *)
LEMMA SaveFittedPreserves ==
    ASSUME IInv, SaveFitted
    PROVE  IInv'
<1>1. worker.at = "fitted" /\ worker.at # "away" /\ Quiet
      /\ UNCHANGED <<file, separation, tts, export, model, asked>>
      /\ SeparationReusable /\ TtsHere /\ Missing = {} /\ PayloadSees(worker.on)
  BY DEF SaveFitted, Same, At, IInv, RunSees, Separated, Narrating, PlannedAt, Fitting
<1>2. PICK p : p = timing'
  OBVIOUS
<1>3. worker' = [at |-> "fit", on |-> p, exhausted |-> worker.exhausted]
  BY <1>1, <1>2, WorkedOn DEF SaveFitted, GoesOn
<1>4. p = [model |-> model, policy |-> worker.on.policy, blocks |-> worker.on.blocks,
           sealed |-> Nothing]
  BY <1>1, <1>2 DEF SaveFitted, PayloadSees
<1>5. TimingSees'
  BY <1>1, <1>2, <1>4 DEF TimingSees, PayloadSees
<1>6. DataSees'
  BY <1>1, <1>5 DEF IInv, DataSees, FileSees, TtsSees, ExportSees, RewriteSees
<1>7. SeparationReusable' /\ TtsHere' /\ Missing' = {}
  BY <1>1 DEF SeparationReusable, TtsHere, Missing, Narrated, Text
<1>8. PayloadSees(worker.on)' /\ SealedSees(worker.on)'
  <2>1. \A b : Fit(b)' = Fit(b)
    BY <1>1, UntouchedFit
  <2>2. worker'.on = p
    BY <1>3
  <2> QED BY <1>1, <1>4, <2>1, <2>2 DEF PayloadSees, SealedSees
<1>9. RunSees'
  BY <1>3, <1>7, <1>8 DEF RunSees, PlannedAt, Narrating, Separated, Fitting, Mixed
<1>10. row.status \in StatusesAt["fit"] \cup {"CANCELLING"}
       /\ "fit" \in DOMAIN StatusesAt \ {"away"}
  BY <1>1, WorkedOn DEF StatusesAt
<1> QED BY <1>1, <1>3, <1>6, <1>9, <1>10, GoesOnPreserves

(* Everything is fitted as it is planned.                                  *)
LEMMA AllFitted ==
    ASSUME FileSees, PayloadSees(worker.on), Unfitted = {}
    PROVE  /\ \A b \in BlockIds : worker.on.blocks[b] = Fit(b)
           /\ worker.on.blocks = file.fitted
<1>1. \A b \in BlockIds : worker.on.blocks[b] # Nothing
  BY DEF Unfitted
<1>2. \A b \in BlockIds : worker.on.blocks[b] = Fit(b) /\ file.fitted[b] = Fit(b)
  BY <1>1 DEF PayloadSees
<1>3. worker.on.blocks = [b \in BlockIds |-> worker.on.blocks[b]]
      /\ file.fitted = [b \in BlockIds |-> file.fitted[b]]
  BY DEF PayloadSees, FileSees
<1> QED BY <1>2, <1>3

(* A timeline that is kept says what is planned now: its blocks are those  *)
(* of the checkpoint, which fit.                                           *)
LEMMA KeepTimelinePreserves ==
    ASSUME IInv, KeepTimeline
    PROVE  IInv'
<1>1. Untouched /\ Quiet /\ worker.at = "fit" /\ worker.at # "away"
      /\ SeparationReusable /\ TtsHere /\ Missing = {} /\ PayloadSees(worker.on)
      /\ SealedSees(worker.on) /\ Unfitted = {} /\ TimelineReusable
  BY DEF KeepTimeline, Same, NoCheckpoint, Untouched, At, IInv, RunSees, Separated,
         Narrating, PlannedAt, Fitting
<1>2. worker' = [at |-> "mix", on |-> Nothing, exhausted |-> worker.exhausted]
  BY <1>1, WorkedOn DEF KeepTimeline, Goes, GoesOn
<1>3. TimelineHere
  <2>1. timing # Nothing /\ timing.model = model /\ timing.sealed = worker.on.sealed
        /\ timing.sealed = [timeline |-> file.timeline, srt |-> file.srt]
        /\ timing.sealed # Nothing
    BY <1>1 DEF SealedSees, TimelineReusable
  <2>2. timing.sealed = [timeline |-> timing.blocks, srt |-> timing.blocks]
    BY <2>1 DEF IInv, TimingSees
  <2>3. file.timeline = timing.blocks /\ file.srt = timing.blocks
    BY <2>1, <2>2
  <2>4. \A b \in BlockIds : worker.on.blocks[b] = Fit(b)
    BY <1>1, AllFitted DEF IInv
  <2>5. \A b \in BlockIds : timing.blocks[b] = Fit(b)
    BY <1>1, <2>4, FitIsSomething DEF SealedSees, TimelineReusable
  <2> QED BY <2>1, <2>3, <2>5 DEF TimelineHere
<1>4. RunSees'
  BY <1>1, <1>2, <1>3, UntouchedSees
  DEF RunSees, PlannedAt, Narrating, Separated, Fitting, Mixed
<1>5. row.status \in StatusesAt["mix"] \cup {"CANCELLING"}
      /\ "mix" \in DOMAIN StatusesAt \ {"away"}
  BY <1>1, WorkedOn DEF StatusesAt
<1> QED BY <1>1, <1>2, <1>4, <1>5, UntouchedSees, GoesOnPreserves

(* Writing a file that the narration and the plan do not depend on.        *)
LEMMA FileWritten ==
    ASSUME IInv, UNCHANGED <<checkpoints, model, asked>>, FileSees',
           file'.accompaniment = file.accompaniment, file'.raw = file.raw,
           file'.fitted = file.fitted
    PROVE  /\ DataSees'
           /\ SeparationReusable' <=> SeparationReusable
           /\ TtsHere' <=> TtsHere
           /\ Missing' = Missing
           /\ \A p : PayloadSees(p)' <=> PayloadSees(p)
<1>1. DataSees'
  BY DEF IInv, DataSees, TtsSees, TimingSees, ExportSees, RewriteSees, checkpoints
<1>2. SeparationReusable' <=> SeparationReusable
  BY DEF SeparationReusable, checkpoints
<1>3. TtsHere' <=> TtsHere
  BY DEF TtsHere, checkpoints
<1>4. Missing' = Missing
  BY DEF Missing, Narrated, Text, checkpoints
<1>5. \A p : PayloadSees(p)' <=> PayloadSees(p)
  BY UntouchedFit DEF PayloadSees, checkpoints
<1> QED BY <1>1, <1>2, <1>3, <1>4, <1>5

(* The timeline is made of blocks that are all fitted.                     *)
LEMMA BuildTimelinePreserves ==
    ASSUME IInv, BuildTimeline
    PROVE  IInv'
<1>1. worker.at = "fit" /\ worker.at # "away" /\ UNCHANGED <<checkpoints, model, asked>>
      /\ SeparationReusable /\ TtsHere /\ Missing = {} /\ PayloadSees(worker.on)
      /\ Unfitted = {}
  BY DEF BuildTimeline, Same, NoCheckpoint, At, IInv, RunSees, Separated, Narrating,
         PlannedAt, Fitting
<1>2. ASSUME UNCHANGED file PROVE DataSees'
  BY <1>1, <1>2, UntouchedSees DEF Untouched
<1>3. ASSUME Quiet, file' = [file EXCEPT !.timeline = file.fitted], GoesOn("built", worker.on)
      PROVE  IInv'
  <2>1. worker' = [at |-> "built", on |-> worker.on, exhausted |-> worker.exhausted]
    BY <1>1, <1>3, WorkedOn DEF GoesOn
  <2>2. FileSees' /\ file'.accompaniment = file.accompaniment /\ file'.raw = file.raw
        /\ file'.fitted = file.fitted /\ file'.timeline = file.fitted
    BY <1>3 DEF IInv, FileSees
  <2>3. DataSees' /\ SeparationReusable' /\ TtsHere' /\ Missing' = {}
    BY <1>1, <2>2, FileWritten
  <2>4. PICK p : p = worker.on
    OBVIOUS
  <2>5. PayloadSees(worker.on)'
    <3>1. PayloadSees(p)'
      BY <1>1, <2>2, <2>4, FileWritten
    <3>2. worker'.on = p
      BY <2>1, <2>4
    <3> QED BY <3>1, <3>2 DEF PayloadSees
  <2>6. Unfitted' = {} /\ file'.timeline = worker'.on.blocks
    BY <1>1, <2>1, <2>2, AllFitted DEF Unfitted, IInv
  <2>7. RunSees'
    BY <2>1, <2>3, <2>5, <2>6 DEF RunSees, PlannedAt, Narrating, Separated, Fitting, Mixed
  <2>8. row.status \in StatusesAt["built"] \cup {"CANCELLING"}
        /\ "built" \in DOMAIN StatusesAt \ {"away"}
    BY <1>1, WorkedOn DEF StatusesAt
  <2> QED BY <1>3, <2>1, <2>3, <2>7, <2>8, GoesOnPreserves
<1> QED BY <1>1, <1>2, <1>3, GivesUpPreserves, FailsPreserves DEF BuildTimeline, Calls

(* The subtitles are written from the same blocks as the timeline.         *)
LEMMA WriteSubtitlesPreserves ==
    ASSUME IInv, WriteSubtitles
    PROVE  IInv'
<1>1. worker.at = "built" /\ worker.at # "away" /\ UNCHANGED <<checkpoints, model, asked>>
      /\ SeparationReusable /\ TtsHere /\ Missing = {} /\ PayloadSees(worker.on)
      /\ Unfitted = {} /\ file.timeline = worker.on.blocks
  BY DEF WriteSubtitles, Same, NoCheckpoint, At, IInv, RunSees, Separated, Narrating,
         PlannedAt, Fitting
<1>2. ASSUME UNCHANGED file PROVE DataSees'
  BY <1>1, <1>2, UntouchedSees DEF Untouched
<1>3. ASSUME Quiet, file' = [file EXCEPT !.srt = worker.on.blocks], GoesOn("seal", worker.on)
      PROVE  IInv'
  <2>1. worker' = [at |-> "seal", on |-> worker.on, exhausted |-> worker.exhausted]
    BY <1>1, <1>3, WorkedOn DEF GoesOn
  <2>2. FileSees' /\ file'.accompaniment = file.accompaniment /\ file'.raw = file.raw
        /\ file'.fitted = file.fitted /\ file'.timeline = file.timeline
        /\ file'.srt = worker.on.blocks
    BY <1>3 DEF IInv, FileSees
  <2>3. DataSees' /\ SeparationReusable' /\ TtsHere' /\ Missing' = {}
    BY <1>1, <2>2, FileWritten
  <2>4. PICK p : p = worker.on
    OBVIOUS
  <2>5. PayloadSees(worker.on)'
    <3>1. PayloadSees(p)'
      BY <1>1, <2>2, <2>4, FileWritten
    <3>2. worker'.on = p
      BY <2>1, <2>4
    <3> QED BY <3>1, <3>2 DEF PayloadSees
  <2>6. Unfitted' = {} /\ file'.timeline = worker'.on.blocks /\ file'.srt = worker'.on.blocks
    BY <1>1, <2>1, <2>2 DEF Unfitted
  <2>7. RunSees'
    BY <2>1, <2>3, <2>5, <2>6 DEF RunSees, PlannedAt, Narrating, Separated, Fitting, Mixed
  <2>8. row.status \in StatusesAt["seal"] \cup {"CANCELLING"}
        /\ "seal" \in DOMAIN StatusesAt \ {"away"}
    BY <1>1, WorkedOn DEF StatusesAt
  <2> QED BY <1>3, <2>1, <2>3, <2>7, <2>8, GoesOnPreserves
<1> QED BY <1>1, <1>2, <1>3, GivesUpPreserves, FailsPreserves DEF WriteSubtitles, Calls

(* What is sealed is what is there, and what is planned.                   *)
LEMMA SealTimelinePreserves ==
    ASSUME IInv, SealTimeline
    PROVE  IInv'
<1>1. worker.at = "seal" /\ worker.at # "away" /\ Quiet
      /\ UNCHANGED <<file, separation, tts, export, model, asked>>
      /\ SeparationReusable /\ TtsHere /\ Missing = {} /\ PayloadSees(worker.on)
      /\ Unfitted = {} /\ file.timeline = worker.on.blocks /\ file.srt = worker.on.blocks
  BY DEF SealTimeline, Same, At, IInv, RunSees, Separated, Narrating, PlannedAt, Fitting
<1>2. worker' = [at |-> "mix", on |-> Nothing, exhausted |-> worker.exhausted]
  BY <1>1, WorkedOn DEF SealTimeline, Goes, GoesOn
<1>3. timing' = [model |-> model, policy |-> worker.on.policy, blocks |-> worker.on.blocks,
                 sealed |-> [timeline |-> file.timeline, srt |-> file.srt]]
  BY <1>1 DEF SealTimeline, PayloadSees
<1>4. timing' # Nothing
  BY <1>3 DEF Nothing
<1>5. TimingSees'
  BY <1>1, <1>3 DEF TimingSees, PayloadSees
<1>6. DataSees'
  BY <1>1, <1>5 DEF IInv, DataSees, FileSees, TtsSees, ExportSees, RewriteSees
<1>7. SeparationReusable' /\ TtsHere' /\ Missing' = {}
  BY <1>1 DEF SeparationReusable, TtsHere, Missing, Narrated, Text
<1>8. TimelineHere'
  <2>1. \A b \in BlockIds : worker.on.blocks[b] = Fit(b)
    BY <1>1, AllFitted DEF IInv
  <2>2. \A b : Fit(b)' = Fit(b)
    BY <1>1, UntouchedFit
  <2> QED BY <1>1, <1>3, <1>4, <2>1, <2>2 DEF TimelineHere
<1>9. RunSees'
  BY <1>2, <1>7, <1>8 DEF RunSees, PlannedAt, Narrating, Separated, Fitting, Mixed
<1>10. row.status \in StatusesAt["mix"] \cup {"CANCELLING"}
       /\ "mix" \in DOMAIN StatusesAt \ {"away"}
  BY <1>1, WorkedOn DEF StatusesAt
<1> QED BY <1>1, <1>2, <1>6, <1>9, <1>10, GoesOnPreserves

(* The mix starts from the timeline that is planned.                       *)
LEMMA BeginMixPreserves ==
    ASSUME IInv, BeginMix
    PROVE  IInv'
<1>1. Untouched /\ worker.at = "mix" /\ worker.at # "away"
      /\ SetStatus("MIXING", FALSE, "export", Nothing)
      /\ SeparationReusable /\ TtsHere /\ Missing = {} /\ TimelineHere
  BY DEF BeginMix, Same, NoCheckpoint, Untouched, At, IInv, RunSees, Separated, Narrating,
         PlannedAt, Mixed
<1>2. worker' = [at |-> "export", on |-> Nothing, exhausted |-> worker.exhausted] => RunSees'
  BY <1>1, UntouchedSees DEF RunSees, PlannedAt, Narrating, Separated, Fitting, Mixed
<1>3. Gone \/ MayBecome(row, "MIXING", FALSE)
  <2>1. StatusesAt["mix"] = {"TIMING"}
    BY DEF StatusesAt
  <2>2. ~Gone => row.status = "TIMING"
    BY <1>1, <2>1, WorkedOn
  <2> QED BY <2>2, MayGoOn
<1>4. "export" \in DOMAIN StatusesAt \ {"away"}
      /\ "MIXING" \in StatusesAt["export"] /\ "MIXING" \in Phase4Queue
  BY DEF StatusesAt, Phase4Queue
<1> QED BY <1>1, <1>2, <1>3, <1>4, UntouchedSees, SetStatusPreserves

-----------------------------------------------------------------------------
(* Rewriting.                                                              *)

(* Blocks that are narrated have a length.                                 *)
LEMMA NarratedLasts ==
    ASSUME IInv, Missing = {}
    PROVE  \A b \in BlockIds : Us(b) \in 0..(Longest + 1)
<1> SUFFICES ASSUME NEW b \in BlockIds PROVE Us(b) \in 0..(Longest + 1)
  OBVIOUS
<1>1. Narrated(b)
  BY DEF Missing
<1> QED BY <1>1 DEF Narrated, Us, IInv, FileSees

(* The entry of one block is replaced.                                     *)
LEMMA EntryReplaced ==
    ASSUME IInv, TtsHere, UNCHANGED <<file, separation, export, model>>, TimingSees',
           Asked \in BlockIds, NEW entry, Rewritten(entry), NEW n \in Int,
           asked' = [asked EXCEPT ![Asked] = n], RewriteSees(entry, n)
    PROVE  /\ DataSees'
           /\ TtsHere'
           /\ SeparationReusable' <=> SeparationReusable
           /\ \A b \in BlockIds :
                tts'.rewrites[b] = IF b = Asked THEN entry ELSE tts.rewrites[b]
<1>1. tts # Nothing /\ tts' = [tts EXCEPT !.rewrites[Asked] = entry]
  BY DEF TtsHere, Rewritten
<1>2. tts' = [model |-> tts.model, blocks |-> tts.blocks, rewrites |-> tts'.rewrites]
      /\ tts'.rewrites = [b \in BlockIds |-> tts'.rewrites[b]]
  BY <1>1 DEF IInv, TtsSees
<1>3. \A b \in BlockIds : tts'.rewrites[b] = IF b = Asked THEN entry ELSE tts.rewrites[b]
  BY <1>1 DEF IInv, TtsSees
<1>4. tts' # Nothing
  BY <1>2 DEF Nothing
<1>5. asked' \in [BlockIds -> Int]
      /\ \A b \in BlockIds : asked'[b] = IF b = Asked THEN n ELSE asked[b]
  BY DEF IInv, TtsSees
<1>6. \A b \in BlockIds : RewriteSees(tts'.rewrites[b], asked'[b])
  BY <1>1, <1>3, <1>5 DEF IInv, TtsSees
<1>7. TtsSees'
  BY <1>1, <1>2, <1>4, <1>5, <1>6 DEF IInv, TtsSees, RewriteSees
<1>8. TtsHere'
  BY <1>2, <1>4 DEF TtsHere
<1>9. DataSees'
  BY <1>7 DEF IInv, DataSees, FileSees, ExportSees
<1>10. SeparationReusable' <=> SeparationReusable
  BY DEF SeparationReusable
<1> QED BY <1>3, <1>8, <1>9, <1>10

(* The entry of a block in the narration that is open.                     *)
LEMMA EntryIsSeen ==
    ASSUME IInv, TtsHere, NEW b \in BlockIds
    PROVE  RewriteSees(Rewrite(b), asked[b]) /\ asked[b] \in Int
BY DEF IInv, TtsSees, TtsHere, Rewrite

(* The block that is asked to be shorter is a block, and a semantic        *)
(* rewrite is asked for within its bound.                                  *)
LEMMA SelectRewritePreserves ==
    ASSUME IInv, SelectRewrite
    PROVE  IInv'
<1> DEFINE owner == worker.on.owner
<1>1. Untouched /\ worker.at = "select" /\ worker.at # "away"
      /\ SeparationReusable /\ TtsHere /\ Missing = {}
      /\ worker.on.group \subseteq BlockIds /\ owner \in BlockIds
  BY DEF SelectRewrite, Same, NoCheckpoint, Untouched, At, IInv, RunSees, Separated,
         Narrating, PlannedAt
<1>2. ASSUME NEW b \in BlockIds, Asks("rewrite", b, "v2"), Rewrite(b).by # "v3"
      PROVE  IInv'
  <2>1. PICK on : on = [block |-> b, attempt |-> NextAttempt(b, "v2"),
                        budget |-> Budget(b), retry |-> Rewrite(b)]
    OBVIOUS
  <2>2. worker' = [at |-> "rewrite", on |-> on, exhausted |-> worker.exhausted] /\ Quiet
    BY <1>1, <1>2, <2>1, WorkedOn DEF Asks, GoesOn
  <2>3. on.attempt \in Nat
    BY <1>1, <2>1, EntryIsSeen DEF NextAttempt, RewriteSees
  <2>4. Rewrite(b)' = Rewrite(b)
    BY <1>1, UntouchedFit DEF Untouched, checkpoints
  <2>5. RequestSees' /\ Rewrite(Asked)'.by # "v3"
    BY <1>2, <2>1, <2>2, <2>3, <2>4 DEF RequestSees, Asked, Rewrite
  <2>6. RunSees'
    BY <1>1, <2>2, <2>5, UntouchedSees
    DEF RunSees, PlannedAt, Narrating, Separated, Fitting, Mixed
  <2>7. row.status \in StatusesAt["rewrite"] \cup {"CANCELLING"}
        /\ "rewrite" \in DOMAIN StatusesAt \ {"away"}
    BY <1>1, WorkedOn DEF StatusesAt
  <2> QED BY <1>1, <2>2, <2>6, <2>7, UntouchedSees, GoesOnPreserves
<1>3. \A b \in BlockIds : Us(b) \in 0..(Longest + 1)
  BY <1>1, NarratedLasts
<1>4. CASE AgainRewritable # {}
  <2>1. AgainRewritable \in SUBSET BlockIds
    BY <1>1 DEF AgainRewritable, Candidates
  <2>2. First(AgainRewritable) \in AgainRewritable
    BY <1>1, <1>3, <1>4, <2>1, FirstIsMember
  <2>3. Asks("rewrite", First(AgainRewritable), "v2")
    BY <1>4 DEF SelectRewrite
  <2>4. Rewrite(First(AgainRewritable)).by # "v3"
    BY <2>2 DEF AgainRewritable
  <2> QED BY <1>2, <2>1, <2>2, <2>3, <2>4
<1>5. CASE AgainRewritable = {} /\ Unrewritten # {}
  <2>1. Unrewritten \in SUBSET BlockIds
    BY <1>1 DEF Unrewritten, Candidates
  <2>2. First(Unrewritten) \in Unrewritten
    BY <1>1, <1>3, <1>5, <2>1, FirstIsMember
  <2>3. Asks("rewrite", First(Unrewritten), "v2")
    BY <1>5 DEF SelectRewrite
  <2>4. Rewrite(First(Unrewritten)).by # "v3"
    BY <2>2 DEF Unrewritten, None
  <2> QED BY <1>2, <2>1, <2>2, <2>3, <2>4
<1>6. ASSUME NEW code \in {"group_impossible", "single_impossible"}, Fails(code, FALSE)
      PROVE  IInv'
  BY <1>1, <1>6, UntouchedSees, FailsPreserves
<1>7. ASSUME NextAttempt(owner, "v3") <= SemanticAttempts, Asks("ledger", owner, "v3")
      PROVE  IInv'
  <2>1. PICK on : on = [block |-> owner, attempt |-> NextAttempt(owner, "v3"),
                        budget |-> Budget(owner), retry |-> Rewrite(owner)]
    OBVIOUS
  <2>2. worker' = [at |-> "ledger", on |-> on, exhausted |-> worker.exhausted] /\ Quiet
    BY <1>1, <1>7, <2>1, WorkedOn DEF Asks, GoesOn
  <2>3. on.attempt \in Nat /\ on.attempt <= SemanticAttempts
        /\ on.attempt = IF Rewrite(owner).by = "v3" THEN Rewrite(owner).attempt + 1 ELSE 1
    BY <1>1, <1>7, <2>1, EntryIsSeen DEF NextAttempt, RewriteSees
  <2>4. tts' = tts /\ worker'.on = on
    BY <1>1, <2>2 DEF Untouched, checkpoints
  <2>5. SemanticSees(Rewrite(Asked))' /\ worker'.on.retry = Rewrite(Asked)'
    <3>1. worker'.on.block = owner /\ worker'.on.retry = tts.rewrites[owner]
          /\ worker'.on = [block |-> owner, attempt |-> on.attempt,
                           budget |-> on.budget, retry |-> on.retry]
      BY <2>1, <2>4 DEF Rewrite
    <3>2. Rewrite(Asked)' = tts.rewrites[owner]
      BY <2>4, <3>1 DEF Rewrite, Asked
    <3>3. RequestSees'
      BY <1>1, <2>3, <2>4, <3>1 DEF RequestSees, Asked
    <3> QED BY <2>3, <2>4, <3>1, <3>2, <3>3 DEF SemanticSees, Rewrite
  <2>6. RunSees'
    BY <1>1, <2>2, <2>5, UntouchedSees
    DEF RunSees, PlannedAt, Narrating, Separated, Fitting, Mixed
  <2>7. row.status \in StatusesAt["ledger"] \cup {"CANCELLING"}
        /\ "ledger" \in DOMAIN StatusesAt \ {"away"}
    BY <1>1, WorkedOn DEF StatusesAt
  <2> QED BY <1>1, <2>2, <2>6, <2>7, UntouchedSees, GoesOnPreserves
<1>8. CASE AgainRewritable = {} /\ Unrewritten = {}
  <2>1. \/ Fails("group_impossible", FALSE)
        \/ Fails("single_impossible", FALSE)
        \/ ~(NextAttempt(owner, "v3") > SemanticAttempts) /\ Asks("ledger", owner, "v3")
    BY <1>8 DEF SelectRewrite
  <2>2. NextAttempt(owner, "v3") \in Nat /\ SemanticAttempts \in Nat
    BY <1>1, EntryIsSeen, Phase4Assumption DEF NextAttempt, RewriteSees
  <2>3. ~(NextAttempt(owner, "v3") > SemanticAttempts)
          => NextAttempt(owner, "v3") <= SemanticAttempts
    BY <2>2
  <2> QED BY <1>6, <1>7, <2>1, <2>3
<1> QED BY <1>4, <1>5, <1>8

(* The request for a rewrite is dropped, the plan is made again.           *)
LEMMA GiveUpRewritePreserves ==
    ASSUME IInv, GiveUpRewrite
    PROVE  IInv'
<1>1. Untouched /\ Quiet /\ worker.at = "rewrite" /\ worker.at # "away"
      /\ SeparationReusable /\ TtsHere /\ Missing = {}
  BY DEF GiveUpRewrite, Same, NoCheckpoint, Untouched, At, IInv, RunSees, Separated,
         Narrating, PlannedAt
<1>2. PICK spent : spent = [worker.exhausted EXCEPT ![Asked] = Max({@, worker.on.budget})]
  OBVIOUS
<1>3. worker' = [at |-> "plan", on |-> Nothing, exhausted |-> spent]
  BY <1>1, <1>2, WorkedOn DEF GiveUpRewrite
<1>4. RunSees'
  BY <1>1, <1>3, UntouchedSees DEF RunSees, PlannedAt, Narrating, Separated, Fitting, Mixed
<1>5. row.status \in StatusesAt["plan"] \cup {"CANCELLING"}
      /\ "plan" \in DOMAIN StatusesAt \ {"away"}
  BY <1>1, WorkedOn DEF StatusesAt
<1> QED BY <1>1, <1>3, <1>4, <1>5, UntouchedSees, GoesOnPreserves

(* A text that is accepted keeps the count of semantic rewrites; so does   *)
(* an answer that is refused.                                              *)
LEMMA RewriteTextPreserves ==
    ASSUME IInv, RewriteText
    PROVE  IInv'
<1>1. worker.at = "rewrite" /\ worker.at # "away"
      /\ UNCHANGED <<file, separation, timing, export, model, asked>>
      /\ SeparationReusable /\ TtsHere /\ Missing = {}
      /\ RequestSees /\ Rewrite(Asked).by # "v3"
  BY DEF RewriteText, Same, At, IInv, RunSees, Separated, Narrating, PlannedAt
<1>2. Asked \in BlockIds
  BY <1>1 DEF RequestSees
<1>3. ASSUME UNCHANGED tts PROVE Untouched /\ DataSees'
  BY <1>1, <1>3, UntouchedSees DEF Untouched, checkpoints
<1>4. ASSUME UNCHANGED tts, Quiet, GoesOn("rewrite", [worker.on EXCEPT !.attempt = @ + 1])
      PROVE  IInv'
  <2>1. PICK on : on = [worker.on EXCEPT !.attempt = @ + 1]
    OBVIOUS
  <2>2. worker' = [at |-> "rewrite", on |-> on, exhausted |-> worker.exhausted]
    BY <1>1, <1>4, <2>1, WorkedOn DEF GoesOn
  <2>3. on = [block |-> Asked, attempt |-> on.attempt, budget |-> on.budget,
              retry |-> on.retry] /\ on.attempt \in Nat
    BY <1>1, <2>1 DEF RequestSees
  <2>4. RequestSees' /\ Rewrite(Asked)'.by # "v3"
    BY <1>1, <1>2, <1>4, <2>2, <2>3 DEF RequestSees, Asked, Rewrite
  <2>5. RunSees'
    BY <1>1, <1>3, <1>4, <2>2, <2>4, UntouchedSees
    DEF RunSees, PlannedAt, Narrating, Separated, Fitting, Mixed
  <2>6. row.status \in StatusesAt["rewrite"] \cup {"CANCELLING"}
        /\ "rewrite" \in DOMAIN StatusesAt \ {"away"}
    BY <1>1, WorkedOn DEF StatusesAt
  <2> QED BY <1>3, <1>4, <2>2, <2>5, <2>6, GoesOnPreserves
<1>5. ASSUME Quiet, Rewritten(Entry("v2", FALSE, NewText("v2"))), Goes("clear")
      PROVE  IInv'
  <2>1. PICK entry : entry = Entry("v2", FALSE, NewText("v2"))
    OBVIOUS
  <2>2. RewriteSees(entry, asked[Asked]) /\ asked[Asked] \in Int
    BY <1>1, <1>2, <2>1, EntryIsSeen DEF Entry, RewriteSees, RequestSees
  <2>3. asked' = [asked EXCEPT ![Asked] = asked[Asked]] /\ TimingSees'
    BY <1>1 DEF IInv, TtsSees, TimingSees
  <2>4. DataSees' /\ TtsHere' /\ SeparationReusable'
    BY <1>1, <1>2, <1>5, <2>1, <2>2, <2>3, EntryReplaced
  <2>5. worker' = [at |-> "clear", on |-> Nothing, exhausted |-> worker.exhausted]
    BY <1>1, <1>5, WorkedOn DEF Goes, GoesOn
  <2>6. RunSees'
    BY <2>4, <2>5 DEF RunSees, PlannedAt, Narrating, Separated, Fitting, Mixed
  <2>7. row.status \in StatusesAt["clear"] \cup {"CANCELLING"}
        /\ "clear" \in DOMAIN StatusesAt \ {"away"}
    BY <1>1, WorkedOn DEF StatusesAt
  <2> QED BY <1>5, <2>4, <2>5, <2>6, <2>7, GoesOnPreserves
<1>6. CASE Calls(GoesOn("rewrite", [worker.on EXCEPT !.attempt = @ + 1]) /\ UNCHANGED file)
           /\ UNCHANGED tts
  BY <1>1, <1>3, <1>4, <1>6, GivesUpPreserves, FailsPreserves DEF Calls
<1> QED BY <1>5, <1>6 DEF RewriteText

(* The attempt is recorded with the text the block has, so the narration   *)
(* still fits.                                                             *)
LEMMA LedgerPreserves ==
    ASSUME IInv, Ledger
    PROVE  IInv'
<1>1. worker.at = "ledger" /\ worker.at # "away"
      /\ UNCHANGED <<file, separation, timing, export, model>>
      /\ SeparationReusable /\ TtsHere /\ Missing = {}
      /\ SemanticSees(Rewrite(Asked)) /\ worker.on.retry = Rewrite(Asked)
  BY DEF Ledger, Same, At, IInv, RunSees, Separated, Narrating, PlannedAt
<1>2. Asked \in BlockIds /\ RequestSees
  BY <1>1 DEF SemanticSees, RequestSees
<1>3. CASE Us(Asked) = 1
  <2>1. Untouched /\ Fails("single_impossible", FALSE)
    BY <1>1, <1>3 DEF Ledger, Untouched, checkpoints
  <2> QED BY <1>1, <2>1, UntouchedSees, FailsPreserves
<1>4. CASE Us(Asked) # 1
  <2>1. PICK entry : entry = Entry("v3", TRUE, Text(Asked))
    OBVIOUS
  <2>2. Rewritten(entry) /\ asked' = [asked EXCEPT ![Asked] = asked[Asked] + 1]
        /\ GoesOn("semantic", worker.on) /\ Quiet
    BY <1>4, <2>1 DEF Ledger
  <2>3. RewriteSees(Rewrite(Asked), asked[Asked]) /\ asked[Asked] \in Int
    BY <1>1, <1>2, EntryIsSeen
  <2>4. RewriteSees(entry, asked[Asked] + 1) /\ asked[Asked] + 1 \in Int
    BY <1>1, <2>1, <2>3, Phase4Assumption DEF Entry, RewriteSees, SemanticSees, RequestSees
  <2>5. TimingSees'
    BY <1>1 DEF IInv, TimingSees
  <2>6. DataSees' /\ TtsHere' /\ SeparationReusable'
        /\ \A b \in BlockIds :
             tts'.rewrites[b] = IF b = Asked THEN entry ELSE tts.rewrites[b]
    BY <1>1, <1>2, <2>2, <2>4, <2>5, EntryReplaced
  <2>7. worker' = [at |-> "semantic", on |-> worker.on, exhausted |-> worker.exhausted]
    BY <1>1, <2>2, WorkedOn DEF GoesOn
  <2>8. worker'.on = worker.on /\ Asked' = Asked
    BY <2>7 DEF Asked
  <2>9. Missing' = {}
    <3>1. \A b \in BlockIds : Text(b)' = Text(b)
      BY <2>1, <2>6 DEF Text, Entry
    <3>2. tts'.blocks = tts.blocks
      BY <1>1, <2>2 DEF Rewritten, TtsHere, IInv, TtsSees
    <3>3. tts' # Nothing /\ file' = file
      BY <1>1, <2>6 DEF TtsHere
    <3>4. \A b \in BlockIds : Narrated(b)' <=> Narrated(b)
      BY <3>1, <3>2, <3>3 DEF Narrated
    <3> QED BY <1>1, <3>4 DEF Missing
  <2>10. SemanticSees(worker.on.retry)'
    BY <1>1, <2>8 DEF SemanticSees, RequestSees, Asked
  <2>11. asked'[Asked] = asked[Asked] + 1
    BY <1>2, <2>2 DEF IInv, TtsSees
  <2>12. RewriteSees(worker.on.retry, asked[Asked] - 1)'
    <3>1. asked[Asked]' = asked[Asked] + 1
      BY <2>8, <2>11
    <3>2. asked[Asked]' - 1 = asked[Asked]
      BY <2>3, <3>1
    <3> QED BY <1>1, <2>3, <2>8, <3>2 DEF RewriteSees
  <2>13. Rewrite(Asked)' = entry
    BY <1>2, <2>6, <2>8 DEF Rewrite
  <2>14. Rewrite(Asked)'.by = "v3" /\ Rewrite(Asked)'.attempt = worker'.on.attempt
    BY <2>1, <2>8, <2>13 DEF Entry
  <2>15. RunSees'
    BY <2>6, <2>7, <2>9, <2>10, <2>12, <2>14
    DEF RunSees, PlannedAt, Narrating, Separated, Fitting, Mixed
  <2>16. row.status \in StatusesAt["semantic"] \cup {"CANCELLING"}
         /\ "semantic" \in DOMAIN StatusesAt \ {"away"}
    BY <1>1, WorkedOn DEF StatusesAt
  <2> QED BY <2>2, <2>6, <2>7, <2>15, <2>16, GoesOnPreserves
<1> QED BY <1>3, <1>4

(* A semantic rewrite keeps the attempt it was recorded with.              *)
LEMMA SemanticAcceptedPreserves ==
    ASSUME IInv, SemanticAccepted
    PROVE  IInv'
<1>1. worker.at = "semantic" /\ worker.at # "away" /\ Quiet
      /\ UNCHANGED <<file, separation, timing, export, model, asked>>
      /\ SeparationReusable /\ TtsHere /\ SemanticSees(worker.on.retry)
      /\ Rewrite(Asked).by = "v3" /\ Rewrite(Asked).attempt = worker.on.attempt
  BY DEF SemanticAccepted, Same, At, IInv, RunSees, Separated, Narrating, PlannedAt
<1>2. Asked \in BlockIds
  BY <1>1 DEF SemanticSees, RequestSees
<1>3. PICK entry : entry = Entry("v3", FALSE, NewText("v3"))
  OBVIOUS
<1>4. RewriteSees(entry, asked[Asked]) /\ asked[Asked] \in Int
  BY <1>1, <1>2, <1>3, EntryIsSeen DEF Entry, RewriteSees, SemanticSees, RequestSees
<1>5. asked' = [asked EXCEPT ![Asked] = asked[Asked]] /\ TimingSees'
  BY <1>1 DEF IInv, TtsSees, TimingSees
<1>6. Rewritten(entry)
  BY <1>3 DEF SemanticAccepted
<1>7. DataSees' /\ TtsHere' /\ SeparationReusable'
  BY <1>1, <1>2, <1>4, <1>5, <1>6, EntryReplaced
<1>8. worker' = [at |-> "clear", on |-> Nothing, exhausted |-> worker.exhausted]
  BY <1>1, WorkedOn DEF SemanticAccepted, Goes, GoesOn
<1>9. RunSees'
  BY <1>7, <1>8 DEF RunSees, PlannedAt, Narrating, Separated, Fitting, Mixed
<1>10. row.status \in StatusesAt["clear"] \cup {"CANCELLING"}
       /\ "clear" \in DOMAIN StatusesAt \ {"away"}
  BY <1>1, WorkedOn DEF StatusesAt
<1> QED BY <1>1, <1>7, <1>8, <1>9, <1>10, GoesOnPreserves

(* The next request is for the attempt after the one refused.              *)
LEMMA SemanticRefusedPreserves ==
    ASSUME IInv, SemanticRefused
    PROVE  IInv'
<1>1. Untouched /\ worker.at = "semantic" /\ worker.at # "away"
      /\ SeparationReusable /\ TtsHere /\ Missing = {} /\ SemanticSees(worker.on.retry)
      /\ Rewrite(Asked).by = "v3" /\ Rewrite(Asked).attempt = worker.on.attempt
  BY DEF SemanticRefused, Same, NoCheckpoint, Untouched, At, IInv, RunSees, Separated,
         Narrating, PlannedAt
<1>2. CASE worker.on.attempt = SemanticAttempts
  <2>1. Fails("single_impossible", FALSE)
    BY <1>2 DEF SemanticRefused
  <2> QED BY <1>1, <2>1, UntouchedSees, FailsPreserves
<1>3. CASE worker.on.attempt # SemanticAttempts
  <2>1. PICK on : on = [worker.on EXCEPT !.attempt = @ + 1, !.retry = Rewrite(Asked)]
    OBVIOUS
  <2>2. worker' = [at |-> "ledger", on |-> on, exhausted |-> worker.exhausted] /\ Quiet
    BY <1>1, <1>3, <2>1, WorkedOn DEF SemanticRefused, GoesOn
  <2>3. on = [block |-> Asked, attempt |-> worker.on.attempt + 1,
              budget |-> on.budget, retry |-> Rewrite(Asked)]
    <3>1. PICK request : request = worker.on
      OBVIOUS
    <3>2. PICK entry : entry = Rewrite(Asked)
      OBVIOUS
    <3>3. request = [block |-> request.block, attempt |-> request.attempt,
                     budget |-> request.budget, retry |-> request.retry]
      BY <1>1, <3>1 DEF SemanticSees, RequestSees, Asked
    <3>4. on = [request EXCEPT !.attempt = request.attempt + 1, !.retry = entry]
      BY <2>1, <3>1, <3>2
    <3>5. on = [block |-> request.block, attempt |-> request.attempt + 1,
                budget |-> request.budget, retry |-> entry]
      BY <3>3, <3>4
    <3> QED BY <3>1, <3>2, <3>5 DEF Asked
  <2>4. Asked \in BlockIds /\ worker.on.attempt + 1 \in Nat
        /\ worker.on.attempt + 1 <= SemanticAttempts
    BY <1>1, <1>3, Phase4Assumption DEF SemanticSees, RequestSees
  <2>5. Rewrite(Asked)' = Rewrite(Asked)
    BY <1>1, <2>2, <2>3 DEF Rewrite, Asked, Untouched, checkpoints
  <2>6. RequestSees'
    BY <2>2, <2>3, <2>4 DEF RequestSees, Asked
  <2>7. SemanticSees(Rewrite(Asked))' /\ worker'.on.retry = Rewrite(Asked)'
    BY <1>1, <2>2, <2>3, <2>4, <2>5, <2>6 DEF SemanticSees
  <2>8. RunSees'
    BY <1>1, <2>2, <2>7, UntouchedSees
    DEF RunSees, PlannedAt, Narrating, Separated, Fitting, Mixed
  <2>9. row.status \in StatusesAt["ledger"] \cup {"CANCELLING"}
        /\ "ledger" \in DOMAIN StatusesAt \ {"away"}
    BY <1>1, WorkedOn DEF StatusesAt
  <2> QED BY <1>1, <2>2, <2>8, <2>9, UntouchedSees, GoesOnPreserves
<1> QED BY <1>2, <1>3

(* The entry the block had is put back, and the attempt is not counted.    *)
LEMMA SemanticFailsPreserves ==
    ASSUME IInv, SemanticFails
    PROVE  IInv'
<1>1. worker.at = "semantic" /\ worker.at # "away"
      /\ UNCHANGED <<file, separation, timing, export, model>>
      /\ TtsHere /\ SemanticSees(worker.on.retry)
      /\ RewriteSees(worker.on.retry, asked[Asked] - 1)
  BY DEF SemanticFails, Same, At, IInv, RunSees, Separated, Narrating, PlannedAt
<1>2. CASE Gone
  <2>1. Untouched /\ Leaves /\ Quiet
    BY <1>1, <1>2 DEF SemanticFails, Untouched, checkpoints
  <2> QED BY <1>1, <2>1, UntouchedSees, GivesUpPreserves
<1>3. CASE ~Gone
  <2>1. Rewritten(worker.on.retry) /\ asked' = [asked EXCEPT ![Asked] = asked[Asked] - 1]
        /\ Fails("call_failed", TRUE)
    BY <1>3 DEF SemanticFails
  <2>2. Asked \in BlockIds
    BY <1>1 DEF SemanticSees, RequestSees
  <2>3. asked[Asked] - 1 \in Int
    BY <1>1, <2>2, EntryIsSeen
  <2>4. TimingSees'
    BY <1>1 DEF IInv, TimingSees
  <2>5. DataSees'
    BY <1>1, <2>1, <2>2, <2>3, <2>4, EntryReplaced
  <2> QED BY <1>1, <2>1, <2>5, FailsPreserves
<1> QED BY <1>2, <1>3

(* After a rewrite nothing of the timing is left, and the narration is     *)
(* looked at again.                                                        *)
LEMMA ClearTimingPreserves ==
    ASSUME IInv, ClearTiming
    PROVE  IInv'
<1>1. worker.at = "clear" /\ worker.at # "away" /\ Quiet /\ timing' = Nothing
      /\ UNCHANGED <<file, separation, tts, export, model, asked>> /\ SeparationReusable
  BY DEF ClearTiming, Same, At, IInv, RunSees, Separated, Narrating
<1>2. worker' = [at |-> "narrate", on |-> Nothing, exhausted |-> worker.exhausted]
  BY <1>1, WorkedOn DEF ClearTiming, Goes, GoesOn
<1>3. DataSees'
  BY <1>1 DEF IInv, DataSees, FileSees, TtsSees, TimingSees, ExportSees, RewriteSees
<1>4. RunSees'
  BY <1>1, <1>2
  DEF RunSees, SeparationReusable, PlannedAt, Narrating, Separated, Fitting, Mixed
<1>5. row.status \in StatusesAt["narrate"] \cup {"CANCELLING"}
      /\ "narrate" \in DOMAIN StatusesAt \ {"away"}
  BY <1>1, WorkedOn DEF StatusesAt, Phase4Queue
<1> QED BY <1>1, <1>2, <1>3, <1>4, <1>5, GoesOnPreserves

-----------------------------------------------------------------------------
(* Export.                                                                 *)

(* A video that is kept was made from the files that are there.            *)
LEMMA ReusableIsMuxed ==
    ASSUME IInv, ExportReusable, SeparationReusable, TimelineHere
    PROVE  Muxed
<1>1. export.mp4 = [separation |-> export.bindings.separation,
                    timeline |-> export.bindings.timeline]
      /\ export.bindings = Bindings /\ export.mp4 = file.mp4
  BY DEF IInv, ExportSees, ExportReusable
<1>2. Bindings.separation = file.accompaniment /\ Bindings.timeline = file.timeline
  BY DEF Bindings, SeparationReusable, TimelineHere
<1> QED BY <1>1, <1>2 DEF Muxed

(* The video is kept if it was made from what is there, and made           *)
(* otherwise.                                                              *)
LEMMA BeginExportPreserves ==
    ASSUME IInv, BeginExport
    PROVE  IInv'
<1>1. Untouched /\ worker.at = "export" /\ worker.at # "away"
      /\ SeparationReusable /\ TtsHere /\ Missing = {} /\ TimelineHere
  BY DEF BeginExport, Same, NoCheckpoint, Untouched, At, IInv, RunSees, Separated, Narrating,
         PlannedAt, Mixed
<1>2. CASE ExportReusable
  <2>1. Quiet /\ worker' = [at |-> "verify", on |-> Nothing, exhausted |-> worker.exhausted]
    BY <1>1, <1>2, WorkedOn DEF BeginExport, Goes, GoesOn
  <2>2. Muxed
    BY <1>1, <1>2, ReusableIsMuxed
  <2>3. RunSees'
    BY <1>1, <2>1, <2>2, UntouchedSees
    DEF RunSees, PlannedAt, Narrating, Separated, Fitting, Mixed
  <2>4. row.status \in StatusesAt["verify"] \cup {"CANCELLING"}
        /\ "verify" \in DOMAIN StatusesAt \ {"away"}
    BY <1>1, WorkedOn DEF StatusesAt
  <2> QED BY <1>1, <2>1, <2>3, <2>4, UntouchedSees, GoesOnPreserves
<1>3. CASE ~ExportReusable
  <2>1. SetStatus("MUXING", row.status = "VERIFYING", "mux", Nothing)
    BY <1>3 DEF BeginExport
  <2>2. PICK forced \in BOOLEAN : forced <=> row.status = "VERIFYING"
    OBVIOUS
  <2>3. Gone \/ MayBecome(row, "MUXING", forced)
    <3>1. StatusesAt["export"] = {"MIXING"}
      BY DEF StatusesAt
    <3>2. ~Gone => row.status = "MIXING" /\ ~forced
      BY <1>1, <2>2, <3>1, WorkedOn
    <3> QED BY <2>2, <3>2, MayGoOn
  <2>4. SetStatus("MUXING", forced, "mux", Nothing)
    BY <2>1, <2>2 DEF SetStatus, MayBecome
  <2>5. worker' = [at |-> "mux", on |-> Nothing, exhausted |-> worker.exhausted] => RunSees'
    BY <1>1, UntouchedSees DEF RunSees, PlannedAt, Narrating, Separated, Fitting, Mixed
  <2>6. "mux" \in DOMAIN StatusesAt \ {"away"}
        /\ "MUXING" \in StatusesAt["mux"] /\ "MUXING" \in Phase4Queue
    BY DEF StatusesAt, Phase4Queue
  <2> QED BY <1>1, <2>3, <2>4, <2>5, <2>6, UntouchedSees, SetStatusPreserves
<1> QED BY <1>2, <1>3

(* The video is made from the accompaniment and the timeline that are      *)
(* there.                                                                  *)
LEMMA ExportPreserves ==
    ASSUME IInv, Export
    PROVE  IInv'
<1>1. worker.at = "mux" /\ worker.at # "away" /\ UNCHANGED <<checkpoints, model, asked>>
      /\ SeparationReusable /\ TtsHere /\ Missing = {} /\ TimelineHere
  BY DEF Export, Same, NoCheckpoint, At, IInv, RunSees, Separated, Narrating, PlannedAt, Mixed
<1>2. ASSUME UNCHANGED file PROVE DataSees'
  BY <1>1, <1>2, UntouchedSees DEF Untouched
<1>3. ASSUME Quiet, Goes("verify"),
             file' = [file EXCEPT !.mp4 = [separation |-> file.accompaniment,
                                           timeline |-> file.timeline]]
      PROVE  IInv'
  <2>1. worker' = [at |-> "verify", on |-> Nothing, exhausted |-> worker.exhausted]
    BY <1>1, <1>3, WorkedOn DEF Goes, GoesOn
  <2>2. FileSees' /\ file'.accompaniment = file.accompaniment /\ file'.raw = file.raw
        /\ file'.fitted = file.fitted /\ file'.timeline = file.timeline /\ file'.srt = file.srt
        /\ file'.mp4 = [separation |-> file.accompaniment, timeline |-> file.timeline]
    BY <1>3 DEF IInv, FileSees
  <2>3. DataSees' /\ SeparationReusable' /\ TtsHere' /\ Missing' = {}
    BY <1>1, <2>2, FileWritten
  <2>4. TimelineHere' /\ Muxed'
    <3>1. \A b : Fit(b)' = Fit(b)
      BY <1>1, UntouchedFit DEF checkpoints
    <3> QED BY <1>1, <2>2, <3>1 DEF TimelineHere, Muxed, checkpoints
  <2>5. RunSees'
    BY <2>1, <2>3, <2>4 DEF RunSees, PlannedAt, Narrating, Separated, Fitting, Mixed
  <2>6. row.status \in StatusesAt["verify"] \cup {"CANCELLING"}
        /\ "verify" \in DOMAIN StatusesAt \ {"away"}
    BY <1>1, WorkedOn DEF StatusesAt
  <2> QED BY <1>3, <2>1, <2>3, <2>5, <2>6, GoesOnPreserves
<1> QED BY <1>1, <1>2, <1>3, GivesUpPreserves, FailsPreserves DEF Export, Calls

(* Wherever the video comes from, it is verified.                          *)
LEMMA BeginVerifyPreserves ==
    ASSUME IInv, BeginVerify
    PROVE  IInv'
<1>1. Untouched /\ worker.at = "verify" /\ worker.at # "away"
      /\ SetStatus("VERIFYING", TRUE, "hash", Nothing)
      /\ SeparationReusable /\ TtsHere /\ Missing = {} /\ TimelineHere /\ Muxed
  BY DEF BeginVerify, Same, NoCheckpoint, Untouched, At, IInv, RunSees, Separated, Narrating,
         PlannedAt, Mixed
<1>2. worker' = [at |-> "hash", on |-> Nothing, exhausted |-> worker.exhausted] => RunSees'
  BY <1>1, UntouchedSees DEF RunSees, PlannedAt, Narrating, Separated, Fitting, Mixed
<1>3. "hash" \in DOMAIN StatusesAt \ {"away"}
      /\ "VERIFYING" \in StatusesAt["hash"] /\ "VERIFYING" \in Phase4Queue
  BY DEF StatusesAt, Phase4Queue
<1> QED BY <1>1, <1>2, <1>3, UntouchedSees, MayGoOn, SetStatusPreserves

(* The checkpoint names what the video was made from.                      *)
LEMMA SaveExportPreserves ==
    ASSUME IInv, SaveExport
    PROVE  IInv'
<1>1. worker.at = "hash" /\ worker.at # "away" /\ Quiet
      /\ UNCHANGED <<file, separation, tts, timing, model, asked>>
      /\ export' = [bindings |-> Bindings, mp4 |-> file.mp4]
      /\ SeparationReusable /\ TtsHere /\ Missing = {} /\ TimelineHere /\ Muxed
  BY DEF SaveExport, Same, At, IInv, RunSees, Separated, Narrating, PlannedAt, Mixed
<1>2. worker' = [at |-> "complete", on |-> Nothing, exhausted |-> worker.exhausted]
  BY <1>1, WorkedOn DEF SaveExport, Goes, GoesOn
<1>3. ExportSees'
  BY <1>1 DEF ExportSees, Bindings, Muxed, SeparationReusable, TimelineHere
<1>4. DataSees'
  BY <1>1, <1>3 DEF IInv, DataSees, FileSees, TtsSees, TimingSees, RewriteSees
<1>5. SeparationReusable' /\ TtsHere' /\ Missing' = {} /\ Muxed'
  BY <1>1 DEF SeparationReusable, TtsHere, Missing, Narrated, Text, Muxed
<1>6. TimelineHere'
  BY <1>1, UntouchedFit DEF TimelineHere
<1>7. export'.mp4 = file'.mp4
  BY <1>1
<1>8. RunSees'
  BY <1>2, <1>5, <1>6, <1>7 DEF RunSees, PlannedAt, Narrating, Separated, Fitting, Mixed
<1>9. row.status \in StatusesAt["complete"] \cup {"CANCELLING"}
      /\ "complete" \in DOMAIN StatusesAt \ {"away"}
  BY <1>1, WorkedOn DEF StatusesAt
<1> QED BY <1>1, <1>2, <1>4, <1>8, <1>9, GoesOnPreserves

(* A job that completes has the video and the subtitles that the run made  *)
(* or made sure of.                                                        *)
LEMMA CompletePreserves ==
    ASSUME IInv, Complete
    PROVE  IInv'
<1>1. Untouched /\ UNCHANGED error /\ Leaves /\ worker.at = "complete" /\ worker.at # "away"
      /\ SeparationReusable /\ TtsHere /\ Missing = {} /\ TimelineHere /\ Muxed
      /\ export.mp4 = file.mp4
  BY DEF Complete, NoCheckpoint, Untouched, At, IInv, RunSees, Separated, Narrating,
         PlannedAt, Mixed
<1>2. CASE row.status # "VERIFYING"
  <2>1. Quiet
    BY <1>1, <1>2 DEF Complete, Quiet
  <2> QED BY <1>1, <2>1, UntouchedSees, GivesUpPreserves
<1>3. CASE row.status = "VERIFYING"
  <2>1. row' = UpdatedRow(row, "COMPLETED", FALSE, row.cancel)
        /\ result' = [mp4 |-> export.mp4, srt |-> timing.sealed.srt]
    BY <1>3 DEF Complete
  <2>2. "VERIFYING" \in Phase4Queue
    BY DEF Phase4Queue
  <2>3. RowSees' /\ row'.status = "COMPLETED"
    BY <1>3, <2>1, <2>2, StatusRow DEF IInv
  <2>4. worker' = Away /\ StatusSees'
    BY <1>1, <2>3 DEF Leaves, Away, StatusSees, StatusesAt
  <2>5. DataSees' /\ SeparationReusable' /\ TtsHere' /\ Missing' = {} /\ TimelineHere' /\ Muxed'
    BY <1>1, UntouchedSees
  <2>6. result'.mp4 = file'.mp4 /\ result'.srt = file'.srt
    BY <1>1, <2>1 DEF TimelineHere, Untouched
  <2>7. \A b \in BlockIds : (tts.blocks[b] = file.raw[b])'
    <3>1. \A b \in BlockIds : Narrated(b)
      BY <1>1 DEF Missing
    <3> QED BY <1>1, <3>1 DEF Narrated, Untouched, checkpoints
  <2>8. OutputIsOne'
    BY <2>5, <2>6, <2>7 DEF OutputIsOne, SeparationReusable, TtsHere, TimelineHere, Muxed
  <2>9. NeverIllegal'
    BY <1>1 DEF IInv, NeverIllegal
  <2> QED BY <2>3, <2>4, <2>5, <2>8, <2>9, AwaySees DEF IInv, DataSees
<1> QED BY <1>2, <1>3

-----------------------------------------------------------------------------
(* The rest of the world.                                                  *)

(* A worker that is where it was, with nothing touched.                    *)
LEMMA StillSees ==
    ASSUME IInv, Untouched, UNCHANGED worker
    PROVE  RunSees'
<1>1. \A b : Fit(b)' = Fit(b) /\ Rewrite(b)' = Rewrite(b)
  BY UntouchedFit DEF Untouched, checkpoints
<1>2. /\ SeparationReusable' <=> SeparationReusable
      /\ TtsHere' <=> TtsHere
      /\ Missing' = Missing
      /\ TimelineHere' <=> TimelineHere
      /\ Muxed' <=> Muxed
  BY UntouchedSees
<1>3. PayloadSees(worker.on)' <=> PayloadSees(worker.on)
  BY <1>1 DEF PayloadSees, Untouched
<1>4. SealedSees(worker.on)' <=> SealedSees(worker.on)
  BY DEF SealedSees, Untouched, checkpoints
<1>5. Asked' = Asked /\ Rewrite(Asked)' = Rewrite(Asked) /\ Unfitted' = Unfitted
      /\ asked[Asked]' = asked[Asked]
  BY <1>1 DEF Asked, Unfitted, Untouched, Rewrite, checkpoints
<1>6. RequestSees' <=> RequestSees
  BY DEF RequestSees, Asked
<1>7. SemanticSees(Rewrite(Asked))' <=> SemanticSees(Rewrite(Asked))
  BY <1>5, <1>6 DEF SemanticSees
<1>8. SemanticSees(worker.on.retry)' <=> SemanticSees(worker.on.retry)
  BY <1>6 DEF SemanticSees
<1>9. RewriteSees(worker.on.retry, asked[Asked] - 1)'
        <=> RewriteSees(worker.on.retry, asked[Asked] - 1)
  BY <1>5 DEF RewriteSees
<1> QED BY <1>2, <1>3, <1>4, <1>5, <1>6, <1>7, <1>8, <1>9
    DEF IInv, RunSees, Untouched, checkpoints

(* A death of the worker loses only what it held in memory.                *)
LEMMA WorkerCrashPreserves ==
    ASSUME IInv, WorkerCrash
    PROVE  IInv'
<1>1. Untouched /\ Leaves /\ Quiet /\ worker.at # "away"
  BY DEF WorkerCrash, Stays, NoCheckpoint, Untouched, Quiet, IInv, StatusSees
<1> QED BY <1>1, UntouchedSees, GivesUpPreserves

(* A failed job is resumed in the status it failed in.                     *)
LEMMA ResumePreserves ==
    ASSUME IInv, Resume
    PROVE  IInv'
<1>1. Untouched /\ worker' = Away /\ error' = None
      /\ row' = UpdatedRow(row, ResumeTarget(row.previous), FALSE, FALSE)
      /\ row.status = "FAILED"
  BY DEF Resume, Stays, NoCheckpoint, Untouched
<1>2. RowSees' /\ row'.status \in Phase4Queue
  BY <1>1, ResumeRow DEF IInv
<1>3. row'.status # "COMPLETED" /\ NeverIllegal'
  BY <1>1, <1>2 DEF Phase4Queue, NeverIllegal, None
<1> QED BY <1>1, <1>2, <1>3, AwaySees, UntouchedSees, LeavesPreserves

(* The worker finds out later: nothing it relies on is the row's.          *)
LEMMA CancelPreserves ==
    ASSUME IInv, Cancel
    PROVE  IInv'
<1>1. Untouched /\ UNCHANGED worker /\ error' = None
      /\ row' = UpdatedRow(row, "CANCELLING", FALSE, TRUE) /\ row.status \in Live
  BY DEF Cancel, Stays, NoCheckpoint, Untouched
<1>2. RowSees' /\ row'.status = "CANCELLING"
  BY <1>1, CancelRow DEF IInv
<1>3. StatusSees'
  BY <1>1, <1>2 DEF IInv, StatusSees
<1>4. OutputIsOne' /\ NeverIllegal'
  BY <1>1, <1>2 DEF OutputIsOne, NeverIllegal, None
<1> QED BY <1>1, <1>2, <1>3, <1>4, StillSees, UntouchedSees DEF IInv, DataSees

(* A new model makes the checkpoints stale, not false.                     *)
LEMMA InstallModelPreserves ==
    ASSUME IInv, InstallModel
    PROVE  IInv'
<1>1. UNCHANGED <<checkpoints, asked, file, row, error>> /\ worker' = Away
      /\ row.status # "COMPLETED"
  BY DEF InstallModel, Stays, NoCheckpoint, Terminal, Parked
<1>2. DataSees'
  BY <1>1 DEF IInv, DataSees, FileSees, TtsSees, TimingSees, ExportSees, RewriteSees, checkpoints
<1>3. RowSees' /\ NeverIllegal' /\ row'.status # "COMPLETED"
  BY <1>1 DEF IInv, RowSees, NeverIllegal
<1> QED BY <1>1, <1>2, <1>3, AwaySees, LeavesPreserves

(* A file that is lost makes the checkpoints stale, not false.             *)
LEMMA LoseFilePreserves ==
    ASSUME IInv, LoseFile
    PROVE  IInv'
<1>1. UNCHANGED <<checkpoints, asked, row, error>> /\ worker' = Away
      /\ row.status # "COMPLETED"
  BY DEF LoseFile, Stays, NoCheckpoint, Terminal, Parked
<1>2. FileSees'
  <2>1. ASSUME NEW f \in {"accompaniment", "timeline", "srt", "mp4"},
               file' = [file EXCEPT ![f] = Nothing]
        PROVE  FileSees'
    BY <2>1 DEF IInv, FileSees
  <2>2. ASSUME NEW b \in BlockIds, file' = [file EXCEPT !["raw"][b] = Nothing]
        PROVE  FileSees'
    <3>1. file' = [accompaniment |-> file.accompaniment, raw |-> file'.raw,
                   fitted |-> file.fitted, timeline |-> file.timeline, srt |-> file.srt,
                   mp4 |-> file.mp4]
      BY <2>2 DEF IInv, FileSees
    <3>2. file'.raw = [c \in BlockIds |-> file'.raw[c]]
          /\ \A c \in BlockIds : file'.raw[c] = IF c = b THEN Nothing ELSE file.raw[c]
      BY <2>2 DEF IInv, FileSees
    <3> QED BY <3>1, <3>2 DEF IInv, FileSees
  <2>3. ASSUME NEW b \in BlockIds, file' = [file EXCEPT !["fitted"][b] = Nothing]
        PROVE  FileSees'
    BY <2>3 DEF IInv, FileSees
  <2> QED BY <2>1, <2>2, <2>3 DEF LoseFile
<1>3. DataSees'
  BY <1>1, <1>2 DEF IInv, DataSees, TtsSees, TimingSees, ExportSees, RewriteSees, checkpoints
<1>4. RowSees' /\ NeverIllegal' /\ row'.status # "COMPLETED"
  BY <1>1 DEF IInv, RowSees, NeverIllegal
<1> QED BY <1>1, <1>3, <1>4, AwaySees, LeavesPreserves

-----------------------------------------------------------------------------
(* The invariant.                                                          *)

(* The invariant holds of a job that is translated.                        *)
LEMMA InitEstablishes ==
    ASSUME Init
    PROVE  IInv
<1>1. row = InsertedRow("READY_TTS") /\ error = None /\ worker = Away
      /\ tts = Nothing /\ timing = Nothing /\ export = Nothing /\ asked = Zeros
      /\ file = [accompaniment |-> Nothing, raw |-> NoFiles, fitted |-> NoFiles,
                 timeline |-> Nothing, srt |-> Nothing, mp4 |-> Nothing]
  BY DEF Init
<1>2. RowSees /\ row.status = "READY_TTS"
  <2>1. "READY_TTS" \in Phase4Queue
    BY DEF Phase4Queue
  <2>2. row \in Row /\ RowOK(row)
    <3>1. row \in Row
      BY <1>1 DEF InsertedRow, NoRow, Row, Statuses, Active
    <3> QED BY <1>1, <3>1 DEF RowOK, InsertedRow, NoRow, Live, Active, Cancelled, Parked
  <2>3. row.status = "READY_TTS"
    BY <1>1 DEF InsertedRow
  <2> QED BY <2>1, <2>2, <2>3 DEF RowSees
<1>3. StatusSees
  BY <1>1, <1>2 DEF StatusSees, Away, StatusesAt, Phase4Queue
<1>4. FileSees
  BY <1>1 DEF FileSees, NoFiles
<1>5. TtsSees
  BY <1>1 DEF TtsSees, Zeros
<1>6. TimingSees /\ ExportSees
  BY <1>1 DEF TimingSees, ExportSees
<1>7. RunSees
  <2>1. worker.at = "away"
    BY <1>1 DEF Away
  <2> QED BY <2>1 DEF RunSees, PlannedAt, Narrating, Separated, Fitting, Mixed
<1>8. OutputIsOne /\ NeverIllegal
  BY <1>1, <1>2 DEF OutputIsOne, NeverIllegal, None
<1> QED BY <1>2, <1>3, <1>4, <1>5, <1>6, <1>7, <1>8 DEF IInv

(* A step of somebody else.                                                *)
LEMMA StutterPreserves ==
    ASSUME IInv, UNCHANGED vars
    PROVE  IInv'
<1>1. Untouched /\ UNCHANGED <<row, error, worker, result>>
  BY DEF vars, Untouched
<1>2. RowSees' /\ StatusSees' /\ NeverIllegal'
  BY <1>1 DEF IInv, RowSees, StatusSees, NeverIllegal
<1>3. OutputIsOne'
  BY <1>1, UntouchedFit DEF IInv, OutputIsOne, Untouched, checkpoints
<1> QED BY <1>1, <1>2, <1>3, StillSees, UntouchedSees DEF IInv, DataSees

(* Every step keeps the invariant.                                         *)
LEMMA NextPreserves ==
    ASSUME IInv, [Next]_vars
    PROVE  IInv'
<1>1. CASE EnterPhase4
  BY <1>1, EnterPreserves
<1>2. CASE SeparationSteps
  BY <1>2, BeginSeparationPreserves, SeparatePreserves, SaveSeparationPreserves,
     EndSeparationPreserves DEF SeparationSteps
<1>3. CASE NarrationSteps
  BY <1>3, OpenNarrationPreserves, SynthesizePreserves, SaveNarrationPreserves,
     CloseNarrationPreserves DEF NarrationSteps
<1>4. CASE TimingSteps
  BY <1>4, PlanTimingPreserves, FitBlockPreserves, SaveFittedPreserves,
     KeepTimelinePreserves, BuildTimelinePreserves, WriteSubtitlesPreserves,
     SealTimelinePreserves, BeginMixPreserves DEF TimingSteps
<1>5. CASE RewriteSteps
  BY <1>5, SelectRewritePreserves, GiveUpRewritePreserves, RewriteTextPreserves,
     LedgerPreserves, SemanticAcceptedPreserves, SemanticRefusedPreserves,
     SemanticFailsPreserves, ClearTimingPreserves DEF RewriteSteps
<1>6. CASE ExportSteps
  BY <1>6, BeginExportPreserves, ExportPreserves, BeginVerifyPreserves,
     SaveExportPreserves, CompletePreserves DEF ExportSteps
<1>7. CASE WorkerCrash
  BY <1>7, WorkerCrashPreserves
<1>8. CASE Resume
  BY <1>8, ResumePreserves
<1>9. CASE Cancel
  BY <1>9, CancelPreserves
<1>10. CASE InstallModel
  BY <1>10, InstallModelPreserves
<1>11. CASE LoseFile
  BY <1>11, LoseFilePreserves
<1>12. CASE UNCHANGED vars
  BY <1>12, StutterPreserves
<1> QED BY <1>1, <1>2, <1>3, <1>4, <1>5, <1>6, <1>7, <1>8, <1>9, <1>10, <1>11, <1>12
    DEF Next, Stage

(* The invariant holds, in whichever order the stage is interrupted,       *)
(* resumed, refitted and rewritten.                                        *)
THEOREM Invariant == Spec => []IInv
<1>1. Init => IInv
  BY InitEstablishes
<1>2. IInv /\ [Next]_vars => IInv'
  BY NextPreserves
<1> QED BY <1>1, <1>2, PTL DEF Spec

(* The video, the narration and the subtitles of a completed job are of    *)
(* one set of models and texts: what _complete_phase4_job publishes.       *)
THEOREM OutputAgrees == Spec => []OutputIsOne
<1>1. IInv => OutputIsOne
  BY DEF IInv
<1> QED BY <1>1, Invariant, PTL

(* The stage asks for no transition that transition_job refuses, wherever  *)
(* it resumes.                                                             *)
THEOREM TransitionsAreLegal == Spec => []NeverIllegal
<1>1. IInv => NeverIllegal
  BY DEF IInv
<1> QED BY <1>1, Invariant, PTL

(* The ledger of semantic rewrites is never behind the requests: each is   *)
(* recorded before it is made.                                             *)
THEOREM SemanticRewritesAreBounded == Spec => []SemanticIsBounded
<1>1. ASSUME IInv PROVE SemanticIsBounded
  <2> SUFFICES ASSUME NEW b \in BlockIds PROVE asked[b] <= SemanticAttempts
    BY DEF SemanticIsBounded
  <2>1. asked[b] \in Int /\ SemanticAttempts \in Nat
    BY <1>1, Phase4Assumption DEF IInv, TtsSees
  <2>2. CASE tts = Nothing
    <3>1. asked[b] <= 0
      BY <1>1, <2>2 DEF IInv, TtsSees
    <3> QED BY <2>1, <3>1
  <2>3. CASE tts # Nothing
    <3>1. RewriteSees(tts.rewrites[b], asked[b])
      BY <1>1, <2>3 DEF IInv, TtsSees
    <3> QED BY <2>1, <3>1 DEF RewriteSees
  <2> QED BY <2>2, <2>3
<1> QED BY <1>1, Invariant, PTL

(* A step that leaves the narration and its checkpoint alone, or loses     *)
(* files.                                                                  *)
LEMMA OthersKeepNarration ==
    ASSUME IInv, Next, NEW b \in BlockIds, ~NarrationSteps, ~RewriteSteps
    PROVE  file'.raw[b] \in {file.raw[b], Nothing} /\ tts' = tts
<1>1. FileSees
  BY DEF IInv
<1>2. ASSUME UNCHANGED <<file, tts>>
      PROVE  file'.raw[b] \in {file.raw[b], Nothing} /\ tts' = tts
  BY <1>2
<1>3. CASE SeparationSteps
  <2>1. CASE Separate
    BY <1>1, <2>1 DEF Separate, Calls, NoCheckpoint, checkpoints, FileSees
  <2>2. CASE ~Separate
    BY <1>2, <1>3, <2>2 DEF SeparationSteps, BeginSeparation, SaveSeparation, EndSeparation,
       NoCheckpoint, checkpoints
  <2> QED BY <2>1, <2>2
<1>4. CASE TimingSteps
  <2>1. CASE FitBlock
    BY <1>1, <2>1 DEF FitBlock, Calls, NoCheckpoint, checkpoints, FileSees
  <2>2. CASE BuildTimeline
    BY <1>1, <2>2 DEF BuildTimeline, Calls, NoCheckpoint, checkpoints, FileSees
  <2>3. CASE WriteSubtitles
    BY <1>1, <2>3 DEF WriteSubtitles, Calls, NoCheckpoint, checkpoints, FileSees
  <2>4. CASE PlanTiming \/ SaveFitted \/ KeepTimeline \/ SealTimeline \/ BeginMix
    BY <1>2, <2>4 DEF PlanTiming, SaveFitted, KeepTimeline, SealTimeline, BeginMix,
       NoCheckpoint, checkpoints
  <2> QED BY <1>4, <2>1, <2>2, <2>3, <2>4 DEF TimingSteps
<1>5. CASE ExportSteps
  <2>1. CASE Export
    BY <1>1, <2>1 DEF Export, Calls, NoCheckpoint, checkpoints, FileSees
  <2>2. CASE ~Export
    BY <1>2, <1>5, <2>2 DEF ExportSteps, BeginExport, BeginVerify, SaveExport, Complete,
       NoCheckpoint, checkpoints
  <2> QED BY <2>1, <2>2
<1>6. CASE EnterPhase4 \/ WorkerCrash \/ Resume \/ Cancel \/ InstallModel
  BY <1>2, <1>6 DEF EnterPhase4, WorkerCrash, Resume, Cancel, InstallModel, Stays,
     NoCheckpoint, checkpoints
<1>7. CASE LoseFile
  <2>1. tts' = tts
    BY <1>7 DEF LoseFile, Stays, NoCheckpoint, checkpoints
  <2>2. ASSUME NEW f \in {"accompaniment", "timeline", "srt", "mp4"},
               file' = [file EXCEPT ![f] = Nothing]
        PROVE  file'.raw[b] = file.raw[b]
    BY <1>1, <2>2 DEF FileSees
  <2>3. ASSUME NEW c \in BlockIds, file' = [file EXCEPT !["fitted"][c] = Nothing]
        PROVE  file'.raw[b] = file.raw[b]
    BY <1>1, <2>3 DEF FileSees
  <2>4. ASSUME NEW c \in BlockIds, file' = [file EXCEPT !["raw"][c] = Nothing]
        PROVE  file'.raw[b] \in {file.raw[b], Nothing}
    <3>1. file'.raw = [file.raw EXCEPT ![c] = Nothing]
      BY <1>1, <2>4 DEF FileSees
    <3> QED BY <1>1, <3>1 DEF FileSees
  <2> QED BY <1>7, <2>1, <2>2, <2>3, <2>4 DEF LoseFile
<1> QED BY <1>3, <1>4, <1>5, <1>6, <1>7 DEF Next, Stage

(* Only blocks that are missing are synthesized.                           *)
LEMMA NarrationKeeps ==
    ASSUME IInv, NarrationSteps, NEW b \in BlockIds, TtsHere, Narrated(b)
    PROVE  file'.raw[b] \in {file.raw[b], Nothing} /\ tts'.blocks[b] = tts.blocks[b]
<1>1. CASE OpenNarration
  BY <1>1 DEF OpenNarration, NarrationReusable, TtsHere
<1>2. CASE Synthesize
  <2>1. tts' = tts
    BY <1>2 DEF Synthesize, NoCheckpoint, checkpoints
  <2>2. Missing \in SUBSET BlockIds /\ Missing # {}
    BY <1>2 DEF Synthesize, Missing
  <2>3. PICK c : c = Min(Missing)
    OBVIOUS
  <2>4. c # b
    BY <2>2, <2>3, MinIsMember DEF Missing
  <2>5. \/ UNCHANGED file
        \/ \E x : file' = [file EXCEPT !.raw[c] = x]
    BY <1>2, <2>3 DEF Synthesize, Calls
  <2>6. file'.raw[b] = file.raw[b]
    BY <2>4, <2>5 DEF IInv, FileSees
  <2> QED BY <2>1, <2>6
<1>3. CASE SaveNarration
  <2>1. tts' = [tts EXCEPT !.blocks[worker.on] = file.raw[worker.on]] /\ file' = file
    BY <1>3 DEF SaveNarration
  <2>2. tts.blocks[b] = file.raw[b]
    BY DEF Narrated
  <2>3. tts'.blocks[b] = IF b = worker.on THEN file.raw[worker.on] ELSE tts.blocks[b]
    BY <2>1 DEF IInv, TtsSees, TtsHere
  <2> QED BY <2>1, <2>2, <2>3
<1>4. CASE CloseNarration
  BY <1>4 DEF CloseNarration, NoCheckpoint, checkpoints
<1> QED BY <1>1, <1>2, <1>3, <1>4 DEF NarrationSteps

(* A rewrite replaces the text that is wanted, not what is narrated.       *)
LEMMA RewritingKeeps ==
    ASSUME IInv, RewriteSteps, TtsHere
    PROVE  file' = file /\ tts'.blocks = tts.blocks
<1>1. file' = file
  BY DEF RewriteSteps, SelectRewrite, GiveUpRewrite, RewriteText, Ledger, SemanticAccepted,
     SemanticRefused, SemanticFails, ClearTiming
<1>2. tts' = tts \/ \E entry : Rewritten(entry)
  BY DEF RewriteSteps, SelectRewrite, GiveUpRewrite, RewriteText, Ledger, SemanticAccepted,
     SemanticRefused, SemanticFails, ClearTiming, NoCheckpoint, checkpoints
<1>3. ASSUME NEW entry, Rewritten(entry) PROVE tts'.blocks = tts.blocks
  BY <1>3 DEF Rewritten, IInv, TtsSees, TtsHere
<1> QED BY <1>1, <1>2, <1>3

(* Narration that fits is not synthesized again.                           *)
THEOREM NarrationStays == Spec => NarrationIsKept
<1> DEFINE Keeps(b) == file'.raw[b] \in {file.raw[b], Nothing} /\ tts'.blocks[b] = tts.blocks[b]
<1>1. ASSUME IInv, [Next]_vars, NEW b \in BlockIds, tts # Nothing, tts.model = model, Narrated(b)
      PROVE  Keeps(b)
  <2>1. TtsHere
    BY <1>1 DEF TtsHere
  <2>2. CASE UNCHANGED vars
    BY <2>2 DEF vars, checkpoints
  <2>3. CASE Next /\ NarrationSteps
    BY <1>1, <2>1, <2>3, NarrationKeeps
  <2>4. CASE Next /\ RewriteSteps
    BY <1>1, <2>1, <2>4, RewritingKeeps
  <2>5. CASE Next /\ ~NarrationSteps /\ ~RewriteSteps
    BY <1>1, <2>5, OthersKeepNarration
  <2> QED BY <1>1, <2>2, <2>3, <2>4, <2>5
<1>2. IInv /\ [Next]_vars =>
        [\A b \in BlockIds : tts # Nothing /\ tts.model = model /\ Narrated(b) => Keeps(b)]_vars
  BY <1>1
<1> QED BY <1>2, Invariant, PTL DEF Spec, NarrationIsKept

=============================================================================
