-------------------------- MODULE NarrationTiming --------------------------
(***************************************************************************)
(* How narration is laid along the video (timing.py).  In the natural      *)
(* profile every block gets a slot near the scene it belongs to, at a      *)
(* speed between its own and MaxSpeed, or the planner names the blocks to  *)
(* be rewritten and how much shorter they have to be; in the strict        *)
(* profile the slot is the scene.  The blocks are then fitted into their   *)
(* slots and put on one track, and that is counted in whole samples.       *)
(*                                                                         *)
(* All times are in units of the timeline, of which Second make Rate       *)
(* samples; speeds are in parts of Unit, the speed of the synthesizer.     *)
(* The work of a block is its number of samples at the timeline's rate     *)
(* times its native speed: at speed s it takes work / s samples.           *)
(***************************************************************************)
EXTENDS Integers, Sequences, FiniteSetsExt

CONSTANTS
    Unit, MaxSpeed,     \* 1.00 and NATURAL_MAX_TOTAL_SPEED
    Slowdown,           \* minimum_slowdown of the fitter
    Delta,              \* NATURAL_MAX_ADJACENT_SPEED_DELTA
    Rate, Second,       \* TIMELINE_SAMPLE_RATE samples in 1 000 000 us
    Borrow,             \* NATURAL_BORROW_WINDOW_US
    SilentBorrow,       \* NATURAL_MAX_SILENT_BORROW_US
    Guard,              \* NATURAL_SILENT_GAP_GUARD_US
    Drift,              \* NATURAL_MAX_ELASTIC_CENTER_DRIFT_US
    Number,             \* number of blocks
    Gaps, Lengths,      \* of silence and of the source's speech
    Works               \* of the blocks

ASSUME TimingAssumption ==
    /\ {Unit, MaxSpeed, Slowdown, Rate, Second, Number} \subseteq Nat \ {0}
    /\ {Delta, Borrow, SilentBorrow, Guard, Drift} \subseteq Nat
    /\ Slowdown <= Unit /\ Unit <= MaxSpeed /\ Borrow <= SilentBorrow
    /\ Gaps \subseteq Nat /\ Lengths \cup Works \subseteq Nat \ {0}
    /\ \A length \in Lengths : length * Rate >= Second     \* a sample, at least

VARIABLES
    profile,    \* the timing profile of the job
    blocks,     \* what is narrated, in the order of the source
    duration,   \* of the video
    plan,       \* what plan_narration_slots returns or raises
    fitted,     \* what the fitter returned so far, in order
    track,      \* the timeline that was written
    error       \* raised by the fitter or by build_timeline_wav

vars == <<profile, blocks, duration, plan, fitted, track, error>>

-----------------------------------------------------------------------------
Ordinals == 1..Number
Unplanned == <<>>
Unwritten == <<>>
AtLeast(a, b) == Max({a, b})
AtMost(a, b) == Min({a, b})
CeilDiv(a, b) == (a + b - 1) \div b

(* Mutant: rounded down, as a timestamp would be. *)
DurationAtFloor(w, speed) == AtLeast(1, (CeilDiv(w.work, speed) * Second) \div Rate)

(* Whole samples first, then whole units that hold them. *)
DurationAt(w, speed) == AtLeast(1, CeilDiv(CeilDiv(w.work, speed) * Second, Rate))

Fastest(ws) == [i \in DOMAIN ws |-> MaxSpeed]

(* The least speed in lo..hi that will do, if every greater one will do    *)
(* too: low and high after each round, of which hi - lo are enough.        *)
Bisect(fits, lo, hi) ==
    LET bounds[n \in 0..(hi - lo)] ==
            IF n = 0 THEN <<lo, hi>>
            ELSE LET low == bounds[n - 1][1]
                     high == bounds[n - 1][2]
                     candidate == (low + high) \div 2
                 IN IF low >= high THEN bounds[n - 1]
                    ELSE IF candidate \in fits THEN <<low, candidate>>
                    ELSE <<candidate + 1, high>>
    IN bounds[hi - lo][1]

-----------------------------------------------------------------------------
(* One pass over the windows from the left, each block as early as it can. *)

Cursor(ws, speeds) ==
    LET cursor[i \in 0..Len(ws)] ==
            IF i = 0 THEN 0
            ELSE AtLeast(ws[i].lower, cursor[i - 1]) + DurationAt(ws[i], speeds[i])
    IN cursor

(* _first_schedule_failure: 0 when every block ends inside its window. *)
FirstFailure(ws, speeds) ==
    LET late == {i \in DOMAIN ws : Cursor(ws, speeds)[i] > ws[i].upper}
    IN IF late = {} THEN 0 ELSE Min(late)

Available(ws, i) ==
    AtLeast(0, ws[i].upper - AtLeast(ws[i].lower, Cursor(ws, Fastest(ws))[i - 1]))

(* _critical_group_start_index: the last block before the failure that     *)
(* does not have to wait for the one before it.                            *)
GroupStart(ws, failure) ==
    Max({i \in 1..failure : Cursor(ws, Fastest(ws))[i - 1] <= ws[i].lower})

(* _raise_rewrite_required; deficit 0 stands for none given. *)
Refusal(ws, failure, available, deficit, kind) ==
    [refused |-> kind,
     failure |-> ws[failure].ordinal,
     start |-> ws[GroupStart(ws, failure)].ordinal,
     deficit |-> AtLeast(1, IF deficit = 0
                            THEN DurationAt(ws[failure], MaxSpeed) - available
                            ELSE deficit)]

-----------------------------------------------------------------------------
(* Where chains of windows begin: those that touch no window before them,  *)
(* and those that are far from the one before them.                        *)

ReachOf(ws) ==
    LET reach[i \in DOMAIN ws] ==
            IF i = 1 THEN ws[1].upper ELSE AtLeast(reach[i - 1], ws[i].upper)
    IN reach

(* _independent_natural_chains *)
Begins(ws, i) == i = 1 \/ ws[i].lower >= ReachOf(ws)[i - 1]
ChainStarts(ws) == {i \in DOMAIN ws : Begins(ws, i)}
ChainEnd(ws, i) ==
    Min({k - 1 : k \in {k \in ChainStarts(ws) : k > i}} \cup {Len(ws)})

(* _nearby_natural_chains *)
Near(ws, i) == i > 1 /\ ws[i].lower - ws[i - 1].upper <= 2 * Borrow

(* Mutant: the whole chain keeps the speeds its blocks need alone. *)
LevelOfEach(ws, own) == Unit

(* The speed at which all blocks of a chain fit, if they have to share. *)
Level(ws, own) ==
    IF FirstFailure(ws, own) = 0 THEN Unit
    ELSE Bisect({s \in Unit..MaxSpeed :
                    FirstFailure(ws, [i \in DOMAIN ws |-> AtLeast(own[i], s)]) = 0},
                Unit, MaxSpeed)

(* Neighbours are raised, never slowed, until no step is above Delta. *)
Smoothed(ws, speeds) ==
    LET forward[i \in DOMAIN ws] ==
            IF Near(ws, i) THEN AtLeast(speeds[i], forward[i - 1] - Delta) ELSE speeds[i]
        backward[i \in DOMAIN ws] ==
            IF i < Len(ws) /\ Near(ws, i + 1)
            THEN AtLeast(forward[i], backward[i + 1] - Delta) ELSE forward[i]
    IN backward

(* When a block has to begin, so that it and all after it end in time. *)
Latest(ws, length) ==
    LET latest[i \in DOMAIN ws] ==
            IF i = Len(ws) THEN ws[i].upper - length[i]
            ELSE AtMost(ws[i].upper, latest[i + 1]) - length[i]
    IN latest

(* _centered_natural_schedule: as near to the scene as the order allows. *)
Centered(ws, speeds) ==
    LET length == [i \in DOMAIN ws |-> DurationAt(ws[i], speeds[i])]
        latest == Latest(ws, length)
        start[i \in DOMAIN ws] ==
            LET lower == IF i = 1 THEN ws[1].lower
                         ELSE AtLeast(ws[i].lower, start[i - 1] + length[i - 1])
            IN AtMost(AtLeast(ws[i].center - length[i] \div 2, lower), latest[i])
    IN [i \in DOMAIN ws |-> [start |-> start[i], end |-> start[i] + length[i]]]

-----------------------------------------------------------------------------
(* _plan_natural_windows.                                                  *)

TooShort(ws) == {i \in DOMAIN ws : DurationAt(ws[i], MaxSpeed) > ws[i].upper - ws[i].lower}

OwnSpeeds(ws) ==
    [i \in DOMAIN ws |->
        Bisect({s \in Unit..MaxSpeed : DurationAt(ws[i], s) <= ws[i].upper - ws[i].lower},
               Unit, MaxSpeed)]

PlanWindows(ws) ==
    LET Chain(i) == SubSeq(ws, i, ChainEnd(ws, i))
        Fails(i) == FirstFailure(Chain(i), Fastest(Chain(i)))
        crowded == {i \in ChainStarts(ws) : Fails(i) # 0}
        own == OwnSpeeds(ws)
        LevelAt(i) == Level(Chain(i), SubSeq(own, i, ChainEnd(ws, i)))
        level == [i \in DOMAIN ws |-> LevelAt(Max({k \in ChainStarts(ws) : k <= i}))]
        speeds == Smoothed(ws, [i \in DOMAIN ws |-> AtLeast(own[i], level[i])])
    IN CASE TooShort(ws) # {} ->
              LET one == SubSeq(ws, Min(TooShort(ws)), Min(TooShort(ws)))
              IN Refusal(one, 1, one[1].upper - one[1].lower, 0, "capacity")
         [] TooShort(ws) = {} /\ crowded # {} ->
              LET chain == Chain(Min(crowded))
                  failure == Fails(Min(crowded))
              IN Refusal(chain, failure, Available(chain, failure), 0, "capacity")
         [] TooShort(ws) = {} /\ crowded = {} /\ FirstFailure(ws, speeds) # 0 ->
              Refusal(ws, FirstFailure(ws, speeds), 0, 0, "unexpected")
         [] OTHER -> [refused |-> "no", speeds |-> speeds, slots |-> Centered(ws, speeds)]

Window(i) ==
    [ordinal |-> i,
     lower |-> AtLeast(0, blocks[i].start - Borrow),
     upper |-> AtMost(duration, blocks[i].end + Borrow),
     center |-> (blocks[i].start + blocks[i].end) \div 2,
     work |-> blocks[i].work]

Base == [i \in Ordinals |-> Window(i)]

(* _elastic_natural_windows: more of the silence around, not of speech. *)
Stretched(i) ==
    LET floor == IF i = 1 THEN 0 ELSE blocks[i - 1].end + Guard
        ceiling == IF i = Number THEN duration ELSE blocks[i + 1].start - Guard
        least == AtLeast(0, blocks[i].start - SilentBorrow)
        most == AtMost(duration, blocks[i].end + SilentBorrow)
    IN [Base[i] EXCEPT !.lower = AtMost(@, AtLeast(least, floor)),
                       !.upper = AtLeast(@, AtMost(most, ceiling))]

Elastic == [i \in Ordinals |-> Stretched(i)]

Distance(a, b) == AtLeast(a - b, b - a)
CenterOf(slot) == (slot.start + slot.end) \div 2
DriftOf(i, slot) == Distance(CenterOf(slot), Base[i].center)
Meets(i, slot) == slot.end > Base[i].lower /\ slot.start < Base[i].upper

(* Mutant: how far a slot went is not looked at again. *)
NotLocalNever(p) == {}

(* _postvalidate_elastic_schedule: a slot must still meet the window it    *)
(* would have had, and stay near its scene.  What it checks of geometry    *)
(* and speed the schedule keeps; PlanIsSound says so.                      *)
NotLocal(p) ==
    {i \in Ordinals : ~Meets(i, p.slots[i]) \/ DriftOf(i, p.slots[i]) > Drift}

LocalityDeficit(i, slot) ==
    IF Meets(i, slot) THEN AtLeast(1, DriftOf(i, slot) - Drift)
    ELSE IF slot.end <= Base[i].lower THEN Base[i].lower - slot.end + 1
    ELSE slot.start - Base[i].upper + 1

(* plan_narration_slots, and the second call of _ensure_timing that lends  *)
(* the silence when the first refuses.                                     *)
PlanStrict ==
    [refused |-> "no",
     slots |-> [i \in Ordinals |-> [start |-> blocks[i].start, end |-> blocks[i].end]]]

PlanNatural ==
    LET base == PlanWindows(Base)
        elastic == PlanWindows(Elastic)
    IN CASE base.refused = "no" -> base
         [] base.refused # "no" /\ elastic.refused # "no" -> elastic
         [] OTHER ->
              IF NotLocal(elastic) = {} THEN elastic
              ELSE LET i == Min(NotLocal(elastic)) IN
                   Refusal(Elastic, i, 0, LocalityDeficit(i, elastic.slots[i]), "locality")

-----------------------------------------------------------------------------
(* Blocks that follow one another, with some silence before each of them   *)
(* and after the last.                                                     *)
Inputs ==
    [gap : [1..(Number + 1) -> Gaps], length : [Ordinals -> Lengths],
     work : [Ordinals -> Works]]

BlocksOf(input) ==
    LET end[i \in 0..Number] ==
            IF i = 0 THEN 0 ELSE end[i - 1] + input.gap[i] + input.length[i]
    IN [i \in Ordinals |-> [start |-> end[i] - input.length[i], end |-> end[i],
                            work |-> input.work[i]]]

Init ==
    /\ profile \in {"natural", "strict"}
    /\ \E input \in Inputs :
          /\ blocks = BlocksOf(input)
          /\ duration = blocks[Number].end + input.gap[Number + 1]
    /\ plan = Unplanned /\ fitted = <<>> /\ track = Unwritten /\ error = "none"

PlanNarrationSlots ==
    /\ plan = Unplanned
    /\ plan' = IF profile = "strict" THEN PlanStrict ELSE PlanNatural
    /\ UNCHANGED <<profile, blocks, duration, fitted, track, error>>

Planned == plan # Unplanned /\ plan.refused = "no"
Refused == plan # Unplanned /\ plan.refused # "no"

(* microseconds_to_samples: to the nearest sample. *)
Samples(time) == (time * Rate + Second \div 2) \div Second

Frames(slot) == Samples(slot.end) - Samples(slot.start)

(* The frames of a block slowed down as far as it may be. *)
Slowest(i) == (2 * blocks[i].work + Slowdown) \div (2 * Slowdown)

(* FfmpegTimingFitter.fit measures the speed again, in samples.  Narration *)
(* shorter than its slot is slowed down, and what is left is silence.      *)
FitBlock ==
    /\ Planned /\ error = "none"
    /\ Len(fitted) < Number
    /\ LET i == Len(fitted) + 1
           slot == plan.slots[i]
           target == Frames(slot)
       IN IF target <= 0
          THEN error' = "timing_slot_too_short" /\ UNCHANGED fitted
          ELSE IF profile = "natural" /\ blocks[i].work > MaxSpeed * target
          THEN error' = "timing_rewrite_required" /\ UNCHANGED fitted
          ELSE /\ fitted' = Append(fitted, [start |-> slot.start, end |-> slot.end,
                                            frames |-> target,
                                            padded |-> AtLeast(0, target - Slowest(i))])
               /\ UNCHANGED error
    /\ UNCHANGED <<profile, blocks, duration, plan, track>>

EndBefore(i) == IF i = 1 THEN 0 ELSE fitted[i - 1].end
Silence(i) == Samples(IF i <= Number THEN fitted[i].start ELSE duration)
                - Samples(EndBefore(i))

(* build_timeline_wav: silence, a block, silence, ... to the last frame. *)
BuildTimeline ==
    /\ error = "none" /\ track = Unwritten
    /\ Len(fitted) = Number
    /\ IF \/ \E i \in Ordinals : fitted[i].start < EndBefore(i) \/ fitted[i].end > duration
          \/ \E i \in 1..(Number + 1) : Silence(i) < 0
       THEN error' = "timeline_overlap" /\ UNCHANGED track
       ELSE IF \E i \in Ordinals : Frames(fitted[i]) # fitted[i].frames
       THEN error' = "timeline_slot_mismatch" /\ UNCHANGED track
       ELSE /\ track' = [silence |-> [i \in 1..(Number + 1) |-> Silence(i)],
                         speech |-> [i \in Ordinals |-> fitted[i].frames]]
            /\ UNCHANGED error
    /\ UNCHANGED <<profile, blocks, duration, plan, fitted>>

Next == PlanNarrationSlots \/ FitBlock \/ BuildTimeline
Spec == Init /\ [][Next]_vars

-----------------------------------------------------------------------------
(* Properties.                                                             *)

(* The samples of the track up to the end of each block. *)
WrittenUpTo[i \in 0..Number] ==
    IF i = 0 THEN 0 ELSE WrittenUpTo[i - 1] + track.silence[i] + track.speech[i]

(* A plan can be carried out: after both ends of every slot are rounded to *)
(* samples, the fitter, which measures the speed again, refuses no block   *)
(* the planner let pass, the blocks do not overlap on the track, and the   *)
(* track is as long as the video.  In the natural profile no two           *)
(* neighbours, unless a long silence is between them, differ by more than  *)
(* Delta, and the smoothing hurries none above MaxSpeed.                   *)
PlanIsSound ==
    /\ error = "none"
    /\ track # Unwritten =>
         WrittenUpTo[Number] + track.silence[Number + 1] = Samples(duration)
    /\ Planned /\ profile = "natural" =>
         \A i \in Ordinals :
            /\ plan.speeds[i] \in Unit..MaxSpeed
            /\ i > 1 /\ blocks[i].start - blocks[i - 1].end <= 4 * Borrow
                 => Distance(plan.speeds[i], plan.speeds[i - 1]) <= Delta

(* README.md: more silence is borrowed without going through the speech of *)
(* the source or a neighbouring block, and the narration stays within      *)
(* Drift of its scene.  What a slot takes beyond the window every block    *)
(* has keeps Guard away from the speech of every other block.              *)
SilenceOnlyIsLent ==
    Planned =>
        \A i \in Ordinals :
            LET slot == plan.slots[i] IN
            /\ slot.start < Base[i].lower =>
                 /\ DriftOf(i, slot) <= Drift
                 /\ \A k \in 1..(i - 1) : blocks[k].end + Guard <= slot.start
            /\ slot.end > Base[i].upper =>
                 /\ DriftOf(i, slot) <= Drift
                 /\ \A k \in (i + 1)..Number : slot.end <= blocks[k].start - Guard

(* The time blocks i to k need at full speed, and what there is for them.  *)
NeededUpTo(ws) ==
    LET needed[k \in 0..Number] ==
            IF k = 0 THEN 0 ELSE needed[k - 1] + DurationAt(ws[k], MaxSpeed)
    IN needed
Needed(ws, i, k) == NeededUpTo(ws)[k] - NeededUpTo(ws)[i - 1]
Room(ws, i, k) == ws[k].upper - ws[i].lower

(* A rewrite is asked for only when it is needed: a refusal names a run of *)
(* blocks that needs, even at full speed, exactly deficit more than there  *)
(* is between the beginning of its first window and the end of its last,   *)
(* silence included, unless a slot would have gone too far from its scene. *)
(* And then the windows without silence were overcrowded too: whatever     *)
(* can be planned is planned.                                              *)
RefusedIsOvercrowded ==
    Refused =>
        /\ plan.refused \in {"capacity", "locality"}
        /\ plan.start <= plan.failure
        /\ plan.refused = "capacity" =>
             Needed(Elastic, plan.start, plan.failure)
               = Room(Elastic, plan.start, plan.failure) + plan.deficit
        /\ \E i, k \in Ordinals : i <= k /\ Needed(Base, i, k) > Room(Base, i, k)

=============================================================================
