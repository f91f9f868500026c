-------------------------- MODULE TranslationBlocks --------------------------
(***************************************************************************)
(* build_translation_blocks (translation.py): the segments of a transcript *)
(* are split until the model can take them and merged until none is too    *)
(* short to be spoken.                                                     *)
(*                                                                         *)
(* A text is a sequence of words, each one token and one letter, with a    *)
(* space between two of them and no punctuation.  Segments come from a     *)
(* transcript that was validated when it was read: they are in order, do   *)
(* not overlap, end inside the media and say something, so that clamping   *)
(* and de-overlapping change nothing.                                      *)
(***************************************************************************)
EXTENDS Integers, SequencesExt

CONSTANTS
    MaxDuration, MaxTokens,     \* of a block
    MandatoryMerge,             \* mandatory_merge_us
    ShortMerge, MaxMergeGap     \* short_merge_us, max_merge_gap_us

ASSUME TranslationBlocksAssumption ==
    /\ {MaxDuration, MaxTokens} \subseteq Nat \ {0}
    /\ {MandatoryMerge, ShortMerge, MaxMergeGap} \subseteq Nat
    /\ MandatoryMerge <= ShortMerge

-----------------------------------------------------------------------------
Built(blocks) == [error |-> "none", blocks |-> blocks]
Refused(code) == [error |-> code, blocks |-> <<>>]

(* Op(value), which TLC evaluates once however often Op uses it. *)
Apply(Op(_), value) == CHOOSE result \in {Op(v) : v \in {value}} : TRUE

Lasts(block) == block.end - block.start
Letters(words) == 2 * words - 1

(* Python's round: to the nearest, and from the middle to the even one. *)
Rounded(a, b) ==
    LET below == a \div b IN
    IF 2 * (a % b) > b \/ (2 * (a % b) = b /\ below % 2 = 1) THEN below + 1 ELSE below

-----------------------------------------------------------------------------
(* Splitting.                                                              *)

WithinLimits(block) == Lasts(block) <= MaxDuration /\ Len(block.text) <= MaxTokens

(* _preferred_cut: at the space nearest to the middle. *)
LeftWords(text) == (Len(text) + 1) \div 2

MaySplit(block) == Len(block.text) > 1 /\ Lasts(block) > 1

(* _split_block_once: time is shared in proportion to the letters. *)
SplitTime(block) ==
    LET left == Letters(LeftWords(block.text))
        right == Letters(Len(block.text) - LeftWords(block.text))
    IN Min({block.end - 1,
            Max({block.start + 1,
                 block.start + Rounded(Lasts(block) * left, left + right)})})

(* Mutant: the word at the cut is dropped with the space. *)
HalvesDropWord(block) ==
    LET words == LeftWords(block.text) IN
    <<[start |-> block.start, end |-> SplitTime(block),
       text |-> SubSeq(block.text, 1, words)],
      [start |-> SplitTime(block), end |-> block.end,
       text |-> SubSeq(block.text, words + 2, Len(block.text))]>>

Halves(block) ==
    LET words == LeftWords(block.text) IN
    <<[start |-> block.start, end |-> SplitTime(block),
       text |-> SubSeq(block.text, 1, words)],
      [start |-> SplitTime(block), end |-> block.end,
       text |-> SubSeq(block.text, words + 1, Len(block.text))]>>

(* _split_to_limits, level by level: a text of n words is in pieces of one *)
(* word after n levels.                                                    *)
SplitOnce(blocks) ==
    FlattenSeq([i \in DOMAIN blocks |->
        IF WithinLimits(blocks[i]) \/ ~MaySplit(blocks[i])
        THEN <<blocks[i]>> ELSE Halves(blocks[i])])

SplitToLimits(segment) ==
    LET pieces[level \in 0..Len(segment.text)] ==
            IF level = 0 THEN <<segment>>
            ELSE Apply(SplitOnce, pieces[level - 1])
    IN pieces[Len(segment.text)]

Pieces(segments) == FlattenSeq([i \in DOMAIN segments |-> SplitToLimits(segments[i])])

-----------------------------------------------------------------------------
(* Merging.  Both loops walk the blocks with an index that steps back when *)
(* a block goes into the one before it; they end within twice as many      *)
(* rounds as there are blocks.                                             *)

Merge(left, right) ==
    [start |-> left.start, end |-> right.end, text |-> left.text \o right.text]

MergeAt(blocks, i) ==
    SubSeq(blocks, 1, i - 1) \o <<Merge(blocks[i], blocks[i + 1])>>
        \o SubSeq(blocks, i + 2, Len(blocks))

(* _can_merge of block i and the next, if there is one. *)
CanMerge(blocks, i) ==
    /\ i \in 1..(Len(blocks) - 1)
    /\ WithinLimits(Merge(blocks[i], blocks[i + 1]))

GapAfter(blocks, i) == blocks[i + 1].start - blocks[i].end

Onward(walk) == [walk EXCEPT !.at = @ + 1]
MergedRight(walk) == [walk EXCEPT !.blocks = MergeAt(@, walk.at)]
MergedLeft(walk) ==
    [walk EXCEPT !.blocks = MergeAt(@, walk.at - 1), !.at = Max({@ - 1, 1})]

Stopped(walk) == walk.stuck \/ walk.at > Len(walk.blocks)

Walk(Round(_), blocks) ==
    LET walk[n \in 0..(2 * Len(blocks))] ==
            IF n = 0 THEN [stuck |-> FALSE, blocks |-> blocks, at |-> 1]
            ELSE Apply(LAMBDA before : IF Stopped(before) THEN before ELSE Round(before),
                       walk[n - 1])
    IN walk[2 * Len(blocks)]

(* _merge_mandatory_short_blocks: with the nearer neighbour, the one       *)
(* before if both are as near.                                             *)
MandatoryRound(walk) ==
    LET left == CanMerge(walk.blocks, walk.at - 1)
        right == CanMerge(walk.blocks, walk.at)
        nearer == GapAfter(walk.blocks, walk.at - 1) <= GapAfter(walk.blocks, walk.at)
    IN IF Lasts(walk.blocks[walk.at]) >= MandatoryMerge THEN Onward(walk)
       ELSE IF left /\ (~right \/ nearer) THEN MergedLeft(walk)
       ELSE IF right THEN MergedRight(walk)
       ELSE [walk EXCEPT !.stuck = TRUE]

(* _merge_optional_short_blocks: only over a small gap, the next first. *)
OptionalRound(walk) ==
    LET Near(i) == CanMerge(walk.blocks, i) /\ GapAfter(walk.blocks, i) <= MaxMergeGap
    IN IF Lasts(walk.blocks[walk.at]) >= ShortMerge THEN Onward(walk)
       ELSE IF Near(walk.at) THEN MergedRight(walk)
       ELSE IF Near(walk.at - 1) THEN MergedLeft(walk)
       ELSE Onward(walk)

-----------------------------------------------------------------------------
(* _validate_block_sequence *)
ValidSequence(blocks) ==
    /\ \A i \in DOMAIN blocks : WithinLimits(blocks[i])
    /\ \A i \in 1..(Len(blocks) - 1) : GapAfter(blocks, i) >= 0

Validated(walk) ==
    IF walk.stuck THEN Refused("translation_short_block_unmergeable")
    ELSE IF ~ValidSequence(walk.blocks) THEN Refused("translation_timeline_invalid")
    ELSE Built(walk.blocks)

Spoken(pieces) ==
    Apply(LAMBDA walk : IF walk.stuck THEN walk ELSE Walk(OptionalRound, walk.blocks),
          Walk(MandatoryRound, pieces))

BuildTranslationBlocks(segments) ==
    Apply(LAMBDA pieces : IF \A i \in DOMAIN pieces : WithinLimits(pieces[i])
                          THEN Apply(Validated, Spoken(pieces))
                          ELSE Refused("translation_block_too_long"),
          Pieces(segments))

Words(blocks) == FlattenSeq([i \in DOMAIN blocks |-> blocks[i].text])

(* What the blocks are good for: every word is in one of them, in order,   *)
(* none is above the limits or too short, and they do not overlap.         *)
SaysAll(blocks, segments) ==
    /\ Words(blocks) = Words(segments)
    /\ \A b \in DOMAIN blocks :
          /\ Lasts(blocks[b]) \in MandatoryMerge..MaxDuration
          /\ Len(blocks[b].text) <= MaxTokens
          /\ b > 1 => blocks[b - 1].end <= blocks[b].start

=============================================================================
