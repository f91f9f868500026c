----------------------------- MODULE RowProofs ------------------------------
(***************************************************************************)
(* Lemmas about the rows of the jobs table, whoever writes them: what the  *)
(* columns of a row say of each other (RowOK), which rewrites a row may    *)
(* undergo (Move), that every rewrite of update_status, request_cancel,    *)
(* finalize_cancel, resume and the commits is one, and what a move means   *)
(* in the life cycle of JobLifecycle.  The proofs about JobStore,          *)
(* OfflineControl, DownloadControl, TextStages and Phase4Stages rest on    *)
(* them.                                                                   *)
(***************************************************************************)
EXTENDS JobRows, TLAPS

(* The columns of one row agree. *)
RowOK(r) ==
    \/ r = NoRow
    \/ /\ r \in Row
       /\ r.status \in Live => r.slot
       /\ r.slot => r.status \in Active
       /\ r.cancel <=> r.status \in Cancelled
       /\ r.status \in Parked <=> r.previous # "none"
       /\ r.previous \in Live \cup {"PAUSED", "none"}

(* A row may be replaced by q. *)
Move(r, q) ==
    /\ q # NoRow
    /\ RowOK(q)
    /\ r.status \in Cancelled => q.status \in Cancelled
    /\ r.status \in Terminal => q.status = r.status
    /\ q.status = "CANCELLING" => q.slot = r.slot
    /\ q.status = "CANCELLED" => r.status \in Cancelled
    /\ q.status = "COMPLETED" => r.status \in Live \cup {"COMPLETED"}
    /\ r = NoRow => q.status \in Live

-----------------------------------------------------------------------------
(* The status graph never leads from a live status back to a wait before   *)
(* CREATED or out of the live and completed ones.                          *)
LEMMA ForwardRange ==
    \A s \in Live : Forward[s] \subseteq Live \cup {"COMPLETED"}
<1> DEFINE Good(t) == t \in Live \cup {"COMPLETED"}
           Acquiring == {"CREATED", "SEARCHING", "AWAITING_RELEASE_SELECTION",
                         "DOWNLOADING", "SUBTITLE_MATCHING", "NEEDS_SUBTITLE_SELECTION"}
           Texts == {"READY_OFFLINE", "TRANSCRIBING", "SUBTITLE_SELECTED",
                     "NEEDS_LANGUAGE", "READY_TRANSLATION", "TRANSLATING"}
           Dubbing == {"READY_TTS", "SEPARATING", "SYNTHESIZING", "TIMING", "MIXING",
                       "MUXING", "VERIFYING"}
<1>1. Live = Acquiring \cup Texts \cup Dubbing
  BY DEF Live, Active, Cancelled
<1>2. ASSUME NEW s \in Acquiring PROVE \A t \in Forward[s] : Good(t)
  <2>1. Forward.CREATED \cup Forward.SEARCHING \cup Forward.AWAITING_RELEASE_SELECTION
            \subseteq Acquiring
    BY DEF Forward
  <2>2. Forward.DOWNLOADING \cup Forward.SUBTITLE_MATCHING
            \cup Forward.NEEDS_SUBTITLE_SELECTION \subseteq Acquiring \cup Texts
    BY DEF Forward
  <2> QED BY <1>1, <2>1, <2>2
<1>3. ASSUME NEW s \in Texts PROVE \A t \in Forward[s] : Good(t)
  <2>1. Forward.READY_OFFLINE \cup Forward.TRANSCRIBING \cup Forward.SUBTITLE_SELECTED
            \subseteq Texts
    BY DEF Forward
  <2>2. Forward.NEEDS_LANGUAGE \cup Forward.READY_TRANSLATION
            \cup Forward.TRANSLATING \subseteq Texts \cup Dubbing
    BY DEF Forward
  <2> QED BY <1>1, <2>1, <2>2
<1>4. ASSUME NEW s \in Dubbing PROVE \A t \in Forward[s] : Good(t)
  <2>1. Forward.READY_TTS \cup Forward.SEPARATING \cup Forward.SYNTHESIZING
            \subseteq Dubbing
    BY DEF Forward
  <2>2. Forward.TIMING \cup Forward.MIXING \subseteq Dubbing
    BY DEF Forward
  <2>3. Forward.MUXING \cup Forward.VERIFYING \subseteq Dubbing \cup {"COMPLETED"}
    BY DEF Forward
  <2> QED BY <1>1, <2>1, <2>2, <2>3
<1> QED
  BY <1>1, <1>2, <1>3, <1>4

(* Where update_status lets a row go without force.                        *)
LEMMA UnforcedRange ==
    ASSUME NEW r \in Row, NEW s \in Statuses, MayBecome(r, s, FALSE)
    PROVE  \/ s = r.status
           \/ s = "CANCELLING" /\ r.status \notin Terminal
           \/ r.status \in Live
           \/ r.status \in Parked \cup {"CANCELLING"} /\ s = "CANCELLED"
BY DEF MayBecome, Transitions, Row

(* NoRow is not a row. *)
LEMMA NoRowIsNoRow == NoRow \notin Row /\ ~NoRow.slot /\ NoRow.status = "absent"
BY DEF NoRow, Row, Statuses, Active, Parked, Terminal

(* The columns update_status derives keep a row OK when the new flag       *)
(* agrees with the new status and a parked row is entered from a live one  *)
(* or from PAUSED.                                                         *)
LEMMA UpdatedRowOK ==
    ASSUME NEW r \in Row, RowOK(r), NEW s \in Statuses,
           NEW retryable \in BOOLEAN, NEW cancel \in BOOLEAN,
           cancel <=> s \in Cancelled,
           s \in Parked => r.status = s \/ r.status \in Live \cup {"PAUSED"},
           s = "CANCELLING" => r.status \notin Terminal
    PROVE  RowOK(UpdatedRow(r, s, retryable, cancel)) /\
           UpdatedRow(r, s, retryable, cancel) \in Row
<1> DEFINE q == UpdatedRow(r, s, retryable, cancel)
<1>1. r.status \in Statuses /\ r.previous \in Statuses \cup {"none"}
      /\ r.slot \in BOOLEAN /\ r # NoRow
  BY NoRowIsNoRow DEF Row
<1>2. q.status = s /\ q.previous = PreviousAfter(r, s) /\ q.slot = SlotAfter(r, s)
      /\ q.cancel = cancel /\ q.retryable = retryable
  BY DEF UpdatedRow
<1>3. /\ q.previous \in Live \cup {"PAUSED", "none"}
      /\ s \in Parked <=> q.previous # "none"
  BY <1>1, <1>2
  DEF PreviousAfter, RowOK, Row, Statuses, Live, Active, Parked, Terminal, Cancelled
<1>4. q.slot \in BOOLEAN /\ (s \in Live => q.slot) /\ (q.slot => s \in Active)
  <2>1. CASE s = "CANCELLING"
    <3>1. q.slot = r.slot
      BY <1>2, <2>1 DEF SlotAfter
    <3>2. s \notin Live /\ s \in Active
      BY <2>1 DEF Live, Active, Cancelled
    <3> QED BY <1>1, <3>1, <3>2
  <2>2. CASE s # "CANCELLING"
    <3>1. q.slot <=> s \in Active
      BY <1>2, <2>2, Zenon DEF SlotAfter
    <3>2. (s \in Active) \in BOOLEAN
      OBVIOUS
    <3>3. q.slot = (s \in Active)
      BY <1>2, <2>2, Zenon DEF SlotAfter
    <3>4. q.slot \in BOOLEAN
      BY <3>2, <3>3, Zenon
    <3> QED BY <3>1, <3>4 DEF Live
  <2> QED BY <2>1, <2>2
<1>5. q.previous \in Statuses \cup {"none"}
  BY <1>3 DEF Statuses, Live, Parked
<1>6. q \in Row
  BY <1>2, <1>4, <1>5 DEF UpdatedRow, Row
<1> QED
  BY <1>2, <1>3, <1>4, <1>6 DEF RowOK

-----------------------------------------------------------------------------
(* The writes of the operations are moves.                                 *)

(* create_job and create_ready_offline_job.                                *)
LEMMA InsertedMove ==
    ASSUME NEW s \in {"CREATED", "READY_OFFLINE"}
    PROVE  Move(NoRow, InsertedRow(s))
<1>1. InsertedRow(s) \in Row
  BY DEF InsertedRow, NoRow, Row, Statuses, Active
<1>2. RowOK(InsertedRow(s))
  BY <1>1 DEF RowOK, InsertedRow, NoRow, Live, Active, Cancelled, Parked
<1> QED
  BY <1>1, <1>2, NoRowIsNoRow
  DEF Move, Live, Active, Cancelled, Terminal, InsertedRow, NoRow

(* update_status without force, to a status that is not a cancellation and *)
(* with cancel_requested untouched.                                        *)
LEMMA UnforcedMove ==
    ASSUME NEW r \in Row, RowOK(r), NEW s \in Statuses \ Cancelled,
           NEW retryable \in BOOLEAN, MayBecome(r, s, FALSE)
    PROVE  Move(r, UpdatedRow(r, s, retryable, r.cancel))
<1>1. r.status \in Live \/ s = r.status
  BY UnforcedRange DEF Cancelled
<1>2. r.status \in Cancelled => s \in Cancelled
  BY <1>1 DEF Live
<1>3. r.status \in Terminal => s = r.status
  BY <1>1 DEF Live, Active, Terminal, Cancelled
<1>4. r.cancel \in BOOLEAN /\ (r.cancel <=> r.status \in Cancelled) /\ ~r.cancel
  BY <1>1, NoRowIsNoRow DEF RowOK, Row, Live
<1>5. RowOK(UpdatedRow(r, s, retryable, r.cancel))
      /\ UpdatedRow(r, s, retryable, r.cancel) \in Row
  BY <1>1, <1>4, UpdatedRowOK DEF Cancelled
<1> QED
  BY <1>1, <1>2, <1>3, <1>5, NoRowIsNoRow DEF Move, UpdatedRow, Cancelled

(* update_status by force, from a parked or live status to a live one, or  *)
(* from PAUSED to FAILED.                                                  *)
LEMMA ForcedMove ==
    ASSUME NEW r \in Row, RowOK(r), NEW s \in Statuses,
           NEW retryable \in BOOLEAN,
           r.status \notin Cancelled \cup Terminal,
           s \in Live \/ (s = "FAILED" /\ r.status = "PAUSED")
    PROVE  Move(r, UpdatedRow(r, s, retryable, FALSE)) /\ ~r.cancel
<1>1. r.cancel \in BOOLEAN /\ ~r.cancel
  BY NoRowIsNoRow DEF RowOK, Row
<1>2. s \notin Cancelled /\ s \notin {"PAUSED", "CANCELLING"}
      /\ (s \in Parked => r.status = "PAUSED")
  BY DEF Live, Active, Cancelled, Parked
<1>3. RowOK(UpdatedRow(r, s, retryable, FALSE))
      /\ UpdatedRow(r, s, retryable, FALSE) \in Row
  BY <1>2, UpdatedRowOK
<1> QED
  BY <1>1, <1>2, <1>3, NoRowIsNoRow DEF Move, UpdatedRow, Live, Active, Cancelled

(* request_cancel and finalize_cancel.                                     *)
LEMMA CancelMove ==
    ASSUME NEW r \in Row, RowOK(r), NEW s \in Cancelled,
           MayBecome(r, s, FALSE),
           s = "CANCELLED" => r.status \in Cancelled
    PROVE  Move(r, UpdatedRow(r, s, FALSE, TRUE))
<1>1. s \in Statuses /\ s \notin Parked
  BY DEF Cancelled, Statuses, Active, Parked, Terminal
<1>2. r.status \in Terminal => s = r.status
  BY <1>1, UnforcedRange DEF Terminal, Live, Active, Cancelled, Parked
<1>3. s = "CANCELLING" => r.status \notin Terminal
  BY <1>2 DEF Terminal
<1>4. RowOK(UpdatedRow(r, s, FALSE, TRUE)) /\ UpdatedRow(r, s, FALSE, TRUE) \in Row
  BY <1>1, <1>3, UpdatedRowOK
<1>5. s = "CANCELLING" => UpdatedRow(r, s, FALSE, TRUE).slot = r.slot
  BY DEF UpdatedRow, SlotAfter
<1> QED
  BY <1>2, <1>4, <1>5, NoRowIsNoRow DEF Move, UpdatedRow, Cancelled

(* A commit moves one live status to another.                              *)
LEMMA CommitMove ==
    ASSUME NEW r, RowOK(r), r.status \in Live, NEW s \in Live
    PROVE  Move(r, CommittedRow(r, s))
<1>1. r \in Row /\ r # NoRow
  BY NoRowIsNoRow DEF RowOK, Live, Active
<1>2. r.slot = TRUE /\ r.cancel = FALSE /\ r.previous = "none"
  BY <1>1, NoRowIsNoRow DEF RowOK, Row, Live, Active, Parked, Cancelled
<1> DEFINE q == CommittedRow(r, s)
<1>3. q.status = s /\ q.previous = "none" /\ q.slot = TRUE /\ q.cancel = FALSE
      /\ q.retryable = FALSE
  BY <1>1, <1>2 DEF CommittedRow, Row
<1>4. q \in Row
  BY <1>1, <1>2 DEF CommittedRow, Row, Live, Statuses
<1>5. s \in Active /\ s \notin Parked /\ s \notin Cancelled /\ r.status \notin Terminal
  BY DEF Live, Active, Parked, Cancelled, Terminal
<1>6. RowOK(q)
  BY <1>3, <1>4, <1>5 DEF RowOK
<1> QED
  BY <1>3, <1>4, <1>5, <1>6, NoRowIsNoRow DEF Move, Live, Active, Cancelled

-----------------------------------------------------------------------------
(* The table: its rows are OK, and the unique index holds. *)
TableOK(J, table) ==
    /\ table \in [J -> Row \cup {NoRow}]
    /\ \A j \in J : RowOK(table[j])
    /\ \A j, k \in J : table[j].slot /\ table[k].slot => j = k

(* A move the unique index allows leaves a table.                          *)
LEMMA TableWritten ==
    ASSUME NEW J, NEW table, TableOK(J, table), NEW j \in J, NEW q,
           Move(table[j], q), q.slot => \A k \in J \ {j} : ~table[k].slot
    PROVE  TableOK(J, [table EXCEPT ![j] = q])
<1>1. q \in Row /\ RowOK(q)
  BY DEF Move, RowOK
<1>2. \A k \in J : [table EXCEPT ![j] = q][k] = IF k = j THEN q ELSE table[k]
  BY DEF TableOK
<1> QED
  BY <1>1, <1>2 DEF TableOK

-----------------------------------------------------------------------------
(* The slot follows from the status in every phase but the cancelling one. *)
LEMMA SlotOfRow ==
    ASSUME NEW r, RowOK(r)
    PROVE  /\ r.slot \in BOOLEAN
           /\ r.status \in Live => r.slot
           /\ r.status \in Parked \cup Terminal \cup {"absent"} => ~r.slot
           /\ r.status \in Statuses \cup {"absent"}
<1>1. CASE r = NoRow
  BY <1>1 DEF NoRow, Live, Active
<1>2. CASE r \in Row /\ r # NoRow
  <2>1. r.status \in Statuses /\ r.slot \in BOOLEAN
    BY <1>2 DEF Row
  <2>2. (r.status \in Live => r.slot) /\ (r.slot => r.status \in Active)
    BY <1>2 DEF RowOK
  <2>3. \A s \in Parked \cup Terminal \cup {"absent"} : s \notin Active
    BY DEF Active, Parked, Terminal
  <2> QED BY <2>1, <2>2, <2>3
<1> QED BY <1>1, <1>2 DEF RowOK

(* PhaseOf, case by case.                                                  *)
LEMMA PhaseCases ==
    /\ PhaseOf("absent") = "absent"
    /\ \A s \in Live : PhaseOf(s) = "active"
    /\ \A s \in Parked : PhaseOf(s) = "parked"
    /\ PhaseOf("CANCELLING") = "cancelling"
    /\ PhaseOf("CANCELLED") = "cancelled"
    /\ PhaseOf("COMPLETED") = "completed"
BY DEF PhaseOf, Live, Active, Parked, Cancelled

(* What replacing row r by row q is in the life cycle: nothing, or one of  *)
(* its steps, with the slot taken, kept or given back as that step says.   *)
PhaseStep(r, q) ==
    LET from == PhaseOf(r.status)
        to == PhaseOf(q.status) IN
    \/ to = from /\ q.slot = r.slot
    \/ from \in {"absent", "parked"} /\ to = "active" /\ q.slot /\ ~r.slot
    \/ from = "active" /\ to \in {"parked", "completed"} /\ ~q.slot
    \/ from \in {"active", "parked"} /\ to = "cancelling" /\ q.slot = r.slot
    \/ from = "cancelling" /\ to = "cancelled" /\ ~q.slot

(* Every move is a step of the life cycle.                                 *)
LEMMA MoveIsPhaseStep ==
    ASSUME NEW r, NEW q, RowOK(r), Move(r, q)
    PROVE  PhaseStep(r, q)
<1>1. RowOK(q) /\ q # NoRow
  BY DEF Move
<1>2. q \in Row /\ q.status \in Statuses
  BY <1>1 DEF RowOK, Row
<1> USE SlotOfRow, PhaseCases, <1>1 DEF PhaseStep
<1>3. CASE r = NoRow
  <2>1. q.status \in Live /\ r.status = "absent"
    BY <1>3, NoRowIsNoRow DEF Move
  <2> QED BY <2>1
<1>4. CASE r.status \in Live
  <2>1. q.status # "CANCELLED"
    BY <1>4 DEF Move, Live
  <2>2. q.status \in Live \cup Parked \cup {"COMPLETED", "CANCELLING"}
    BY <1>2, <2>1 DEF Statuses, Live, Terminal, Cancelled
  <2>3. q.status = "CANCELLING" => q.slot = r.slot
    BY DEF Move
  <2>4. "COMPLETED" \in Terminal
    BY DEF Terminal
  <2> QED BY <1>4, <2>2, <2>3, <2>4
<1>5. CASE r.status \in Parked
  <2>1. q.status \notin Terminal
    BY <1>5 DEF Move, Live, Active, Parked, Terminal, Cancelled
  <2>2. q.status \in Live \cup Parked \cup {"CANCELLING"}
    BY <1>2, <2>1 DEF Statuses, Live, Terminal, Cancelled
  <2>3. q.status = "CANCELLING" => q.slot = r.slot
    BY DEF Move
  <2> QED BY <1>5, <2>2, <2>3
<1>6. CASE r.status = "CANCELLING"
  <2>1. q.status \in Cancelled /\ (q.status = "CANCELLING" => q.slot = r.slot)
    BY <1>6 DEF Move, Cancelled
  <2>2. "CANCELLED" \in Terminal
    BY DEF Terminal
  <2> QED BY <1>6, <2>1, <2>2 DEF Cancelled
<1>7. CASE r.status \in Terminal
  <2>1. q.status = r.status
    BY <1>7 DEF Move
  <2>2. ~q.slot /\ ~r.slot /\ q.slot \in BOOLEAN /\ r.slot \in BOOLEAN
    BY <1>7, <2>1
  <2> QED BY <2>1, <2>2
<1> QED
  BY <1>3, <1>4, <1>5, <1>6, <1>7
  DEF RowOK, Row, Statuses, Live, Active, Parked, Terminal, Cancelled

=============================================================================
