--------------------------- MODULE JobStoreProofs ---------------------------
(***************************************************************************)
(* Proofs about JobStore, for any set of jobs and clients.                 *)
(*                                                                         *)
(* The inductive invariant IInv joins the relations between the columns of *)
(* one row (RowOK), the unique slot, and what is still true of an old read *)
(* (StaleReadsBounded).  Every write of the table is shown to be a Move:   *)
(* it keeps a cancelled row cancelled and an ended row ended, and yields a *)
(* row that is OK; WritePreserves then does the rest once for all actions. *)
(***************************************************************************)
EXTENDS JobStore, RowProofs

OneOwner == \A j, k \in Jobs : rows[j].slot /\ rows[k].slot => j = k

IInv ==
    /\ TypeOK
    /\ \A j \in Jobs : RowOK(rows[j])
    /\ OneOwner
    /\ StaleReadsBounded

-----------------------------------------------------------------------------
(* One write preserves the invariant: the row it writes replaces a row by  *)
(* a Move and the index allowed it, and no client gained a read.           *)
LEMMA WritePreserves ==
    ASSUME IInv, NEW j \in Jobs, NEW q,
           Move(rows[j], q), WriteRow(j, q),
           call' \in [Clients -> Call \cup {NoCall}],
           \A c \in Clients : call'[c] # NoCall => call'[c] = call[c]
    PROVE  IInv'
<1> USE DEF IInv
<1>1. /\ q \in Row
      /\ rows' = [rows EXCEPT ![j] = q]
      /\ q.slot => \A k \in Jobs \ {j} : ~rows[k].slot
  BY DEF Move, RowOK, WriteRow, IndexAllows
<1>2. TypeOK'
  BY <1>1 DEF TypeOK
<1>3. ASSUME NEW k \in Jobs PROVE rows'[k] = IF k = j THEN q ELSE rows[k]
  BY <1>1 DEF TypeOK
<1>4. \A k \in Jobs : RowOK(rows'[k])
  BY <1>3 DEF Move
<1>5. OneOwner'
  BY <1>1, <1>3 DEF OneOwner
<1>6. StaleReadsBounded'
  <2> SUFFICES ASSUME NEW c \in Clients, call'[c] # NoCall
               PROVE  ReadStillHolds(call'[c], rows'[call'[c].job])
    BY DEF StaleReadsBounded
  <2>1. call'[c] = call[c] /\ call[c] \in Call /\ call[c].job \in Jobs
    BY DEF TypeOK, Call
  <2>2. ReadStillHolds(call[c], rows[call[c].job])
    BY <2>1 DEF StaleReadsBounded
  <2>3. CASE call[c].job # j
    BY <1>3, <2>1, <2>2, <2>3
  <2>4. CASE call[c].job = j
    BY <1>3, <2>1, <2>2, <2>4 DEF ReadStillHolds, Move, Terminal, Cancelled
  <2> QED BY <2>3, <2>4
<1> QED
  BY <1>2, <1>4, <1>5, <1>6 DEF RowOK
-----------------------------------------------------------------------------
(* A row found in the table, with what the invariant says of it.           *)
LEMMA RowFacts ==
    ASSUME IInv, NEW j \in Jobs, rows[j] # NoRow
    PROVE  rows[j] \in Row /\ RowOK(rows[j])
BY DEF IInv, TypeOK

(* A pending call, with what the invariant says of its read.               *)
LEMMA CallFacts ==
    ASSUME IInv, NEW c \in Clients, call[c] # NoCall
    PROVE  /\ call[c].job \in Jobs /\ call[c].status \in Statuses
           /\ rows[call[c].job] \in Row /\ RowOK(rows[call[c].job])
           /\ ReadStillHolds(call[c], rows[call[c].job])
<1>1. call[c] \in Call
  BY DEF IInv, TypeOK
<1>2. ReadStillHolds(call[c], rows[call[c].job])
  BY DEF IInv, StaleReadsBounded
<1> QED
  BY <1>1, <1>2, RowFacts DEF Call, ReadStillHolds

(* A row with cancel_requested is cancelled.                               *)
LEMMA FlagOfRow ==
    ASSUME IInv, NEW j \in Jobs, rows[j].cancel
    PROVE  rows[j].status \in Cancelled
BY DEF IInv, RowOK, NoRow

(* The step writes the row of j, and the write is a move.                  *)
Moved(j) == \E q : Move(rows[j], q) /\ WriteRow(j, q)

(* update_status by force.                                                 *)
LEMMA ForcedMoved ==
    ASSUME IInv, NEW j \in Jobs, NEW s \in Statuses, NEW retryable \in BOOLEAN,
           rows[j].status \notin Cancelled \cup Terminal,
           s \in Live \/ (s = "FAILED" /\ rows[j].status = "PAUSED"),
           NEW cancel \in {FALSE, rows[j].cancel},
           UpdateStatus(j, s, TRUE, retryable, cancel)
    PROVE  Moved(j)
<1>1. rows[j] # NoRow
  BY DEF UpdateStatus
<1>2. rows[j] \in Row /\ RowOK(rows[j])
  BY <1>1, RowFacts
<1>3. Move(rows[j], UpdatedRow(rows[j], s, retryable, FALSE)) /\ ~rows[j].cancel
  BY <1>2, ForcedMove
<1>4. cancel = FALSE
  BY <1>2, <1>3 DEF Row
<1> QED
  BY <1>3, <1>4 DEF UpdateStatus, Moved

(* A step that writes by a move, of a client that returns or of no client. *)
LEMMA MovedPreserves ==
    ASSUME IInv, NEW j \in Jobs, Moved(j),
           UNCHANGED call \/ \E c \in Clients : Return(c)
    PROVE  IInv'
<1>1. /\ call' \in [Clients -> Call \cup {NoCall}]
      /\ \A d \in Clients : call'[d] # NoCall => call'[d] = call[d]
  BY DEF IInv, TypeOK, Return
<1> QED
  BY <1>1, WritePreserves DEF Moved

(* Every write of the table, by whatever operation, is a move.             *)
LEMMA NextMoves ==
    ASSUME IInv, Next
    PROVE  \/ rows' = rows /\ \E c \in Clients : Abandon(c) \/ \E j \in Jobs : Read(c, j)
           \/ \E j \in Jobs : Moved(j) /\ UNCHANGED call
           \/ \E c \in Clients : /\ call[c].job \in Jobs
                               /\ Moved(call[c].job)
                               /\ Return(c)
<1>1. ASSUME NEW j \in Jobs, NEW s \in {"CREATED", "READY_OFFLINE"},
             rows[j] = NoRow, WriteRow(j, InsertedRow(s))
      PROVE  Moved(j)
  <2>1. InsertedRow(s) \in Row
    BY DEF InsertedRow, NoRow, Row, Statuses, Active
  <2>2. RowOK(InsertedRow(s))
    BY <2>1 DEF RowOK, InsertedRow, NoRow, Live, Active, Cancelled, Parked
  <2> QED
    BY <1>1, <2>1, <2>2, NoRowIsNoRow
    DEF Moved, Move, Live, Active, Cancelled, Terminal, InsertedRow, NoRow
<1>2. ASSUME NEW j \in Jobs, NEW s \in Statuses \ Cancelled,
             NEW retryable \in RetryChoices(s),
             UpdateStatus(j, s, FALSE, retryable, rows[j].cancel)
      PROVE  Moved(j)
  BY <1>2, RowFacts, UnforcedMove DEF UpdateStatus, RetryChoices, Moved
<1>4. ASSUME NEW j \in Jobs, NEW s \in Live, rows[j].status \in Live,
             WriteRow(j, CommittedRow(rows[j], s))
      PROVE  Moved(j)
  BY <1>4, CommitMove, RowFacts DEF IInv, Moved
<1>5. ASSUME NEW j \in Jobs, CreateJob(j) \/ CreateReadyOfflineJob(j)
      PROVE  Moved(j) /\ UNCHANGED call
  BY <1>1, <1>5 DEF CreateJob, CreateReadyOfflineJob
<1>6. ASSUME NEW j \in Jobs, Advance(j)
      PROVE  Moved(j) /\ UNCHANGED call
  BY <1>2, <1>6 DEF Advance
<1>7. ASSUME NEW j \in Jobs, FailPausedResume(j)
      PROVE  Moved(j) /\ UNCHANGED call
  BY ForcedMoved, <1>7 DEF FailPausedResume, Statuses, Parked, Cancelled, Terminal
<1>8. ASSUME NEW j \in Jobs, \/ CommitTranscript(j)
                             \/ InitializeTranslationPlan(j)
                             \/ CommitTranslationArtifact(j)
      PROVE  Moved(j) /\ UNCHANGED call
  BY <1>4, <1>8
  DEF CommitTranscript, InitializeTranslationPlan, CommitTranslationArtifact,
      Live, Active, Cancelled
<1>9. ASSUME NEW c \in Clients, FinishCancelRequest(c) \/ FinishFinalize(c)
      PROVE  Moved(call[c].job) /\ Return(c) /\ call[c].job \in Jobs
  <2>1. call[c] # NoCall
    BY <1>9 DEF FinishCancelRequest, FinishFinalize, Pending
  <2>2. CASE FinishCancelRequest(c)
    BY <2>1, <2>2, CallFacts, CancelMove
    DEF FinishCancelRequest, UpdateStatus, Cancelled, Moved
  <2>3. CASE FinishFinalize(c)
    BY <2>1, <2>3, CallFacts, CancelMove
    DEF FinishFinalize, UpdateStatus, Pending, ReadStillHolds, Cancelled, Moved
  <2> QED BY <1>9, <2>2, <2>3
<1>10. ASSUME NEW c \in Clients, FinishResume(c)
      PROVE  Moved(call[c].job) /\ Return(c) /\ call[c].job \in Jobs
  <2>1. call[c] # NoCall
    BY <1>10 DEF FinishResume, Pending
  <2>2. /\ call[c].job \in Jobs
        /\ rows[call[c].job].status \in Parked
        /\ ResumeTarget(call[c].previous) \in Live
    BY <1>10, <2>1, CallFacts
    DEF FinishResume, Pending, Unmoved, ReadStillHolds, ResumeTarget, Live,
        Active, Parked, Terminal, Cancelled
  <2>3. UpdateStatus(call[c].job, ResumeTarget(call[c].previous), TRUE, FALSE, FALSE)
    BY <1>10 DEF FinishResume
  <2> DEFINE j == call[c].job
             s == ResumeTarget(call[c].previous)
  <2>4. j \in Jobs /\ s \in Statuses /\ s \in Live
        /\ rows[j].status \notin Cancelled \cup Terminal
        /\ UpdateStatus(j, s, TRUE, FALSE, FALSE)
    BY <2>2, <2>3 DEF Statuses, Live, Parked, Cancelled, Terminal
  <2>6. FALSE \in BOOLEAN /\ FALSE \in {FALSE, rows[j].cancel}
    OBVIOUS
  <2>5. Moved(j)
    BY ForcedMoved, <2>4, <2>6
  <2> QED
    BY <1>10, <2>4, <2>5 DEF FinishResume, j
<1>11. ASSUME NEW c \in Clients, FinishExpected(c)
      PROVE  Moved(call[c].job) /\ Return(c) /\ call[c].job \in Jobs
  BY <1>2, <1>11, CallFacts DEF FinishExpected, Pending
<1>12. ASSUME NEW c \in Clients, FinishRestage(c)
      PROVE  Moved(call[c].job) /\ Return(c) /\ call[c].job \in Jobs
  <2>1. call[c] # NoCall /\ call[c].op = "expected"
    BY <1>12 DEF FinishRestage, Pending
  <2>2. /\ call[c].job \in Jobs
        /\ rows[call[c].job].status \notin Cancelled \cup Terminal
    BY <1>12, <2>1, CallFacts DEF FinishRestage, Unmoved, ReadStillHolds
  <2>3. PICK s \in RestageTargets :
            UpdateStatus(call[c].job, s, TRUE, FALSE, rows[call[c].job].cancel)
    BY <1>12 DEF FinishRestage
  <2>4. s \in Live /\ s \in Statuses
    BY DEF RestageTargets, Live, Active, Cancelled, Statuses
  <2> DEFINE j == call[c].job
  <2>5. j \in Jobs /\ UpdateStatus(j, s, TRUE, FALSE, rows[j].cancel)
        /\ rows[j].status \notin Cancelled \cup Terminal
    BY <2>2, <2>3
  <2>7. FALSE \in BOOLEAN /\ rows[j].cancel \in {FALSE, rows[j].cancel}
    OBVIOUS
  <2>6. Moved(j)
    BY ForcedMoved, <2>4, <2>5, <2>7
  <2> QED
    BY <1>12, <2>5, <2>6 DEF FinishRestage, j
<1>13. ASSUME NEW c \in Clients, FinishProgress(c)
      PROVE  Moved(call[c].job) /\ Return(c) /\ call[c].job \in Jobs
  <2> DEFINE j == call[c].job
             s == call[c].status
  <2>1. call[c] # NoCall
    BY <1>13 DEF FinishProgress, Pending
  <2>2. j \in Jobs /\ s \in Statuses /\ rows[j] \in Row /\ RowOK(rows[j])
        /\ ReadStillHolds(call[c], rows[j])
    BY <2>1, CallFacts
  <2>3. UpdateStatus(j, s, FALSE, FALSE, rows[j].cancel) /\ Return(c)
    BY <1>13 DEF FinishProgress
  <2>4. CASE s \notin Cancelled
    BY <1>2, <2>2, <2>3, <2>4 DEF RetryChoices
  <2>5. CASE s \in Cancelled
    <3>1. rows[j].status \in Cancelled /\ rows[j].cancel = TRUE
      BY <2>2, <2>5, NoRowIsNoRow DEF ReadStillHolds, RowOK, Row
    <3>2. MayBecome(rows[j], s, FALSE)
      BY <2>3 DEF UpdateStatus
    <3> QED
      BY <2>2, <2>3, <2>5, <3>1, <3>2, CancelMove DEF UpdateStatus, Moved
  <2> QED BY <2>4, <2>5
<1>14. ASSUME NEW c \in Clients, Abandon(c) \/ \E j \in Jobs : Read(c, j)
      PROVE  rows' = rows
  BY <1>14 DEF Abandon, Read
<1> QED
  BY <1>5, <1>6, <1>7, <1>8, <1>9, <1>10, <1>11, <1>12, <1>13, <1>14 DEF Next

-----------------------------------------------------------------------------
(* The invariant holds of an empty table.                                  *)
LEMMA InitEstablishes == Init => IInv
<1> SUFFICES ASSUME Init PROVE IInv
  OBVIOUS
<1>1. \A j \in Jobs : rows[j] = NoRow
  BY DEF Init
<1>2. TypeOK
  BY DEF Init, TypeOK
<1>3. OneOwner
  BY <1>1, NoRowIsNoRow DEF OneOwner
<1>4. StaleReadsBounded
  BY DEF Init, StaleReadsBounded
<1> QED
  BY <1>1, <1>2, <1>3, <1>4 DEF IInv, RowOK

(* A client's read: it holds of the row it was made of.                    *)
LEMMA ReadPreserves ==
    ASSUME IInv, NEW c \in Clients, NEW j \in Jobs, Read(c, j)
    PROVE  IInv'
<1>1. rows[j] \in Row /\ RowOK(rows[j]) /\ rows[j] # NoRow /\ rows' = rows
  BY RowFacts DEF Read
<1>2. PICK op \in Operations :
        /\ Wanted(op, rows[j])
        /\ call' = [call EXCEPT ![c] =
                     [op |-> op, job |-> j, status |-> rows[j].status,
                      previous |-> rows[j].previous]]
  BY DEF Read
<1> DEFINE k == [op |-> op, job |-> j, status |-> rows[j].status,
                 previous |-> rows[j].previous]
<1>3. k \in Call
  BY <1>1 DEF Call, Row
<1>4. TypeOK'
  BY <1>1, <1>2, <1>3 DEF IInv, TypeOK
<1>5. ReadStillHolds(k, rows[j])
  <2>1. op = "finalize" => rows[j].status = "CANCELLING"
    BY <1>2 DEF Wanted
  <2>2. op = "resume" => rows[j].status \in Parked
    BY <1>2 DEF Wanted
  <2>3. op = "expected" => rows[j].status \notin Cancelled \cup Terminal
    BY <1>2 DEF Wanted
  <2>4. rows[j].status \in Parked => rows[j].previous \in Live \cup {"PAUSED"}
    BY <1>1 DEF RowOK
  <2> QED BY <1>1, <2>1, <2>2, <2>3, <2>4 DEF ReadStillHolds
<1>6. StaleReadsBounded'
  <2> SUFFICES ASSUME NEW d \in Clients, call'[d] # NoCall
               PROVE  ReadStillHolds(call'[d], rows'[call'[d].job])
    BY DEF StaleReadsBounded
  <2>1. CASE d = c
    BY <1>1, <1>2, <1>5, <2>1 DEF IInv, TypeOK
  <2>2. CASE d # c
    BY <1>1, <1>2, <2>2 DEF IInv, TypeOK, StaleReadsBounded
  <2> QED BY <2>1, <2>2
<1> QED
  BY <1>1, <1>4, <1>6 DEF IInv, OneOwner, RowOK

(* Every step keeps the invariant.                                         *)
LEMMA NextPreserves ==
    IInv /\ [Next]_vars => IInv'
<1> SUFFICES ASSUME IInv, [Next]_vars PROVE IInv'
  OBVIOUS
<1>1. CASE \E c \in Clients, j \in Jobs : Read(c, j)
  BY <1>1, ReadPreserves
<1>2. CASE UNCHANGED vars
  BY <1>2 DEF vars, IInv, TypeOK, RowOK, OneOwner, StaleReadsBounded
<1>3. CASE rows' = rows /\ \E c \in Clients : Abandon(c)
  <2>1. PICK c \in Clients : Abandon(c)
    BY <1>3
  <2>2. /\ rows' = rows
        /\ call' \in [Clients -> Call \cup {NoCall}]
        /\ \A d \in Clients : call'[d] # NoCall => call'[d] = call[d]
    BY <2>1, <1>3 DEF Abandon, Return, IInv, TypeOK
  <2> QED
    BY <2>2 DEF IInv, TypeOK, RowOK, OneOwner, StaleReadsBounded
<1>4. CASE \E j \in Jobs : Moved(j) /\ (UNCHANGED call \/ \E c \in Clients : Return(c))
  BY <1>4, MovedPreserves
<1> QED
  BY <1>1, <1>2, <1>3, <1>4, NextMoves

-----------------------------------------------------------------------------
(* Every reachable state of the store satisfies the invariant.             *)
THEOREM Invariant == Spec => []IInv
<1> QED
  BY InitEstablishes, NextPreserves, PTL DEF Spec

(* The tables keep their types: no sequence of operations writes a row     *)
(* outside the schema.                                                     *)
THEOREM TypeCorrect == Spec => []TypeOK
<1>1. IInv => TypeOK
  BY DEF IInv
<1> QED
  BY <1>1, Invariant, PTL

(* At any time at most one job holds the slot and every live job is that   *)
(* one, for any number of jobs and of racing clients.                      *)
THEOREM HeavyJobIsUnique == Spec => []OneHeavyJob
<1>1. IInv => OneHeavyJob
  BY NoRowIsNoRow DEF IInv, OneHeavyJob, OneOwner, RowOK, NoRow, Live, Active
<1> QED
  BY <1>1, Invariant, PTL

(* cancel_requested and the status always agree.                           *)
THEOREM FlagAgrees == Spec => []CancelFlagAgrees
<1>1. IInv => CancelFlagAgrees
  BY DEF IInv, CancelFlagAgrees, RowOK, NoRow, Cancelled
<1> QED
  BY <1>1, Invariant, PTL

(* A parked job remembers where to resume, and only a parked one does.     *)
THEOREM ParkingRemembered == Spec => []ParkedRemembers
<1>1. IInv => ParkedRemembers
  BY DEF IInv, ParkedRemembers, RowOK, NoRow, Parked
<1> QED
  BY <1>1, Invariant, PTL

(* What a client read before its write is never older than a cancellation  *)
(* or an end of the job, in every reachable state.                         *)
THEOREM StaleReadsAreBounded == Spec => []StaleReadsBounded
<1>1. IInv => StaleReadsBounded
  BY DEF IInv
<1> QED
  BY <1>1, Invariant, PTL

(* No late write of any client undoes a cancellation or an end.            *)
THEOREM CancellationSticks == Spec => CancelSticks
<1> DEFINE Step == \A j \in Jobs :
              /\ rows[j].cancel => rows'[j].status \in Cancelled
              /\ rows[j].status \in Terminal => rows'[j].status = rows[j].status
<1>1. ASSUME IInv, rows' = rows PROVE Step
  BY <1>1, FlagOfRow
<1>2. ASSUME IInv, NEW j \in Jobs, Moved(j) PROVE Step
  <2>1. PICK q : Move(rows[j], q) /\ rows' = [rows EXCEPT ![j] = q]
    BY <1>2 DEF Moved, WriteRow
  <2>2. \A k \in Jobs : rows'[k] = IF k = j THEN q ELSE rows[k]
    BY <1>2, <2>1 DEF IInv, TypeOK
  <2> QED
    BY <1>2, <2>1, <2>2, FlagOfRow DEF Move
<1>3. IInv /\ [Next]_vars => Step
  BY <1>1, <1>2, NextMoves DEF vars
<1>4. IInv /\ [Next]_vars => [Step]_vars
  BY <1>3
<1> QED
  BY <1>4, Invariant, PTL DEF Spec, CancelSticks

-----------------------------------------------------------------------------
(* The store implements JobLifecycle.                                      *)

(* A move of one row is a step of the life cycle or leaves it alone.       *)
LEMMA MovedRefines ==
    ASSUME IInv, NEW j \in Jobs, Moved(j)
    PROVE  [Lifecycle!Next]_(Lifecycle!vars)
<1> DEFINE phase == [k \in Jobs |-> PhaseOf(rows[k].status)]
           owners == {k \in Jobs : rows[k].slot}
<1>1. PICK q : /\ Move(rows[j], q)
               /\ rows' = [rows EXCEPT ![j] = q]
               /\ q.slot => \A k \in Jobs \ {j} : ~rows[k].slot
  BY DEF Moved, WriteRow, IndexAllows
<1>2. \A k \in Jobs : rows'[k] = IF k = j THEN q ELSE rows[k]
  BY <1>1 DEF IInv, TypeOK
<1>3. phase' = [phase EXCEPT ![j] = PhaseOf(q.status)]
  BY <1>2
<1>4. owners' = IF q.slot THEN owners \cup {j} ELSE owners \ {j}
  BY <1>2
<1>5. q.slot => owners \subseteq {j}
  BY <1>1
<1>6. /\ phase[j] = PhaseOf(rows[j].status) /\ (j \in owners <=> rows[j].slot)
      /\ phase = [phase EXCEPT ![j] = phase[j]]
  OBVIOUS
<1> HIDE DEF phase, owners
<1>7. PhaseStep(rows[j], q)
  BY <1>1, MoveIsPhaseStep DEF IInv
<1>8. /\ q.slot = rows[j].slot => owners' = owners
      /\ q.slot /\ ~rows[j].slot => owners = {} /\ owners' = {j}
      /\ ~q.slot => owners' = owners \ {j}
  BY <1>4, <1>5, <1>6
<1>9. \/ phase' = phase /\ owners' = owners
      \/ /\ phase[j] \in {"absent", "parked"} /\ owners = {}
         /\ phase' = [phase EXCEPT ![j] = "active"] /\ owners' = {j}
      \/ /\ phase[j] = "active"
         /\ \E p \in {"parked", "completed"} : phase' = [phase EXCEPT ![j] = p]
         /\ owners' = owners \ {j}
      \/ /\ phase[j] \in {"active", "parked"} /\ owners' = owners
         /\ phase' = [phase EXCEPT ![j] = "cancelling"]
      \/ /\ phase[j] = "cancelling" /\ owners' = owners \ {j}
         /\ phase' = [phase EXCEPT ![j] = "cancelled"]
  BY <1>3, <1>6, <1>7, <1>8 DEF PhaseStep
<1> QED
  BY <1>9
  DEF Lifecycle!Next, Lifecycle!vars, Lifecycle!Create, Lifecycle!Park,
      Lifecycle!Resume, Lifecycle!RequestCancel, Lifecycle!FinishCancel,
      Lifecycle!Complete, Lifecycle!SetPhase, phase, owners

(* Implementation of the life cycle: the slot is taken when a job becomes  *)
(* active and given back only when it is parked, completed or its          *)
(* cancellation finalized, for every interleaving of the store's clients.  *)
THEOREM StoreImplementsLifecycle == Spec => ImplementsLifecycle
<1>1. Init => Lifecycle!Init
  BY NoRowIsNoRow, PhaseCases DEF Init, Lifecycle!Init
<1>2. ASSUME IInv, rows' = rows PROVE [Lifecycle!Next]_(Lifecycle!vars)
  BY <1>2 DEF Lifecycle!vars
<1>3. IInv /\ [Next]_vars => [Lifecycle!Next]_(Lifecycle!vars)
  BY <1>2, MovedRefines, NextMoves DEF vars
<1> QED
  BY <1>1, <1>3, Invariant, PTL DEF Spec, ImplementsLifecycle, Lifecycle!Spec

=============================================================================
