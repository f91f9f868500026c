----------------------- MODULE DownloadControlProofs -----------------------
(***************************************************************************)
(* Proofs about DownloadControl, for any number of jobs, errors of the     *)
(* backends, stops by the user and crashes.                                *)
(*                                                                         *)
(* Every coroutine goes on after an await with what it knew of the job     *)
(* before.  The inductive invariant says what of that is still true: for   *)
(* the request (OpSees), the monitor (RefreshSees), the cancellation       *)
(* (CancelSees) and the one call of the torrent's backend that is out      *)
(* (LockSees).                                                             *)
(***************************************************************************)
EXTENDS DownloadControl, RowProofs

Starts == {"unset", "no", "yes", "unsure"}

OpStates ==
    {Idle} \cup
    [at : {"search", "add", "relocate", "start", "settle", "fail"}, sent : BOOLEAN,
     created : BOOLEAN, known : BOOLEAN, tried : BOOLEAN,
     seen : Statuses \cup {"none"}, slot : BOOLEAN]

CancelStates == {Idle} \cup [at : {"owner", "pause"}, sent : BOOLEAN]

CoStates(w) == IF w = "op" THEN OpStates ELSE CancelStates

RefreshStates ==
    {NoRefresh} \cup
    [at : {"status", "files", "find", "fetch", "select"}, started : Starts]

BootStates ==
    [at : {"up", "down"}]
    \cup [at : {"starting"}, called : {"none", "ok", "paused", "failed"},
          todo : SUBSET Jobs]
    \cup [at : {"settling"}, todo : SUBSET Jobs]

TorrentStates ==
    [state : {"none", "held", "running", "stopped", "done"}, home : Jobs \cup {"nowhere"}]

SpentStates ==
    [error : 0..MaxErrors, stop : 0..MaxStops, crash : 0..MaxApiCrashes]

TypeOK ==
    /\ rows \in [Jobs -> Row \cup {NoRow}]
    /\ task \in [Jobs -> BOOLEAN]
    /\ started \in [Jobs -> Starts]
    /\ warned \in [Jobs -> BOOLEAN]
    /\ torrent \in TorrentStates
    /\ DOMAIN co = Workers
    /\ \A w \in Workers : co[w] \in [Jobs -> CoStates(w)]
    /\ refresher \in [Jobs -> RefreshStates]
    /\ boot \in BootStates
    /\ spent \in SpentStates

(* The torrent of a job is known once its creation is over; a row that was *)
(* never created, waits in CREATED or was parked there has none.           *)
Uncreated(r) == r.status \in {"absent", "CREATED"} \/ r.previous = "CREATED"

TaskKnown(j) ==
    /\ rows[j].previous # "PAUSED"
    /\ task[j] => ~Uncreated(rows[j]) /\ torrent.state # "none"
    /\ ~task[j] => Uncreated(rows[j]) \/ Over(j)
    /\ task[j] /\ ~Over(j) => started[j] # "unset"

(* The request in flight knows the torrent if the job does; its job is not *)
(* cancelled behind its back, and its start is not yet acknowledged.       *)
OpSees(j) ==
    LET o == co["op"][j] IN
    InFlight(j) =>
        /\ o.known = task[j]
        /\ o.tried => o.known
        /\ o.at \in {"relocate", "start", "settle", "fail"} => o.known
        /\ o.at = "search" => ~o.sent
        /\ o.at \in {"search", "add"} =>
             /\ ~o.known
             /\ rows[j].status \in {"CREATED", "CANCELLING"}
             /\ rows[j].slot
        /\ IF o.at = "settle" THEN Over(j)
           ELSE rows[j].status \notin {"absent", "PAUSED", "CANCELLED"}
        /\ rows[j].status = "DOWNLOADING" => started[j] = "no"
        /\ o.at = "fail" =>
             o.seen \notin {"none", "PAUSED", "CREATED", "CANCELLING", "CANCELLED"}

(* A poll belongs to a download at rest, or one cancelled since: what it   *)
(* read of the start is what the details still say.                        *)
RefreshSees(j) ==
    /\ refresher[j].at # "idle" => task[j]
    /\ refresher[j].at \in {"status", "files"} =>
         \/ Over(j)
         \/ /\ rows[j].status = "DOWNLOADING" /\ ~InFlight(j)
            /\ started[j] = refresher[j].started /\ started[j] # "no"

(* A cancellation that pauses has waited for the request.                  *)
CancelSees(j) ==
    \A w \in {"cancel", "rec"} :
        co[w][j].at = "pause" => Over(j) /\ co["op"][j].at \in {"idle", "settle"}

(* A dead API has no coroutines.  lifespan first fails the creations, and  *)
(* starts again what it found unacknowledged.                              *)
BootSees(j) ==
    /\ boot.at # "up" => /\ refresher[j] = NoRefresh
                         /\ \A w \in Workers : co[w][j] = Idle
    /\ boot.at \in {"starting", "settling"} => rows[j].status # "CREATED"
    /\ boot.at = "starting" /\ j \in boot.todo =>
         rows[j].status = "DOWNLOADING" /\ started[j] = "no"
    /\ boot.at = "settling" /\ j \in boot.todo => Over(j)

(* CreatedIsOwned, of one job. *)
Owned(j) == Up /\ rows[j].status = "CREATED" => InFlight(j)

JobSees(j) ==
    /\ TaskKnown(j)
    /\ OpSees(j)
    /\ RefreshSees(j)
    /\ CancelSees(j)
    /\ BootSees(j)
    /\ Owned(j)

Acknowledged(j) == rows[j].status = "DOWNLOADING" /\ started[j] = "yes"

(* One call is out; while it is a pause, no start is acknowledged.         *)
LockSees ==
    \A w \in Workers, j \in Jobs : co[w][j].sent =>
        /\ \A v \in Workers, k \in Jobs : co[v][k].sent => v = w /\ k = j
        /\ Pausing(w, j) => \A k \in Jobs : ~Acknowledged(k)

(* The torrent runs, ran, or was stopped by somebody else.                 *)
Unheld(t) == t.state \in {"running", "stopped", "done"}

RunningIsKnown ==
    torrent.state = "running" =>
        \E j \in Jobs : task[j] /\ rows[j].status # "CANCELLED"

StartsRun ==
    /\ \A j \in Jobs : Acknowledged(j) => Unheld(torrent)
    /\ boot.at = "starting" => (boot.called = "ok" => Unheld(torrent))

IInv ==
    /\ TypeOK
    /\ TableOK(Jobs, rows)
    /\ \A j \in Jobs : JobSees(j)
    /\ LockSees
    /\ RunningIsKnown
    /\ StartsRun

-----------------------------------------------------------------------------
(* The names that are told apart below.                                    *)
LEMMA Names ==
    /\ Cancelled = {"CANCELLING", "CANCELLED"} /\ Parked = {"PAUSED", "FAILED"}
    /\ Terminal = {"COMPLETED", "CANCELLED"}
    /\ Live \cap (Cancelled \cup Parked \cup Terminal \cup {"absent", "none"}) = {}
    /\ Live \cup Parked \cup Cancelled \cup Terminal = Statuses
    /\ {"CREATED", "DOWNLOADING", "SUBTITLE_MATCHING", "NEEDS_SUBTITLE_SELECTION",
        "READY_OFFLINE", "TRANSCRIBING"} \subseteq Live
    /\ {"absent", "none"} \cap Statuses = {}
    /\ Live \subseteq Active /\ Active = Live \cup {"CANCELLING"}
BY DEF Cancelled, Parked, Live, Active, Terminal, Statuses

(* What the places of a request, a cancellation and a refresh hold.        *)
LEMMA OpFields ==
    ASSUME TypeOK, NEW j \in Jobs
    PROVE  /\ InFlight(j) => co["op"][j] \in
                [at : {"search", "add", "relocate", "start", "settle", "fail"},
                 sent : BOOLEAN, created : BOOLEAN, known : BOOLEAN, tried : BOOLEAN,
                 seen : Statuses \cup {"none"}, slot : BOOLEAN]
           /\ ~InFlight(j) => co["op"][j] = Idle
<1>1. co["op"][j] \in OpStates
  BY DEF TypeOK, Workers, CoStates
<1>2. Idle.at = "idle"
  BY DEF Idle
<1>3. co["op"][j] # Idle => co["op"][j].at # "idle"
  BY <1>1 DEF OpStates
<1> QED
  BY <1>1, <1>2, <1>3 DEF OpStates, InFlight

(* The record of a cancellation, or of its repetition at a restart.        *)
LEMMA CancelFields ==
    ASSUME TypeOK, NEW j \in Jobs, NEW w \in {"cancel", "rec"}
    PROVE  /\ co[w][j] \in [at : {"idle", "owner", "pause"}, sent : BOOLEAN]
           /\ co[w][j].at = "idle" => co[w][j] = Idle
<1>1. co[w][j] \in CancelStates
  BY DEF TypeOK, Workers, CoStates
<1>2. Idle \in [at : {"idle"}, sent : BOOLEAN]
  BY DEF Idle
<1>3. co[w][j] # Idle => co[w][j] \in [at : {"owner", "pause"}, sent : BOOLEAN]
  BY <1>1 DEF CancelStates
<1>4. co[w][j] # Idle => co[w][j].at # "idle"
  BY <1>3
<1> QED
  BY <1>2, <1>3, <1>4

(* The record of a refresh of the monitor.                                 *)
LEMMA RefreshFields ==
    ASSUME TypeOK, NEW j \in Jobs
    PROVE  /\ refresher[j] \in [at : {"idle", "status", "files", "find", "fetch", "select"},
                                started : Starts]
           /\ refresher[j].at = "idle" => refresher[j] = NoRefresh
BY DEF TypeOK, RefreshStates, NoRefresh, Starts

(* The record of the start of the API, by the phase it is in.              *)
LEMMA BootFields ==
    ASSUME TypeOK
    PROVE  /\ boot.at \in {"up", "down", "starting", "settling"}
           /\ boot.at = "starting" =>
                boot \in [at : {"starting"}, called : {"none", "ok", "paused", "failed"},
                          todo : SUBSET Jobs]
           /\ boot.at = "settling" => boot \in [at : {"settling"}, todo : SUBSET Jobs]
BY DEF TypeOK, BootStates

(* Only the place of one coroutine changes.                                *)
LEMMA SetCoFacts ==
    ASSUME TypeOK, NEW w \in Workers, NEW j \in Jobs, NEW c \in CoStates(w), SetCo(w, j, c)
    PROVE  /\ DOMAIN co' = Workers
           /\ \A v \in Workers : co'[v] \in [Jobs -> CoStates(v)]
           /\ \A v \in Workers, k \in Jobs :
                co'[v][k] = IF v = w /\ k = j THEN c ELSE co[v][k]
BY DEF TypeOK, SetCo

-----------------------------------------------------------------------------
(* The writes of the rows. *)

(* The row of j is moved, and the unique index allows it.                  *)
TableStep(j) ==
    \E q : /\ rows' = [rows EXCEPT ![j] = q]
           /\ Move(rows[j], q)
           /\ q.slot => \A k \in Jobs \ {j} : ~rows[k].slot

(* A row that is kept out of the slot, or has it, leaves the others theirs.*)
LEMMA SlotKept ==
    ASSUME IInv, NEW j \in Jobs, NEW q, q.slot => rows[j].slot
    PROVE  q.slot => \A k \in Jobs \ {j} : ~rows[k].slot
BY DEF IInv, TableOK

(* A step on the row of one job keeps the table and the rows of the        *)
(* others.                                                                 *)
LEMMA TableKept ==
    ASSUME IInv, NEW j \in Jobs, TableStep(j)
    PROVE  /\ TableOK(Jobs, rows')
           /\ \A k \in Jobs \ {j} : rows'[k] = rows[k]
           /\ rows'[j] \in Row /\ RowOK(rows'[j])
<1>1. PICK q : /\ rows' = [rows EXCEPT ![j] = q]
               /\ Move(rows[j], q)
               /\ q.slot => \A k \in Jobs \ {j} : ~rows[k].slot
  BY DEF TableStep
<1>2. TableOK(Jobs, rows)
  BY DEF IInv
<1>3. TableOK(Jobs, [rows EXCEPT ![j] = q])
  BY <1>1, <1>2, TableWritten
<1>4. q \in Row /\ RowOK(q)
  BY <1>1 DEF Move, RowOK
<1> QED
  BY <1>1, <1>2, <1>3, <1>4 DEF TableOK

(* Writing another status than a cancellation, as the graph allows.        *)
LEMMA PutMoves ==
    ASSUME IInv, NEW j \in Jobs, NEW s \in Statuses \ Cancelled, NEW retryable \in BOOLEAN,
           CanWrite(j, s, FALSE), rows[j] # NoRow, Put(j, s, retryable)
    PROVE  /\ TableStep(j)
           /\ rows'[j].status = s
           /\ rows'[j].previous = PreviousAfter(rows[j], s)
           /\ rows[j].status \in Live \/ rows[j].status = s
<1>1. rows[j] \in Row /\ RowOK(rows[j]) /\ rows \in [Jobs -> Row \cup {NoRow}]
  BY DEF IInv, TableOK
<1> DEFINE q == UpdatedRow(rows[j], s, retryable, rows[j].cancel)
<1>2. MayBecome(rows[j], s, FALSE)
      /\ (UpdatedRow(rows[j], s, FALSE, rows[j].cancel).slot =>
              \A k \in Jobs \ {j} : ~rows[k].slot)
  BY DEF CanWrite, IndexAllows
<1>3. Move(rows[j], q)
  BY <1>1, <1>2, UnforcedMove
<1>4. q.slot = UpdatedRow(rows[j], s, FALSE, rows[j].cancel).slot
      /\ q.status = s /\ q.previous = PreviousAfter(rows[j], s)
  BY DEF UpdatedRow
<1>5. rows' = [rows EXCEPT ![j] = q]
  BY DEF Put
<1>6. rows[j].status \in Live \/ rows[j].status = s
  BY <1>1, <1>2, UnforcedRange, Names
<1> HIDE DEF q
<1> QED
  BY <1>1, <1>2, <1>3, <1>4, <1>5, <1>6 DEF TableStep

(* Failing a job keeps what is known of its torrent.                       *)
LEMMA FailMoves ==
    ASSUME IInv, NEW j \in Jobs, NEW retryable \in BOOLEAN, rows[j] # NoRow,
           CanWrite(j, "FAILED", FALSE), Put(j, "FAILED", retryable)
    PROVE  /\ TableStep(j) /\ ~Over(j)
           /\ rows'[j].status = "FAILED" /\ rows'[j].previous # "PAUSED"
           /\ Uncreated(rows'[j]) <=> Uncreated(rows[j])
<1>1. "FAILED" \in Statuses \ Cancelled /\ "FAILED" \in Parked
  BY Names
<1>2. /\ TableStep(j)
      /\ rows'[j].status = "FAILED"
      /\ rows'[j].previous = PreviousAfter(rows[j], "FAILED")
      /\ rows[j].status \in Live \/ rows[j].status = "FAILED"
  BY <1>1, PutMoves
<1>3. RowOK(rows[j]) /\ rows[j] \in Row /\ rows[j].previous # "PAUSED"
  BY DEF IInv, TableOK, JobSees, TaskKnown
<1>4. rows[j].status \in Live => rows[j].previous = "none"
  BY <1>3, Names DEF RowOK
<1> QED
  BY <1>1, <1>2, <1>3, <1>4, Names DEF PreviousAfter, Over, Uncreated

(* Going on to a status past the creation.                                 *)
LEMMA ForwardMoves ==
    ASSUME IInv, NEW j \in Jobs, NEW s \in Live \ {"CREATED"}, NEW retryable \in BOOLEAN,
           CanWrite(j, s, FALSE), Put(j, s, retryable)
    PROVE  /\ TableStep(j) /\ rows[j].status \in Live
           /\ rows'[j].status = s /\ rows'[j].previous = "none"
           /\ ~Uncreated(rows'[j])
<1>1. s \in Statuses \ Cancelled /\ s \notin Parked
  BY Names
<1>2. rows[j] # NoRow
  BY <1>1, Names DEF CanWrite, MayBecome, Transitions, NoRow
<1>3. /\ TableStep(j)
      /\ rows'[j].status = s
      /\ rows'[j].previous = PreviousAfter(rows[j], s)
      /\ rows[j].status \in Live \/ rows[j].status = s
  BY <1>1, <1>2, PutMoves
<1> QED
  BY <1>1, <1>3, Names DEF PreviousAfter, Uncreated

(* finalize_cancel ends what is being cancelled and nothing else.          *)
LEMMA FinalizeMoves ==
    ASSUME IInv, NEW j \in Jobs, Finalize(j)
    PROVE  /\ UNCHANGED rows \/ TableStep(j)
           /\ \A k \in Jobs \ {j} : rows'[k] = rows[k]
           /\ IF Over(j) THEN rows'[j].status = "CANCELLED" /\ rows'[j].previous # "PAUSED"
              ELSE rows'[j] = rows[j]
<1>1. CASE rows[j].status # "CANCELLING"
  BY <1>1, Names DEF Finalize, Over, IInv, JobSees, TaskKnown
<1>2. CASE rows[j].status = "CANCELLING"
  <2> DEFINE q == UpdatedRow(rows[j], "CANCELLED", FALSE, TRUE)
  <2>1. rows[j] \in Row /\ RowOK(rows[j]) /\ rows \in [Jobs -> Row \cup {NoRow}]
    BY <1>2, NoRowIsNoRow DEF IInv, TableOK
  <2>2. MayBecome(rows[j], "CANCELLED", FALSE)
    BY <1>2, Names DEF MayBecome, Transitions
  <2>3. Move(rows[j], q)
    BY <1>2, <2>1, <2>2, CancelMove, Names
  <2>4. q.status = "CANCELLED" /\ q.previous = "none" /\ ~q.slot
    BY Names DEF UpdatedRow, PreviousAfter, SlotAfter
  <2>5. rows' = [rows EXCEPT ![j] = q]
    BY <1>2 DEF Finalize
  <2> HIDE DEF q
  <2> QED
    BY <1>2, <2>1, <2>3, <2>4, <2>5, Names DEF TableStep, Over
<1> QED BY <1>1, <1>2

-----------------------------------------------------------------------------
(* What a step may do that concerns one job and gives the torrent no rest: *)
(* the invariant then has to be shown for that job alone. *)

(* A download is parked because the user stopped its torrent, or because   *)
(* nobody knows whether it was started.                                    *)
ParkedRightly(j) ==
    rows[j].status = "DOWNLOADING" /\ rows'[j].status = "PAUSED" =>
        torrent.state = "stopped" \/ started[j] = "unsure"

(* What any step does to the table.                                        *)
RowsStep ==
    /\ UNCHANGED rows \/ \E j \in Jobs : TableStep(j)
    /\ \A j \in Jobs : ParkedRightly(j)

OnlyJob(j) ==
    /\ UNCHANGED rows \/ TableStep(j)
    /\ task' \in [Jobs -> BOOLEAN]
    /\ started' \in [Jobs -> Starts]
    /\ warned' \in [Jobs -> BOOLEAN]
    /\ refresher' \in [Jobs -> RefreshStates]
    /\ DOMAIN co' = Workers
    /\ \A w \in Workers : co'[w] \in [Jobs -> CoStates(w)]
    /\ \A k \in Jobs \ {j} :
          /\ task'[k] = task[k] /\ started'[k] = started[k] /\ refresher'[k] = refresher[k]
          /\ \A w \in Workers : co'[w][k] = co[w][k]

(* It sends no call, acknowledges no start and disowns no torrent.         *)
Quiet(j) ==
    /\ OnlyJob(j)
    /\ \A w \in Workers : co'[w][j].sent => co'[w][j] = co[w][j]
    /\ Acknowledged(j)' => Acknowledged(j)
    /\ ParkedRightly(j)
    /\ task[j] => task'[j]
    /\ task[j] /\ rows'[j].status = "CANCELLED" =>
         rows[j].status = "CANCELLED" \/ torrent'.state # "running"

(* The torrent is not started, and held only if no start is acknowledged.  *)
TorrentQuiet ==
    /\ torrent' \in TorrentStates
    /\ torrent.state # "none" => torrent'.state # "none"
    /\ torrent'.state = "running" => torrent.state = "running"
    /\ Unheld(torrent) => \/ Unheld(torrent')
                          \/ boot.at # "starting" /\ \A k \in Jobs : ~Acknowledged(k)'

(* What the processes know of the other jobs is not disturbed by a step    *)
(* on one of them, unless it unmakes the torrent.                          *)
LEMMA OthersKeep ==
    ASSUME IInv, NEW j \in Jobs, OnlyJob(j), UNCHANGED boot, JobSees(j)',
           torrent.state # "none" => torrent'.state # "none"
    PROVE  /\ TableOK(Jobs, rows')
           /\ \A k \in Jobs : JobSees(k)'
           /\ \A k \in Jobs \ {j} : rows'[k] = rows[k]
<1>1. /\ TableOK(Jobs, rows')
      /\ \A k \in Jobs \ {j} : rows'[k] = rows[k]
  BY TableKept DEF OnlyJob, IInv
<1>2. ASSUME NEW k \in Jobs \ {j} PROVE JobSees(k)'
  <2>1. /\ rows'[k] = rows[k] /\ task'[k] = task[k] /\ started'[k] = started[k]
        /\ refresher'[k] = refresher[k] /\ boot' = boot
        /\ \A w \in Workers : co'[w][k] = co[w][k]
        /\ {"op", "cancel", "rec"} \subseteq Workers
    BY <1>1 DEF OnlyJob, Workers
  <2>2. JobSees(k)
    BY DEF IInv
  <2>3. TaskKnown(k)'
    BY <2>1, <2>2 DEF JobSees, TaskKnown, Over
  <2>4. OpSees(k)'
    BY <2>1, <2>2 DEF JobSees, OpSees, Over, InFlight
  <2>5. RefreshSees(k)'
    BY <2>1, <2>2 DEF JobSees, RefreshSees, Over, InFlight
  <2>6. CancelSees(k)'
    BY <2>1, <2>2 DEF JobSees, CancelSees, Over
  <2>7. BootSees(k)' /\ Owned(k)'
    BY <2>1, <2>2 DEF JobSees, BootSees, Owned, InFlight, Up, Over
  <2> QED BY <2>3, <2>4, <2>5, <2>6, <2>7 DEF JobSees
<1> QED BY <1>1, <1>2

(* The whole of a step that changes no row: what is left to show is what   *)
(* is known of the job itself.                                             *)
LEMMA QuietPreserves ==
    ASSUME IInv, NEW j \in Jobs, Quiet(j), TorrentQuiet, UNCHANGED boot, JobSees(j)',
           spent' \in SpentStates
    PROVE  IInv' /\ RowsStep
<1>1. /\ OnlyJob(j)
      /\ TableOK(Jobs, rows')
      /\ \A k \in Jobs : JobSees(k)'
      /\ \A k \in Jobs \ {j} : rows'[k] = rows[k]
  BY OthersKeep DEF Quiet, TorrentQuiet
<1>2. TypeOK'
  BY <1>1 DEF IInv, TypeOK, OnlyJob, TorrentQuiet, TableOK
<1>3. \A k \in Jobs : Acknowledged(k)' => Acknowledged(k)
  BY <1>1 DEF Quiet, OnlyJob, Acknowledged
<1>4. LockSees'
  <2>1. \A w \in Workers, k \in Jobs : co'[w][k].sent => co'[w][k] = co[w][k]
    BY <1>1 DEF Quiet, OnlyJob
  <2> QED BY <1>3, <2>1 DEF IInv, LockSees, Pausing
<1>5. RunningIsKnown'
  <2>1. ASSUME torrent'.state = "running"
        PROVE  \E k \in Jobs : task'[k] /\ rows'[k].status # "CANCELLED"
    <3>1. PICK k \in Jobs : task[k] /\ rows[k].status # "CANCELLED"
      BY <2>1 DEF TorrentQuiet, IInv, RunningIsKnown
    <3>2. task'[k] /\ rows'[k].status # "CANCELLED"
      BY <1>1, <2>1, <3>1 DEF Quiet, OnlyJob
    <3> QED BY <3>2
  <2> QED BY <2>1 DEF RunningIsKnown
<1>6. StartsRun'
  BY <1>3 DEF IInv, StartsRun, TorrentQuiet
<1>7. RowsStep
  BY <1>1 DEF Quiet, OnlyJob, RowsStep, ParkedRightly
<1> QED
  BY <1>1, <1>2, <1>4, <1>5, <1>6, <1>7 DEF IInv

-----------------------------------------------------------------------------
(* The ends of an operation. *)

(* An operation runs only in an API that serves.                           *)
LEMMA OpRuns ==
    ASSUME IInv, NEW j \in Jobs, InFlight(j)
    PROVE  /\ Up
           /\ rows[j].status # "absent" /\ rows[j] \in Row /\ RowOK(rows[j])
           /\ rows[j].status # "PAUSED"
           /\ rows[j].status = "CANCELLED" => co["op"][j].at = "settle"
           /\ OpSees(j) /\ TaskKnown(j) /\ RefreshSees(j) /\ CancelSees(j) /\ Owned(j)
           /\ co["op"][j].at \in
                {"search", "add", "relocate", "start", "settle", "fail"}
<1>1. JobSees(j) /\ TypeOK /\ TableOK(Jobs, rows) /\ "op" \in Workers
  BY DEF IInv, Workers
<1>2. Idle.at = "idle"
  BY DEF Idle
<1>3. Up
  BY <1>1, <1>2 DEF JobSees, BootSees, InFlight, Up
<1>4. co["op"][j].at \in {"search", "add", "relocate", "start", "settle", "fail"}
  BY <1>1, OpFields
<1>5. rows[j].status \notin {"absent", "PAUSED"}
      /\ (rows[j].status = "CANCELLED" => co["op"][j].at = "settle")
  BY <1>1 DEF JobSees, OpSees, Over, Cancelled
<1>6. rows[j] \in Row /\ RowOK(rows[j])
  BY <1>1, <1>5 DEF TableOK, NoRow
<1> QED
  BY <1>1, <1>3, <1>4, <1>5, <1>6 DEF JobSees

(* What a step of a request leaves alone.                                  *)
LEMMA OpStepFacts ==
    ASSUME IInv, NEW j \in Jobs, InFlight(j), NEW c \in OpStates, SetCo("op", j, c),
           UNCHANGED <<refresher, boot>>,
           UNCHANGED rows \/ TableStep(j),
           task' = task \/ task' = [task EXCEPT ![j] = TRUE],
           started' = started \/ \E t \in Starts : started' = [started EXCEPT ![j] = t],
           warned' = warned \/ warned' = [warned EXCEPT ![j] = TRUE]
    PROVE  /\ OnlyJob(j)
           /\ co'["op"][j] = c
           /\ \A w \in {"cancel", "rec"} : co'[w][j] = co[w][j]
           /\ refresher'[j] = refresher[j] /\ boot' = boot
           /\ task[j] => task'[j]
<1>1. TypeOK /\ "op" \in Workers /\ c \in CoStates("op")
  BY DEF IInv, Workers, CoStates
<1>2. /\ DOMAIN co' = Workers
      /\ \A v \in Workers : co'[v] \in [Jobs -> CoStates(v)]
      /\ \A v \in Workers, k \in Jobs :
           co'[v][k] = IF v = "op" /\ k = j THEN c ELSE co[v][k]
  BY <1>1, SetCoFacts
<1>3. /\ task' \in [Jobs -> BOOLEAN] /\ warned' \in [Jobs -> BOOLEAN]
      /\ started' \in [Jobs -> Starts]
      /\ refresher' \in [Jobs -> RefreshStates]
  <2>1. task' \in [Jobs -> BOOLEAN] /\ warned' \in [Jobs -> BOOLEAN]
    BY <1>1 DEF TypeOK
  <2>2. started' \in [Jobs -> Starts]
    BY <1>1 DEF TypeOK
  <2>3. refresher' \in [Jobs -> RefreshStates]
    BY <1>1 DEF TypeOK
  <2> QED BY <2>1, <2>2, <2>3
<1>4. \A k \in Jobs \ {j} : task'[k] = task[k] /\ started'[k] = started[k]
  BY <1>1 DEF TypeOK
<1>5. task[j] => task'[j]
  BY <1>1 DEF TypeOK
<1> QED
  BY <1>2, <1>3, <1>4, <1>5 DEF OnlyJob, Workers

(* An operation that ends, and a row it failed, finalized or left alone.   *)
LEMMA OpEnds ==
    ASSUME IInv, NEW j \in Jobs, InFlight(j), SetCo("op", j, Idle),
           UNCHANGED <<refresher, boot, task, started>>,
           warned' = warned \/ warned' = [warned EXCEPT ![j] = TRUE],
           torrent.state # "none" => torrent'.state # "none",
           \/ UNCHANGED rows /\ rows[j].status # "CREATED"
           \/ CanWrite(j, "FAILED", FALSE)
              /\ \E retryable \in BOOLEAN : Put(j, "FAILED", retryable)
           \/ Finalize(j) /\ Over(j) /\ (task[j] => torrent'.state # "running")
    PROVE  Quiet(j) /\ JobSees(j)'
<1>0. /\ Up
      /\ rows[j].status # "absent" /\ rows[j] \in Row /\ rows[j] # NoRow
      /\ rows[j].status # "PAUSED"
      /\ OpSees(j) /\ TaskKnown(j) /\ RefreshSees(j) /\ CancelSees(j) /\ Owned(j)
  BY OpRuns, NoRowIsNoRow
<1>1. \/ UNCHANGED rows /\ rows[j].status # "CREATED"
      \/ /\ TableStep(j) /\ ~Over(j)
         /\ rows'[j].status = "FAILED" /\ rows'[j].previous # "PAUSED"
         /\ Uncreated(rows'[j]) <=> Uncreated(rows[j])
      \/ /\ UNCHANGED rows \/ TableStep(j)
         /\ Over(j) /\ (task[j] => torrent'.state # "running")
         /\ rows'[j].status = "CANCELLED" /\ rows'[j].previous # "PAUSED"
  BY <1>0, FailMoves, FinalizeMoves
<1>2. UNCHANGED rows \/ TableStep(j)
  BY <1>1
<1>3. Idle \in OpStates /\ Idle.at = "idle" /\ Idle.sent = FALSE
  BY DEF OpStates, Idle
<1>4. /\ OnlyJob(j)
      /\ co'["op"][j] = Idle
      /\ \A w \in {"cancel", "rec"} : co'[w][j] = co[w][j]
      /\ refresher'[j] = refresher[j] /\ boot' = boot
      /\ task'[j] = task[j] /\ started'[j] = started[j]
  BY <1>2, <1>3, OpStepFacts
<1>5. ~InFlight(j)' /\ Up'
  BY <1>0, <1>3, <1>4 DEF InFlight, Up
<1>6. Quiet(j)
  BY <1>1, <1>3, <1>4, Names DEF Quiet, ParkedRightly, Acknowledged, Workers, Over
<1>7. TaskKnown(j)'
  <2>1. rows'[j].status = "CANCELLED" /\ RowOK(rows'[j]) /\ rows'[j] \in Row =>
          ~Uncreated(rows'[j])
    BY Names DEF Uncreated, RowOK, NoRow
  <2>2. rows'[j] \in Row /\ RowOK(rows'[j])
    BY <1>0, <1>2, TableKept, OpRuns
  <2> QED BY <1>0, <1>1, <1>4, <2>1, <2>2, Names DEF TaskKnown, Over, Uncreated
<1>8. RefreshSees(j)'
  BY <1>0, <1>1, <1>4, <1>5, Names DEF RefreshSees, Over, InFlight
<1>9. CancelSees(j)'
  BY <1>0, <1>1, <1>3, <1>4, Names DEF CancelSees, Over
<1>10. rows'[j].status # "CREATED"
  BY <1>0, <1>1
<1> QED
  BY <1>4, <1>5, <1>6, <1>7, <1>8, <1>9, <1>10
  DEF JobSees, OpSees, BootSees, Owned, InFlight, Up

(* Failing the request: nothing is left in CREATED.                        *)
LEMMA FailOpQuiet ==
    ASSUME IInv, NEW j \in Jobs, InFlight(j), FailOp(j, FALSE),
           UNCHANGED <<refresher, boot>>,
           torrent.state # "none" => torrent'.state # "none"
    PROVE  Quiet(j) /\ JobSees(j)'
<1>1. rows[j].status = "CREATED" => CanWrite(j, "FAILED", FALSE)
  <2> SUFFICES ASSUME rows[j].status = "CREATED" PROVE CanWrite(j, "FAILED", FALSE)
    OBVIOUS
  <2>1. "FAILED" \in Transitions("CREATED")
    BY Names DEF Transitions, CannotFail
  <2>2. ~UpdatedRow(rows[j], "FAILED", FALSE, rows[j].cancel).slot
    BY Names DEF UpdatedRow, SlotAfter
  <2> QED BY <2>1, <2>2 DEF CanWrite, MayBecome, IndexAllows
<1> QED
  BY <1>1, OpEnds DEF FailOp

(* A request that finds its job being cancelled, and goes on to pause.     *)
LEMMA SettleQuiet ==
    ASSUME IInv, NEW j \in Jobs, InFlight(j), SettleOp(j), rows[j].status = "CANCELLING",
           UNCHANGED <<refresher, boot>>, torrent'.state # "none"
    PROVE  Quiet(j) /\ JobSees(j)'
<1> DEFINE c == [co["op"][j] EXCEPT !.at = "settle", !.sent = FALSE, !.known = TRUE]
<1>0. /\ Up /\ rows[j] \in Row /\ RowOK(rows[j]) /\ Over(j)
      /\ OpSees(j) /\ TaskKnown(j) /\ RefreshSees(j) /\ CancelSees(j) /\ TypeOK
  BY OpRuns, Names DEF IInv, Over
<1>1. /\ SetCo("op", j, c) /\ task' = [task EXCEPT ![j] = TRUE]
      /\ UNCHANGED <<rows, started, warned>>
  BY DEF SettleOp
<1>2. /\ c \in OpStates /\ c.at = "settle" /\ c.sent = FALSE /\ c.known = TRUE
  BY <1>0, OpFields DEF OpStates
<1> HIDE DEF c
<1>3. /\ OnlyJob(j)
      /\ co'["op"][j] = c
      /\ \A w \in {"cancel", "rec"} : co'[w][j] = co[w][j]
      /\ refresher'[j] = refresher[j] /\ boot' = boot
      /\ task[j] => task'[j]
  BY <1>1, <1>2, OpStepFacts
<1>4. rows' = rows /\ started' = started /\ task'[j] = TRUE
  BY <1>0, <1>1 DEF TypeOK
<1>5. Quiet(j)
  BY <1>0, <1>2, <1>3, <1>4 DEF Quiet, ParkedRightly, Acknowledged, Workers
<1>6. ~Uncreated(rows[j])
  BY <1>0, NoRowIsNoRow, Names DEF RowOK, Uncreated
<1>7. TaskKnown(j)'
  BY <1>0, <1>4, <1>6 DEF TaskKnown, Over
<1>8. OpSees(j)'
  BY <1>0, <1>2, <1>3, <1>4, Names DEF OpSees, Over
<1>9. RefreshSees(j)' /\ CancelSees(j)'
  BY <1>0, <1>2, <1>3, <1>4 DEF RefreshSees, CancelSees, Over
<1>10. BootSees(j)' /\ Owned(j)'
  BY <1>0, <1>3, <1>4, Names DEF BootSees, Owned, Up, Over
<1> QED
  BY <1>5, <1>7, <1>8, <1>9, <1>10 DEF JobSees

(* The next place of a request whose row is not touched.                   *)
LEMMA GoesOnQuiet ==
    ASSUME IInv, NEW j \in Jobs, InFlight(j), NEW c \in OpStates \ {Idle}, SetCo("op", j, c),
           UNCHANGED <<rows, task, started, warned, refresher, boot>>,
           torrent.state # "none" => torrent'.state # "none",
           OpSees(j)',
           co["op"][j].at # "settle",
           c.sent = TRUE => c = co["op"][j]
    PROVE  Quiet(j) /\ JobSees(j)'
<1>0. /\ Up /\ OpSees(j) /\ TaskKnown(j) /\ RefreshSees(j) /\ CancelSees(j) /\ Owned(j)
      /\ co["op"][j].at # "idle" /\ rows[j] \in Row /\ c.at # "idle" /\ TypeOK
  BY OpRuns DEF IInv, InFlight, OpStates
<1>1. /\ OnlyJob(j)
      /\ co'["op"][j] = c
      /\ \A w \in {"cancel", "rec"} : co'[w][j] = co[w][j]
      /\ refresher'[j] = refresher[j] /\ boot' = boot
  BY OpStepFacts
<1>2. c.sent \in BOOLEAN
  BY DEF OpStates, Idle
<1>3. Quiet(j)
  BY <1>0, <1>1, <1>2 DEF Quiet, ParkedRightly, Acknowledged, Workers
<1>4. TaskKnown(j)' /\ RefreshSees(j)' /\ BootSees(j)' /\ Owned(j)'
  BY <1>0, <1>1 DEF TaskKnown, RefreshSees, BootSees, Owned, Up, Over, InFlight
<1>5. CancelSees(j)'
  BY <1>0, <1>1 DEF CancelSees, Over
<1> QED
  BY <1>3, <1>4, <1>5 DEF JobSees

(* The except clauses of create_job and resume_job.                        *)
LEMMA OpErrorQuiet ==
    ASSUME IInv, NEW j \in Jobs, OpError(j),
           co["op"][j].at \in {"search", "add", "relocate", "start"},
           UNCHANGED <<refresher, boot>>,
           torrent.state # "none" => torrent'.state # "none"
    PROVE  Quiet(j) /\ JobSees(j)'
<1> DEFINE o == co["op"][j]
           c == [o EXCEPT !.at = "fail", !.sent = FALSE,
                          !.seen = rows[j].status, !.slot = rows[j].slot]
<1>0. /\ InFlight(j) /\ OpSees(j) /\ TaskKnown(j) /\ rows[j] \in Row
      /\ rows[j].status \notin {"absent", "PAUSED", "CANCELLED"} /\ TypeOK
  BY OpRuns DEF IInv, InFlight
<1>1. CASE rows[j].status = "CANCELLING" /\ o.known
  BY <1>0, <1>1, SettleQuiet DEF OpError, OpSees, TaskKnown
<1>2. CASE rows[j].status = "CANCELLING" /\ ~o.known
  BY <1>0, <1>2, OpEnds, Names DEF OpError, OpSees, Over
<1>3. CASE rows[j].status # "CANCELLING" /\ o.tried
  <2>1. SetCo("op", j, c) /\ UNCHANGED <<rows, task, started, warned>>
    BY <1>0, <1>3 DEF OpError
  <2>2. /\ c \in OpStates \ {Idle} /\ c.at = "fail" /\ c.sent = FALSE
        /\ c.known = o.known /\ c.tried = o.tried /\ c.seen = rows[j].status
    BY <1>0, OpFields DEF OpStates, Idle, Row
  <2> HIDE DEF c
  <2>3. co'["op"][j] = c
    BY <1>0, <2>1, <2>2, OpStepFacts
  <2>4. OpSees(j)'
    BY <1>0, <1>3, <2>1, <2>2, <2>3, Names DEF OpSees, TaskKnown, Uncreated, Row
  <2> QED
    BY <1>0, <2>1, <2>2, <2>4, GoesOnQuiet
<1>4. CASE rows[j].status # "CANCELLING" /\ ~o.tried
  <2>1. FailOp(j, FALSE)
    BY <1>0, <1>4 DEF OpError
  <2> QED BY <1>0, <2>1, FailOpQuiet
<1> QED BY <1>1, <1>2, <1>3, <1>4

-----------------------------------------------------------------------------
(* The answers of the backends to a request. *)

(* The torrent after each call of qBittorrent.                             *)
LEMMA TorrentCalls ==
    ASSUME NEW t \in TorrentStates, NEW j \in Jobs
    PROVE  /\ Held(t) \in TorrentStates /\ Held(t).state # "running"
           /\ Held(t).state = "none" <=> t.state = "none"
           /\ t.state \notin {"running", "stopped"} => Held(t) = t
           /\ Running(t) \in TorrentStates
           /\ Running(t).state = "none" <=> t.state = "none"
           /\ t.state # "none" => Unheld(Running(t))
           /\ Moved(t, j) \in TorrentStates /\ Moved(t, j).state = t.state
           /\ Added(t, j) \in TorrentStates
           /\ Added(t, j).state \notin {"none", "running"}
           /\ t.state = "none" => [state |-> "held", home |-> j] \in TorrentStates
<1>1. /\ t.state \in {"none", "held", "running", "stopped", "done"}
      /\ t.home \in Jobs \cup {"nowhere"}
      /\ t = [state |-> t.state, home |-> t.home]
  BY DEF TorrentStates
<1>2. \A s \in {"none", "held", "running", "stopped", "done"} :
          [t EXCEPT !.state = s] = [state |-> s, home |-> t.home]
  BY <1>1 DEF TorrentStates
<1>3. /\ Held(t) \in TorrentStates /\ Held(t).state # "running"
      /\ Held(t).state = "none" <=> t.state = "none"
      /\ t.state \notin {"running", "stopped"} => Held(t) = t
  BY <1>1, <1>2 DEF Held, TorrentStates
<1>4. /\ Running(t) \in TorrentStates
      /\ Running(t).state = "none" <=> t.state = "none"
      /\ t.state # "none" => Unheld(Running(t))
  BY <1>1, <1>2 DEF Running, TorrentStates, Unheld
<1>5. Moved(t, j) \in TorrentStates /\ Moved(t, j).state = t.state
  BY <1>1 DEF Moved, TorrentStates
<1>6. /\ Added(t, j) \in TorrentStates
      /\ Added(t, j).state \notin {"none", "running"}
  <2> DEFINE u == [state |-> IF t.state = "none" THEN "held" ELSE t.state, home |-> j]
  <2>1. u \in TorrentStates /\ u.state # "none" /\ Added(t, j) = Held(u)
    BY <1>1 DEF TorrentStates, Added
  <2>2. /\ u.state \in {"held", "running", "stopped", "done"}
        /\ [u EXCEPT !.state = "held"] = [state |-> "held", home |-> j]
    BY <1>1
  <2> HIDE DEF u
  <2> QED BY <2>1, <2>2 DEF Held, TorrentStates
<1> QED
  BY <1>3, <1>4, <1>5, <1>6 DEF TorrentStates

(* A torrent that is left alone.                                           *)
LEMMA TorrentStays ==
    ASSUME IInv, torrent' = torrent \/ \E j \in Jobs : torrent' = Moved(torrent, j)
    PROVE  TorrentQuiet
<1>1. torrent \in TorrentStates
  BY DEF IInv, TypeOK
<1>2. torrent' \in TorrentStates /\ torrent'.state = torrent.state
  BY <1>1, TorrentCalls
<1> QED BY <1>2 DEF TorrentQuiet, Unheld

(* The budget of faults stays one.                                         *)
LEMMA Spending ==
    ASSUME IInv, Spend \/ UNCHANGED spent
    PROVE  spent' \in SpentStates
<1>1. spent \in SpentStates /\ MaxErrors \in Nat
  BY DownloadAssumption DEF IInv, TypeOK
<1>2. CASE Spend
  <2>1. spent.error + 1 \in 0..MaxErrors
    BY <1>1, <1>2 DEF Spend, SpentStates
  <2> QED BY <1>1, <1>2, <2>1 DEF Spend, SpentStates
<1> QED BY <1>1, <1>2

(* A download has the slot, so no download but its own is acknowledged     *)
(* while a job has it.                                                     *)
LEMMA SlotIsolates ==
    ASSUME IInv, NEW j \in Jobs, rows[j].slot
    PROVE  \A k \in Jobs \ {j} : rows[k].status # "DOWNLOADING" /\ ~Acknowledged(k)
BY SlotOfRow, Names DEF IInv, TableOK, Acknowledged

(* The answer of the search: the torrent is added next, or the job fails.  *)
LEMMA SearchPreserves ==
    ASSUME IInv, NEW j \in Jobs, SearchReturns(j)
    PROVE  IInv' /\ RowsStep
<1> DEFINE c == [co["op"][j] EXCEPT !.at = "add"]
<1>0. /\ InFlight(j) /\ OpSees(j) /\ TypeOK /\ co["op"][j].at = "search"
      /\ UNCHANGED <<torrent, refresher, boot>> /\ TorrentQuiet /\ spent' \in SpentStates
  BY OpRuns, Spending, TorrentStays DEF SearchReturns, InFlight, IInv, Beside
<1>1. CASE SetCo("op", j, c) /\ Keep
  <2>1. /\ c \in OpStates \ {Idle} /\ c.at = "add" /\ c.sent = FALSE
        /\ c.known = co["op"][j].known /\ c.tried = co["op"][j].tried
    BY <1>0, OpFields DEF OpStates, Idle, OpSees
  <2> HIDE DEF c
  <2>2. co'["op"][j] = c
    BY <1>0, <1>1, <2>1, OpStepFacts DEF Keep
  <2>3. OpSees(j)'
    BY <1>0, <1>1, <2>1, <2>2 DEF OpSees, Keep, InFlight, Over
  <2>4. Quiet(j) /\ JobSees(j)'
    BY <1>0, <1>1, <2>1, <2>3, GoesOnQuiet DEF Keep
  <2> QED BY <1>0, <2>4, QuietPreserves
<1>2. CASE OpError(j)
  BY <1>0, <1>2, OpErrorQuiet, QuietPreserves
<1> QED BY <1>1, <1>2 DEF SearchReturns

(* An error of a call that may not have moved the torrent out of where it  *)
(* was, or held it while no start was acknowledged. *)
LEMMA CallFailsPreserves ==
    ASSUME IInv, NEW j \in Jobs, OpError(j), Spend, TorrentQuiet,
           co["op"][j].at \in {"add", "relocate"}, UNCHANGED <<refresher, boot>>
    PROVE  IInv' /\ RowsStep
BY OpErrorQuiet, QuietPreserves, Spending DEF TorrentQuiet

(* The answer of the call that moves a torrent.                            *)
LEMMA RelocatePreserves ==
    ASSUME IInv, NEW j \in Jobs, RelocateReturns(j)
    PROVE  IInv' /\ RowsStep
<1> DEFINE o == co["op"][j]
           c == [o EXCEPT !.at = "start", !.sent = FALSE, !.known = TRUE,
                          !.tried = @ \/ "start" = "start"]
<1>0. /\ InFlight(j) /\ OpSees(j) /\ TaskKnown(j) /\ TypeOK /\ o.at = "relocate"
      /\ rows[j].status # "CANCELLED"
      /\ UNCHANGED <<refresher, boot>> /\ TorrentQuiet /\ spent' \in SpentStates
  BY OpRuns, Spending, TorrentStays
  DEF RelocateReturns, Answered, InFlight, IInv, Beside
<1>1. CASE Over(j) /\ SettleOp(j)
  BY <1>0, <1>1, SettleQuiet, QuietPreserves, Names
  DEF OpSees, TaskKnown, TorrentQuiet, Over
<1>2. CASE ~Over(j) /\ NextCall(j, "start") /\ Keep
  <2>1. /\ c \in OpStates \ {Idle} /\ c.at = "start" /\ c.sent = FALSE
        /\ c.known = TRUE /\ SetCo("op", j, c)
    BY <1>0, <1>2, OpFields DEF OpStates, Idle, NextCall
  <2> HIDE DEF c
  <2>2. co'["op"][j] = c
    BY <1>0, <1>2, <2>1, OpStepFacts DEF Keep
  <2>3. OpSees(j)'
    BY <1>0, <1>2, <2>1, <2>2 DEF OpSees, Keep, InFlight, Over
  <2>4. Quiet(j) /\ JobSees(j)'
    BY <1>0, <1>2, <2>1, <2>3, GoesOnQuiet DEF Keep, TorrentQuiet
  <2> QED BY <1>0, <2>4, QuietPreserves
<1>3. CASE Spend /\ OpError(j)
  BY <1>0, <1>3, CallFailsPreserves
<1> QED BY <1>1, <1>2, <1>3 DEF RelocateReturns

(* add holds the torrent, of whichever job it was: the request has the     *)
(* slot, hence no start is acknowledged. *)
LEMMA AddHolds ==
    ASSUME IInv, NEW j \in Jobs, Quiet(j), InFlight(j), co["op"][j].at = "add",
           torrent' \in PartlyAdded(torrent, j), UNCHANGED boot
    PROVE  TorrentQuiet
<1>1. OpSees(j) /\ Up /\ torrent \in TorrentStates
  BY OpRuns DEF IInv, TypeOK
<1>2. rows[j].slot /\ ~Acknowledged(j)
  BY <1>1 DEF OpSees, Acknowledged
<1>3. ASSUME NEW k \in Jobs PROVE ~Acknowledged(k)'
  <2>1. k # j => rows'[k] = rows[k] /\ started'[k] = started[k]
    BY TableKept DEF Quiet, OnlyJob
  <2> QED BY <1>2, <2>1, SlotIsolates DEF Quiet, ParkedRightly, Acknowledged
<1>4. boot.at # "starting"
  BY <1>1 DEF Up
<1>5. \/ torrent'.state = torrent.state /\ torrent' \in TorrentStates
      \/ torrent' \in TorrentStates /\ torrent'.state \notin {"none", "running"}
  <2> DEFINE new == [state |-> "held", home |-> j]
  <2>1. torrent' \in {torrent, Moved(torrent, j), Added(torrent, j), new}
    BY DEF PartlyAdded
  <2>2. new \in TorrentStates /\ new.state \notin {"none", "running"}
    BY DEF TorrentStates
  <2> HIDE DEF new
  <2> QED BY <1>1, <2>1, <2>2, TorrentCalls
<1> QED BY <1>3, <1>4, <1>5 DEF TorrentQuiet, Unheld

(* DOWNLOADING is written with the task, and the start is yet to come. *)
LEMMA DownloadingQuiet ==
    ASSUME IInv, NEW j \in Jobs, co["op"][j].at = "add", ~Over(j),
           CanWrite(j, "DOWNLOADING", FALSE), Put(j, "DOWNLOADING", FALSE),
           task' = [task EXCEPT ![j] = TRUE], started' = [started EXCEPT ![j] = "no"],
           NextCall(j, "start"), UNCHANGED <<warned, refresher, boot>>,
           torrent'.state # "none"
    PROVE  Quiet(j) /\ JobSees(j)'
<1> DEFINE o == co["op"][j]
           c == [o EXCEPT !.at = "start", !.sent = FALSE, !.known = TRUE,
                          !.tried = @ \/ "start" = "start"]
<1>0. /\ InFlight(j) /\ OpSees(j) /\ TaskKnown(j) /\ RefreshSees(j) /\ CancelSees(j)
      /\ Up /\ TypeOK
  BY OpRuns DEF IInv, InFlight
<1>1. /\ c \in OpStates /\ c.at = "start" /\ c.sent = FALSE
      /\ c.known = TRUE /\ SetCo("op", j, c)
  BY <1>0, OpFields DEF OpStates, NextCall
<1> HIDE DEF c
<1>2. /\ TableStep(j) /\ rows'[j].status = "DOWNLOADING" /\ rows'[j].previous = "none"
      /\ ~Uncreated(rows'[j])
  BY Names, ForwardMoves
<1>3. "no" \in Starts
  BY DEF Starts
<1>4. /\ OnlyJob(j)
      /\ co'["op"][j] = c
      /\ \A w \in {"cancel", "rec"} : co'[w][j] = co[w][j]
      /\ refresher'[j] = refresher[j] /\ boot' = boot
      /\ task[j] => task'[j]
  BY <1>0, <1>1, <1>2, <1>3, OpStepFacts
<1>5. task'[j] = TRUE /\ started'[j] = "no"
  BY <1>0 DEF TypeOK
<1>6. Quiet(j)
  BY <1>1, <1>2, <1>4, <1>5 DEF Quiet, ParkedRightly, Acknowledged, Workers
<1>7. ~task[j] /\ ~InFlight(j) = FALSE
  BY <1>0 DEF OpSees
<1>8. TaskKnown(j)' /\ OpSees(j)'
  BY <1>1, <1>2, <1>4, <1>5 DEF TaskKnown, OpSees
<1>9. RefreshSees(j)' /\ CancelSees(j)'
  BY <1>0, <1>4, <1>7 DEF RefreshSees, CancelSees, InFlight
<1>10. BootSees(j)' /\ Owned(j)'
  BY <1>0, <1>2, <1>4 DEF BootSees, Owned, Up
<1> QED BY <1>6, <1>8, <1>9, <1>10 DEF JobSees

(* The answer of the call that adds the torrent, with the choice of its    *)
(* files.                                                                  *)
LEMMA AddPreserves ==
    ASSUME IInv, NEW j \in Jobs, AddReturns(j)
    PROVE  IInv' /\ RowsStep
<1>0. /\ InFlight(j) /\ OpSees(j) /\ RowOK(rows[j]) /\ rows[j] \in Row
      /\ co["op"][j].at = "add" /\ torrent \in TorrentStates
      /\ rows[j].status # "CANCELLED"
      /\ UNCHANGED <<refresher, boot>>
  BY OpRuns DEF AddReturns, Answered, InFlight, IInv, TypeOK, Beside
<1>1. ASSUME torrent' = Added(torrent, j), UNCHANGED spent, Quiet(j), JobSees(j)'
      PROVE  IInv' /\ RowsStep
  <2>1. torrent' \in PartlyAdded(torrent, j)
    BY <1>1 DEF PartlyAdded
  <2>2. TorrentQuiet /\ spent' \in SpentStates
    BY <1>0, <1>1, <2>1, AddHolds, Spending
  <2> QED BY <1>0, <1>1, <2>2, QuietPreserves
<1>2. CASE torrent' = Added(torrent, j) /\ UNCHANGED spent /\ Over(j) /\ SettleOp(j)
  BY <1>0, <1>1, <1>2, TorrentCalls, SettleQuiet, Names DEF Over
<1>3. CASE /\ torrent' = Added(torrent, j) /\ UNCHANGED spent
           /\ ~Over(j) /\ CanWrite(j, "DOWNLOADING", FALSE)
           /\ Put(j, "DOWNLOADING", FALSE)
           /\ task' = [task EXCEPT ![j] = TRUE]
           /\ started' = [started EXCEPT ![j] = "no"]
           /\ NextCall(j, "start")
           /\ UNCHANGED warned
  BY <1>0, <1>1, <1>3, TorrentCalls, DownloadingQuiet
<1>4. CASE ~Over(j) /\ ~CanWrite(j, "DOWNLOADING", FALSE)
  <2>1. rows[j].status = "CREATED" /\ rows[j].slot
    BY <1>0, <1>4, Names DEF OpSees, Over
  <2>2. MayBecome(rows[j], "DOWNLOADING", FALSE)
    BY <2>1, Names DEF MayBecome, Transitions, Forward
  <2>3. IndexAllows(j, UpdatedRow(rows[j], "DOWNLOADING", FALSE, rows[j].cancel))
    BY <2>1, SlotKept DEF IndexAllows
  <2> QED BY <1>4, <2>2, <2>3 DEF CanWrite
<1>5. CASE Spend /\ torrent' \in PartlyAdded(torrent, j) /\ OpError(j)
  <2>1. torrent.state # "none" => torrent'.state # "none"
    BY <1>0, <1>5, TorrentCalls DEF PartlyAdded
  <2>2. Quiet(j) /\ JobSees(j)'
    BY <1>0, <1>5, <2>1, OpErrorQuiet
  <2>3. TorrentQuiet /\ spent' \in SpentStates
    BY <1>0, <1>5, <2>2, AddHolds, Spending
  <2> QED BY <1>0, <2>2, <2>3, QuietPreserves
<1> QED BY <1>2, <1>3, <1>4, <1>5 DEF AddReturns

(* A start has arrived at the torrent, acknowledged or not: nothing else   *)
(* is out, and the job that asked for it is an owner. *)
LEMMA StartedPreserves ==
    ASSUME IInv, NEW j \in Jobs, OnlyJob(j), ParkedRightly(j), JobSees(j)',
           UNCHANGED boot, Up, torrent' = Running(torrent), torrent.state # "none",
           co["op"][j].sent, ~co'["op"][j].sent,
           \A w \in {"cancel", "rec"} : co'[w][j] = co[w][j],
           task'[j],
           rows'[j].status = "CANCELLED" => torrent'.state # "running",
           spent' \in SpentStates
    PROVE  IInv' /\ RowsStep
<1>0. torrent \in TorrentStates /\ "op" \in Workers
  BY DEF IInv, TypeOK, Workers
<1>1. /\ TableOK(Jobs, rows')
      /\ \A k \in Jobs : JobSees(k)'
      /\ \A k \in Jobs \ {j} : rows'[k] = rows[k]
  BY <1>0, TorrentCalls, OthersKeep
<1>2. torrent' \in TorrentStates /\ Unheld(torrent')
  BY <1>0, TorrentCalls
<1>3. TypeOK'
  BY <1>1, <1>2 DEF IInv, TypeOK, OnlyJob, TableOK
<1>4. \A w \in Workers, k \in Jobs : ~co'[w][k].sent
  <2>1. \A w \in Workers, k \in Jobs : w # "op" \/ k # j => ~co[w][k].sent
    BY <1>0 DEF IInv, LockSees
  <2> QED BY <2>1 DEF OnlyJob, Workers
<1>5. LockSees' /\ StartsRun' /\ RunningIsKnown'
  BY <1>2, <1>4 DEF LockSees, StartsRun, RunningIsKnown, Unheld
<1>6. RowsStep
  BY <1>1 DEF OnlyJob, RowsStep, ParkedRightly
<1> QED BY <1>1, <1>3, <1>5, <1>6 DEF IInv

(* The answer of the call that starts the torrent: a start acknowledged,   *)
(* refused or uncertain.                                                   *)
LEMMA StartPreserves ==
    ASSUME IInv, NEW j \in Jobs, StartReturns(j)
    PROVE  IInv' /\ RowsStep
<1> DEFINE o == co["op"][j]
<1>0. /\ InFlight(j) /\ OpSees(j) /\ TaskKnown(j) /\ RefreshSees(j) /\ CancelSees(j)
      /\ Owned(j) /\ Up /\ TypeOK
      /\ o.at = "start" /\ o.sent /\ rows[j].status # "CANCELLED"
      /\ task[j] = TRUE /\ torrent.state # "none" /\ torrent \in TorrentStates
      /\ UNCHANGED <<refresher, boot>> /\ spent' \in SpentStates
  <2>1. /\ InFlight(j) /\ o.at = "start" /\ o.sent /\ spent' \in SpentStates
        /\ UNCHANGED <<refresher, boot>> /\ TypeOK
    BY Spending DEF StartReturns, Answered, InFlight, IInv, Beside
  <2>2. /\ OpSees(j) /\ TaskKnown(j) /\ RefreshSees(j) /\ CancelSees(j)
        /\ Owned(j) /\ Up /\ rows[j].status # "CANCELLED"
    BY <2>1, OpRuns
  <2> QED BY <2>1, <2>2 DEF OpSees, TaskKnown, TypeOK
<1>1. ASSUME Quiet(j), JobSees(j)', \A w \in {"cancel", "rec"} : co'[w][j] = co[w][j],
             torrent' = Running(torrent), ~co'["op"][j].sent
      PROVE  IInv' /\ RowsStep
  BY <1>0, <1>1, StartedPreserves DEF Quiet
<1>2. \A c \in OpStates : SetCo("op", j, c) =>
         /\ co'["op"][j] = c
         /\ \A w \in {"cancel", "rec"} : co'[w][j] = co[w][j]
  BY <1>0, SetCoFacts DEF Workers, CoStates
<1>3. /\ OpError(j) \/ SettleOp(j) =>
           /\ ~co'["op"][j].sent
           /\ \A w \in {"cancel", "rec"} : co'[w][j] = co[w][j]
  <2>1. \A c \in OpStates : SetCo("op", j, c) /\ ~c.sent =>
           /\ ~co'["op"][j].sent
           /\ \A w \in {"cancel", "rec"} : co'[w][j] = co[w][j]
    BY <1>2
  <2> DEFINE settle == [o EXCEPT !.at = "settle", !.sent = FALSE, !.known = TRUE]
             fail == [o EXCEPT !.at = "fail", !.sent = FALSE,
                               !.seen = rows[j].status, !.slot = rows[j].slot]
  <2>2. Idle \in OpStates /\ ~Idle.sent
    BY DEF OpStates, Idle
  <2> DEFINE Records == [at : {"search", "add", "relocate", "start", "settle", "fail"},
                         sent : BOOLEAN, created : BOOLEAN, known : BOOLEAN,
                         tried : BOOLEAN, seen : Statuses \cup {"none"}, slot : BOOLEAN]
  <2>3. o \in Records
    BY <1>0, OpFields
  <2>4. Records \subseteq OpStates
    BY DEF OpStates
  <2>5. settle \in OpStates /\ ~settle.sent
    <3>1. settle \in Records /\ ~settle.sent
      BY <2>3
    <3> QED BY <2>4, <3>1
  <2>6. rows[j].status \in Statuses /\ rows[j].slot \in BOOLEAN
    BY <1>0, OpRuns DEF Row
  <2>7. fail \in OpStates /\ ~fail.sent
    <3>1. fail \in Records /\ ~fail.sent
      BY <2>6, <2>3
    <3> QED BY <2>4, <3>1
  <2>8. SetCo("op", j, Idle) \/ SetCo("op", j, settle) \/ SetCo("op", j, fail) =>
           /\ ~co'["op"][j].sent
           /\ \A w \in {"cancel", "rec"} : co'[w][j] = co[w][j]
    BY <2>1, <2>2, <2>5, <2>7
  <2>9. OpError(j) \/ SettleOp(j) =>
          SetCo("op", j, Idle) \/ SetCo("op", j, settle) \/ SetCo("op", j, fail)
    BY DEF OpError, SettleOp, FailOp
  <2> QED BY <2>8, <2>9
<1>4. CASE torrent' = Running(torrent) /\ Over(j) /\ SettleOp(j)
  <2>1. Quiet(j) /\ JobSees(j)'
    BY <1>0, <1>4, TorrentCalls, SettleQuiet, Names DEF Over
  <2> QED BY <1>1, <1>3, <1>4, <2>1
<1>5. CASE /\ torrent' = Running(torrent) /\ ~Over(j)
           /\ SetCo("op", j, Idle)
           /\ started' = IF rows[j].status = "DOWNLOADING"
                         THEN [started EXCEPT ![j] = "yes"] ELSE started
           /\ UNCHANGED <<rows, task, warned>>
  <2>1. Idle \in OpStates /\ ~Idle.sent /\ Idle.at = "idle" /\ "yes" \in Starts
    BY DEF OpStates, Idle, Starts
  <2>2. /\ OnlyJob(j)
        /\ co'["op"][j] = Idle
        /\ \A w \in {"cancel", "rec"} : co'[w][j] = co[w][j]
        /\ refresher'[j] = refresher[j] /\ boot' = boot
    BY <1>0, <1>5, <2>1, OpStepFacts
  <2>3. /\ rows'[j] = rows[j] /\ task'[j] = task[j]
        /\ started'[j] \in {started[j], "yes"}
    BY <1>0, <1>5 DEF TypeOK
  <2>4. refresher[j].at \notin {"status", "files"}
    BY <1>0, <1>5 DEF RefreshSees
  <2>5. torrent'.state # "none"
    BY <1>0, <1>5, TorrentCalls
  <2>6. TaskKnown(j)' /\ RefreshSees(j)' /\ OpSees(j)' /\ CancelSees(j)'
    BY <1>0, <2>1, <2>2, <2>3, <2>4, <2>5
    DEF TaskKnown, RefreshSees, OpSees, CancelSees, InFlight, Over
  <2>7. rows[j].status # "CREATED"
    BY <1>0 DEF TaskKnown, Uncreated
  <2>8. BootSees(j)' /\ Owned(j)'
    BY <1>0, <2>2, <2>3, <2>7 DEF BootSees, Owned, Up
  <2> QED
    BY <1>0, <1>5, <2>1, <2>2, <2>3, <2>6, <2>8, StartedPreserves
    DEF JobSees, ParkedRightly
<1>6. CASE Spend /\ torrent' \in {torrent, Running(torrent)} /\ OpError(j)
  <2>1. Quiet(j) /\ JobSees(j)'
    BY <1>0, <1>6, TorrentCalls, OpErrorQuiet
  <2>2. CASE torrent' = torrent
    BY <1>0, <2>1, <2>2, TorrentStays, QuietPreserves
  <2>3. CASE torrent' = Running(torrent)
    BY <1>1, <1>3, <1>6, <2>1, <2>3
  <2> QED BY <1>6, <2>2, <2>3
<1> QED BY <1>4, <1>5, <1>6 DEF StartReturns

-----------------------------------------------------------------------------
(* The lock of the mutations. *)

(* A call goes out when none is; a pause only while no start is            *)
(* acknowledged.                                                           *)
LEMMA SentPreserves ==
    ASSUME IInv, NEW w \in Workers, NEW j \in Jobs, LockFree,
           co[w][j].at \notin {"idle", "search"},
           SetCo(w, j, [co[w][j] EXCEPT !.sent = TRUE]),
           Pausing(w, j) => \A k \in Jobs : ~Acknowledged(k),
           UNCHANGED <<rows, task, started, warned, torrent, refresher, boot, spent>>
    PROVE  IInv' /\ RowsStep
<1> DEFINE c == [co[w][j] EXCEPT !.sent = TRUE]
<1>0. TypeOK /\ \A k \in Jobs : JobSees(k)
  BY DEF IInv
<1>1. c \in CoStates(w) /\ c.at = co[w][j].at /\ c.sent = TRUE
      /\ (w = "op" => /\ c.known = co[w][j].known /\ c.tried = co[w][j].tried
                      /\ c.seen = co[w][j].seen)
  <2>1. CASE w = "op"
    BY <1>0, <2>1, OpFields DEF CoStates, OpStates, InFlight
  <2>2. CASE w \in {"cancel", "rec"}
    <3>1. co[w][j] \in [at : {"owner", "pause"}, sent : BOOLEAN]
      BY <1>0, <2>2, CancelFields
    <3> QED BY <2>2, <3>1 DEF CoStates, CancelStates
  <2> QED BY <2>1, <2>2 DEF Workers
<1> HIDE DEF c
<1>2. /\ DOMAIN co' = Workers
      /\ \A v \in Workers : co'[v] \in [Jobs -> CoStates(v)]
      /\ \A v \in Workers, k \in Jobs :
           co'[v][k] = IF v = w /\ k = j THEN c ELSE co[v][k]
  BY <1>0, <1>1, SetCoFacts DEF c
<1>3. OnlyJob(j)
  BY <1>0, <1>2 DEF OnlyJob, TypeOK
<1>4. /\ \A v \in Workers : co'[v][j].at = co[v][j].at
      /\ \A v \in Workers : v # w => co'[v][j] = co[v][j]
      /\ co'[w][j] = c
      /\ "op" \in Workers /\ "cancel" \in Workers /\ "rec" \in Workers
  BY <1>1, <1>2 DEF Workers
<1>5. JobSees(j)'
  <2>1. TaskKnown(j)' /\ RefreshSees(j)' /\ CancelSees(j)' /\ Owned(j)'
    BY <1>0, <1>4
    DEF JobSees, TaskKnown, RefreshSees, CancelSees, Owned, Over, InFlight, Up
  <2>2. OpSees(j)'
    BY <1>0, <1>1, <1>4 DEF JobSees, OpSees, InFlight, Over
  <2>3. BootSees(j)'
    BY <1>0, <1>4 DEF JobSees, BootSees, Idle
  <2> QED BY <2>1, <2>2, <2>3 DEF JobSees
<1>6. TableOK(Jobs, rows') /\ \A k \in Jobs : JobSees(k)'
  BY <1>3, <1>5, OthersKeep
<1>7. TypeOK'
  BY <1>0, <1>2 DEF TypeOK
<1>8. LockSees'
  <2>1. \A v \in Workers, k \in Jobs : co'[v][k].sent => v = w /\ k = j
    BY <1>2 DEF LockFree
  <2>2. Pausing(w, j)' => \A k \in Jobs : ~Acknowledged(k)'
    BY <1>4 DEF Pausing, Acknowledged
  <2> QED BY <2>1, <2>2 DEF LockSees
<1>9. RunningIsKnown' /\ StartsRun'
  BY DEF IInv, RunningIsKnown, StartsRun, Acknowledged, Unheld
<1> QED BY <1>6, <1>7, <1>8, <1>9 DEF IInv, RowsStep, ParkedRightly

(* The request for a call leaves: from here on its answer may come after   *)
(* a cancellation.                                                         *)
LEMMA SendPreserves ==
    ASSUME IInv, NEW j \in Jobs, SendCall("op", j)
    PROVE  IInv' /\ RowsStep
BY SentPreserves DEF SendCall, Keep, Beside, Pausing, Workers

(* A job that is not deferred has the slot, or nobody has.                 *)
LEMMA NobodyRuns ==
    ASSUME IInv, NEW j \in Jobs, ~Deferred(j), ~Acknowledged(j)
    PROVE  \A k \in Jobs : ~Acknowledged(k)
BY SlotIsolates, SlotOfRow, Names DEF Deferred, Acknowledged, IInv, TableOK

(* A pause never concerns a start that was acknowledged.                   *)
LEMMA PausingIsUnacknowledged ==
    ASSUME IInv, NEW w \in Workers, NEW j \in Jobs, Pausing(w, j)
    PROVE  /\ ~Acknowledged(j) /\ Up
           /\ w # "op" => /\ co[w][j].at = "pause" /\ Over(j)
                          /\ co["op"][j].at \in {"idle", "settle"}
           /\ w = "op" => InFlight(j) /\ co["op"][j].at \in {"settle", "fail"}
<1>1. JobSees(j) /\ TypeOK /\ Idle.at = "idle"
  BY DEF IInv, Idle
<1>2. CASE w = "op"
  <2>1. InFlight(j) /\ co["op"][j].at \in {"settle", "fail"}
    BY <1>1, <1>2, OpFields DEF Pausing, InFlight
  <2> QED BY <1>2, <2>1, OpRuns DEF OpSees, Acknowledged
<1>3. CASE w \in {"cancel", "rec"}
  <2>1. co[w][j].at = "pause"
    BY <1>1, <1>3, CancelFields DEF Pausing
  <2>2. Up
    BY <1>1, <2>1 DEF JobSees, BootSees, Up, Workers
  <2> QED BY <1>1, <1>3, <2>1, <2>2, Names DEF JobSees, CancelSees, Acknowledged, Over
<1> QED BY <1>2, <1>3 DEF Workers

-----------------------------------------------------------------------------
(* What follows a pause. *)

(* A cancel request or a reconciliation ends; it has finalized the job, if *)
(* it did, without leaving its torrent running. *)
LEMMA CancelEnds ==
    ASSUME IInv, NEW w \in {"cancel", "rec"}, NEW j \in Jobs,
           SetCo(w, j, Idle), co[w][j].at # "idle", UNCHANGED <<task, started, refresher, boot>>,
           warned' = warned \/ warned' = [warned EXCEPT ![j] = TRUE],
           torrent.state # "none" => torrent'.state # "none",
           \/ UNCHANGED rows
           \/ /\ Finalize(j)
              /\ Over(j) /\ task[j] => torrent'.state # "running" \/ rows[j].status = "CANCELLED"
              /\ co["op"][j].at \in {"idle", "settle"}
    PROVE  Quiet(j) /\ JobSees(j)'
<1>0. TypeOK /\ JobSees(j) /\ w \in Workers /\ Idle \in CoStates(w)
      /\ Idle.at = "idle" /\ Idle.sent = FALSE
  BY DEF IInv, Workers, CoStates, CancelStates, Idle
<1>1. /\ DOMAIN co' = Workers
      /\ \A v \in Workers : co'[v] \in [Jobs -> CoStates(v)]
      /\ \A v \in Workers, k \in Jobs :
           co'[v][k] = IF v = w /\ k = j THEN Idle ELSE co[v][k]
  BY <1>0, SetCoFacts
<1>2. \/ rows' = rows
      \/ /\ UNCHANGED rows \/ TableStep(j)
         /\ IF Over(j) THEN rows'[j].status = "CANCELLED" /\ rows'[j].previous # "PAUSED"
            ELSE rows'[j] = rows[j]
  BY FinalizeMoves
<1>3. /\ OnlyJob(j)
      /\ "op" \in Workers /\ co'["op"][j] = co["op"][j]
      /\ \A v \in {"cancel", "rec"} : co'[v][j] = co[v][j] \/ co'[v][j] = Idle
      /\ task'[j] = task[j] /\ started'[j] = started[j] /\ refresher'[j] = refresher[j]
      /\ boot' = boot
  <2>1. OnlyJob(j)
    BY <1>0, <1>1, <1>2 DEF OnlyJob, TypeOK
  <2> QED BY <1>1, <2>1 DEF Workers
<1>4. Quiet(j)
  BY <1>0, <1>1, <1>2, <1>3, Names DEF Quiet, ParkedRightly, Acknowledged, Over
<1>5. boot.at = "up"
  BY <1>0 DEF JobSees, BootSees
<1>6. CASE rows'[j] = rows[j]
  <2>1. TaskKnown(j)' /\ RefreshSees(j)' /\ OpSees(j)'
    BY <1>0, <1>3, <1>6 DEF JobSees, TaskKnown, RefreshSees, OpSees, Over, InFlight
  <2>2. CancelSees(j)' /\ BootSees(j)' /\ Owned(j)'
    BY <1>0, <1>3, <1>5, <1>6 DEF JobSees, CancelSees, BootSees, Owned, Over, InFlight, Up
  <2> QED BY <1>4, <2>1, <2>2 DEF JobSees
<1>7. CASE /\ TableStep(j) /\ Over(j)
           /\ rows'[j].status = "CANCELLED" /\ rows'[j].previous # "PAUSED"
           /\ co["op"][j].at \in {"idle", "settle"}
  <2>1. ~Uncreated(rows'[j]) /\ Over(j)'
    <3>1. rows'[j] \in Row /\ RowOK(rows'[j])
      BY <1>7, TableKept
    <3> QED BY <1>7, <3>1, NoRowIsNoRow, Names DEF Uncreated, RowOK, Over
  <2>2. TaskKnown(j)' /\ RefreshSees(j)'
    BY <1>0, <1>3, <1>7, <2>1 DEF JobSees, TaskKnown, RefreshSees
  <2>3. OpSees(j)'
    BY <1>0, <1>3, <1>7, <2>1 DEF JobSees, OpSees, Over, InFlight
  <2>4. CancelSees(j)' /\ BootSees(j)' /\ Owned(j)'
    BY <1>0, <1>3, <1>5, <1>7, <2>1 DEF JobSees, CancelSees, BootSees, Owned, Over
  <2> QED BY <1>4, <2>2, <2>3, <2>4 DEF JobSees
<1>8. Finalize(j) /\ ~(rows'[j] = rows[j]) => co["op"][j].at \in {"idle", "settle"}
  OBVIOUS
<1> QED BY <1>2, <1>6, <1>7, <1>8

(* The old status is written back, with an uncertain start.                *)
LEMMA WriteBackQuiet ==
    ASSUME IInv, NEW j \in Jobs, co["op"][j].at = "fail", SetCo("op", j, Idle),
           CanWrite(j, co["op"][j].seen, FALSE), Put(j, co["op"][j].seen, TRUE),
           started' = [started EXCEPT ![j] = "unsure"],
           UNCHANGED <<task, warned, refresher, boot>>,
           torrent.state # "none" => torrent'.state # "none"
    PROVE  Quiet(j) /\ JobSees(j)'
<1> DEFINE s == co["op"][j].seen
<1>0. /\ InFlight(j) /\ OpSees(j) /\ TaskKnown(j) /\ RefreshSees(j) /\ CancelSees(j)
      /\ Up /\ TypeOK /\ rows[j] \in Row /\ RowOK(rows[j]) /\ rows[j] # NoRow
  BY OpRuns, NoRowIsNoRow DEF IInv, InFlight
<1>1. task[j] = TRUE /\ s \in Statuses \ Cancelled /\ s \notin {"PAUSED", "CREATED"}
  BY <1>0, OpFields, Names DEF OpSees, TypeOK
<1>2. /\ TableStep(j)
      /\ rows'[j].status = s
      /\ rows'[j].previous = PreviousAfter(rows[j], s)
      /\ rows[j].status \in Live \/ rows[j].status = s
  BY <1>0, <1>1, PutMoves
<1>3. Idle \in OpStates /\ Idle.at = "idle" /\ Idle.sent = FALSE /\ "unsure" \in Starts
  BY DEF OpStates, Idle, Starts
<1>4. /\ OnlyJob(j)
      /\ co'["op"][j] = Idle
      /\ \A w \in {"cancel", "rec"} : co'[w][j] = co[w][j]
      /\ refresher'[j] = refresher[j] /\ boot' = boot
  BY <1>0, <1>2, <1>3, OpStepFacts
<1>5. task'[j] = task[j] /\ started'[j] = "unsure"
  BY <1>0 DEF TypeOK
<1>6. Quiet(j)
  BY <1>1, <1>2, <1>3, <1>4, <1>5, Names DEF Quiet, ParkedRightly, Acknowledged, Workers
<1>7. ~Over(j) /\ ~Uncreated(rows[j])
  BY <1>0, <1>1, <1>2, Names DEF TaskKnown, Over
<1>8. rows'[j].previous # "PAUSED" /\ ~Uncreated(rows'[j])
  BY <1>0, <1>1, <1>2, <1>7, Names DEF PreviousAfter, TaskKnown, Uncreated
<1>9. TaskKnown(j)' /\ RefreshSees(j)'
  BY <1>0, <1>1, <1>4, <1>5, <1>7, <1>8 DEF TaskKnown, RefreshSees
<1>10. CancelSees(j)'
  BY <1>0, <1>3, <1>4, <1>7 DEF CancelSees
<1>11. OpSees(j)' /\ BootSees(j)' /\ Owned(j)'
  BY <1>0, <1>1, <1>2, <1>3, <1>4 DEF OpSees, BootSees, Owned, Up, InFlight
<1> QED BY <1>6, <1>9, <1>10, <1>11 DEF JobSees

(* Who paused the torrent for a job, and learnt whether it stands still,   *)
(* knows that it does not run.                                             *)
LEMMA AfterPauseQuiet ==
    ASSUME IInv, NEW w \in Workers, NEW j \in Jobs, NEW result, Pausing(w, j),
           AfterPause(w, j, result), UNCHANGED <<refresher, boot>>,
           torrent.state # "none" => torrent'.state # "none",
           result = "paused" => torrent'.state # "running"
    PROVE  Quiet(j) /\ JobSees(j)'
<1> DEFINE o == co[w][j]
<1>0. /\ w # "op" => /\ w \in {"cancel", "rec"} /\ o.at = "pause" /\ Over(j)
                     /\ co["op"][j].at \in {"idle", "settle"}
      /\ w = "op" => InFlight(j) /\ o.at \in {"settle", "fail"}
  BY PausingIsUnacknowledged DEF Workers
<1>1. CASE w # "op"
  <2>1. /\ SetCo(w, j, Idle)
        /\ UNCHANGED rows \/ (Finalize(j) /\ result = "paused")
        /\ warned' = warned \/ warned' = [warned EXCEPT ![j] = TRUE]
        /\ UNCHANGED <<task, started>>
    BY <1>0, <1>1 DEF AfterPause
  <2> QED BY <1>0, <1>1, <2>1, CancelEnds
<1>2. CASE w = "op" /\ o.at = "settle"
  <2>1. /\ SetCo("op", j, Idle)
        /\ UNCHANGED rows \/ (Finalize(j) /\ result = "paused")
        /\ warned' = warned \/ warned' = [warned EXCEPT ![j] = TRUE]
        /\ UNCHANGED <<task, started>>
    BY <1>0, <1>2 DEF AfterPause
  <2>2. Over(j) /\ rows[j].status # "CREATED"
    BY <1>0, <1>2, OpRuns, Names DEF OpSees, Over
  <2> QED BY <1>0, <1>2, <2>1, <2>2, OpEnds
<1>3. CASE w = "op" /\ o.at = "fail"
  <2>1. /\ InFlight(j) /\ OpSees(j) /\ TaskKnown(j) /\ o.seen # "PAUSED"
        /\ rows[j].status # "CREATED"
    BY <1>0, <1>3, OpRuns DEF OpSees, TaskKnown, Uncreated
  <2>2. CASE SetCo("op", j, Idle) /\ UNCHANGED <<rows, task, started, warned>>
    BY <2>1, <2>2, OpEnds
  <2>3. CASE /\ SetCo("op", j, Idle) /\ CanWrite(j, o.seen, FALSE) /\ Put(j, o.seen, TRUE)
             /\ started' = [started EXCEPT ![j] = "unsure"]
             /\ UNCHANGED <<task, warned>>
    BY <1>3, <2>3, WriteBackQuiet
  <2>4. CASE FailOp(j, ~o.created /\ o.seen = "PAUSED")
    <3>1. FailOp(j, FALSE)
      BY <2>1, <2>4
    <3> QED BY <2>1, <3>1, FailOpQuiet
  <2> QED BY <1>3, <2>2, <2>3, <2>4 DEF AfterPause
<1> QED BY <1>0, <1>1, <1>2, <1>3

(* A pause that arrives while it is the one call that is out. *)
LEMMA HoldIsQuiet ==
    ASSUME IInv, NEW w \in Workers, NEW j \in Jobs, Pausing(w, j), co[w][j].sent,
           Quiet(j), torrent' = Held(torrent), UNCHANGED boot
    PROVE  TorrentQuiet
<1>1. torrent \in TorrentStates /\ Up /\ \A k \in Jobs : ~Acknowledged(k)
  BY PausingIsUnacknowledged DEF IInv, TypeOK, LockSees
<1>2. ASSUME NEW k \in Jobs PROVE ~Acknowledged(k)'
  <2>1. k # j => rows'[k] = rows[k] /\ started'[k] = started[k]
    BY TableKept DEF Quiet, OnlyJob
  <2> QED BY <1>1, <2>1 DEF Quiet, ParkedRightly, Acknowledged
<1> QED BY <1>1, <1>2, TorrentCalls DEF TorrentQuiet, Up

(* A pause is sent, has returned, or fails.                                *)
LEMMA PausePreserves ==
    ASSUME IInv, NEW w \in Workers, NEW j \in Jobs, Pauses(w, j)
    PROVE  IInv' /\ RowsStep
<1>0. torrent \in TorrentStates
  BY DEF IInv, TypeOK
<1>1. CASE PauseSend(w, j) /\ Deferred(j)
  <2>1. Pausing(w, j) /\ AfterPause(w, j, "deferred")
        /\ UNCHANGED <<refresher, boot, torrent, spent>>
    BY <1>1 DEF PauseSend, Beside
  <2>2. Quiet(j) /\ JobSees(j)'
    BY <2>1, AfterPauseQuiet
  <2> QED BY <2>1, <2>2, TorrentStays, Spending, QuietPreserves
<1>2. CASE PauseSend(w, j) /\ ~Deferred(j)
  <2>1. Pausing(w, j) /\ LockFree /\ ~Acknowledged(j)
    BY <1>2, PausingIsUnacknowledged DEF PauseSend
  <2>2. \A k \in Jobs : ~Acknowledged(k)
    BY <1>2, <2>1, NobodyRuns
  <2> QED BY <1>2, <2>1, <2>2, SentPreserves DEF PauseSend, Keep, Beside, Pausing
<1>3. CASE PauseReturns(w, j)
  <2>1. /\ Pausing(w, j) /\ co[w][j].sent /\ torrent' = Held(torrent)
        /\ AfterPause(w, j, "paused") /\ UNCHANGED <<refresher, boot, spent>>
    BY <1>3 DEF PauseReturns, Beside
  <2>2. Quiet(j) /\ JobSees(j)'
    BY <1>0, <2>1, TorrentCalls, AfterPauseQuiet
  <2> QED BY <2>1, <2>2, HoldIsQuiet, Spending, QuietPreserves
<1>4. CASE PauseFails(w, j)
  <2>1. /\ Pausing(w, j) /\ AfterPause(w, j, "failed") /\ Spend
        /\ \/ torrent' = torrent
           \/ torrent' = Held(torrent) /\ co[w][j].sent
        /\ UNCHANGED <<refresher, boot>>
    BY <1>4 DEF PauseFails, Beside
  <2>2. torrent.state # "none" => torrent'.state # "none"
    BY <1>0, <2>1, TorrentCalls
  <2>3. Quiet(j) /\ JobSees(j)'
    BY <2>1, <2>2, AfterPauseQuiet
  <2>4. TorrentQuiet
    BY <2>1, <2>3, HoldIsQuiet, TorrentStays
  <2>5. spent' \in SpentStates
    BY <2>1, Spending
  <2> QED BY <2>1, <2>3, <2>4, <2>5, QuietPreserves
<1> QED BY <1>1, <1>2, <1>3, <1>4 DEF Pauses

-----------------------------------------------------------------------------
(* The requests of the user. *)

(* The row of a job is new, and so is the request that works on it: what   *)
(* there was of other coroutines concerned the row before.                 *)
LEMMA RequestBegins ==
    ASSUME IInv, NEW j \in Jobs, Up, ~InFlight(j),
           TableStep(j) \/ UNCHANGED rows, ~Over(j), TaskKnown(j)',
           UNCHANGED <<task, warned, torrent, refresher, boot>>,
           started' = started \/ started' = [started EXCEPT ![j] = "no"],
           rows[j].status # "DOWNLOADING",
           rows'[j].status = "DOWNLOADING" => started'[j] = "no",
           \/ UNCHANGED co /\ rows'[j].status # "CREATED"
           \/ \E c \in OpStates \ {Idle} : SetCo("op", j, c) /\ ~c.sent,
           OpSees(j)'
    PROVE  Quiet(j) /\ JobSees(j)'
<1>0. TypeOK /\ JobSees(j) /\ Idle.sent = FALSE /\ "op" \in Workers
  BY DEF IInv, Idle, Workers
<1>1. \E c \in OpStates : /\ \A v \in Workers, k \in Jobs :
                                co'[v][k] = IF v = "op" /\ k = j THEN c ELSE co[v][k]
                          /\ ~c.sent
                          /\ c = Idle => rows'[j].status # "CREATED"
                          /\ DOMAIN co' = Workers
                          /\ \A v \in Workers : co'[v] \in [Jobs -> CoStates(v)]
  <2>1. CASE UNCHANGED co /\ rows'[j].status # "CREATED"
    <3>1. Idle \in OpStates /\ co["op"][j] = Idle
      BY <1>0, OpFields DEF OpStates
    <3> QED BY <1>0, <2>1, <3>1 DEF TypeOK
  <2>2. ASSUME NEW c \in OpStates \ {Idle}, SetCo("op", j, c) /\ ~c.sent
        PROVE  /\ \A v \in Workers, k \in Jobs :
                    co'[v][k] = IF v = "op" /\ k = j THEN c ELSE co[v][k]
               /\ DOMAIN co' = Workers
               /\ \A v \in Workers : co'[v] \in [Jobs -> CoStates(v)]
    BY <1>0, <2>2, SetCoFacts DEF CoStates
  <2> QED BY <2>1, <2>2
<1>2. /\ ~co'["op"][j].sent
      /\ \A v \in {"cancel", "rec"} : co'[v][j] = co[v][j]
      /\ InFlight(j)' \/ rows'[j].status # "CREATED"
      /\ started'[j] \in {started[j], "no"} /\ task'[j] = task[j]
      /\ refresher'[j] = refresher[j] /\ boot' = boot
  <2>1. \A c \in OpStates \ {Idle} : c.at # "idle"
    BY DEF OpStates
  <2>2. started'[j] \in {started[j], "no"}
    BY <1>0 DEF TypeOK
  <2> QED BY <1>1, <2>1, <2>2 DEF InFlight, Workers
<1>3. started' \in [Jobs -> Starts] /\ \A k \in Jobs \ {j} : started'[k] = started[k]
  BY <1>0 DEF TypeOK, Starts
<1>4. OnlyJob(j)
  BY <1>0, <1>1, <1>3 DEF OnlyJob, TypeOK
<1>5. rows'[j].status # "CANCELLED" \/ rows[j].status = "CANCELLED"
  BY <1>0, Names, NoRowIsNoRow DEF TableStep, Move, Over, IInv, TableOK
<1>6. Quiet(j)
  BY <1>2, <1>4, <1>5 DEF Quiet, ParkedRightly, Acknowledged, Workers
<1>7. RefreshSees(j)' /\ CancelSees(j)' /\ BootSees(j)' /\ Owned(j)'
  BY <1>0, <1>2
  DEF JobSees, RefreshSees, CancelSees, BootSees, Owned, Up, Over
<1> QED BY <1>6, <1>7 DEF JobSees

(* The request that creates a job owns it from the insertion of the row.   *)
LEMMA CreatePreserves ==
    ASSUME IInv, NEW j \in Jobs, CreateJob(j)
    PROVE  IInv' /\ RowsStep
<1> DEFINE q == InsertedRow("CREATED")
           c == Op("add", TRUE, FALSE)
<1>0. /\ Up /\ rows[j] = NoRow /\ IndexAllows(j, q) /\ rows' = [rows EXCEPT ![j] = q]
      /\ SetCo("op", j, c)
      /\ UNCHANGED <<task, started, warned, torrent, refresher, boot, spent>>
  BY DEF CreateJob, NoDetails, Beside
<1>1. TypeOK /\ JobSees(j) /\ rows \in [Jobs -> Row \cup {NoRow}] /\ "op" \in Workers
  BY DEF IInv, TypeOK, Workers
<1>2. TableStep(j) /\ rows'[j] = q
  <2>1. Move(rows[j], q)
    BY <1>0, InsertedMove
  <2> QED BY <1>0, <1>1, <2>1 DEF TableStep, IndexAllows
<1>3. q.status = "CREATED" /\ q.previous = "none" /\ q.slot = TRUE
  BY DEF InsertedRow, NoRow
<1>4. /\ c \in OpStates \ {Idle} /\ c.at = "add" /\ c.sent = FALSE
      /\ c.known = FALSE /\ c.tried = FALSE
  BY DEF Op, OpStates, Idle
<1> HIDE DEF q, c
<1>5. ~task[j] /\ ~Over(j) /\ rows[j].status = "absent"
  BY <1>0, <1>1, NoRowIsNoRow, Names DEF JobSees, TaskKnown, Uncreated, Over
<1>6. ~InFlight(j)
  BY <1>5, OpRuns
<1>7. TaskKnown(j)'
  BY <1>0, <1>2, <1>3, <1>5 DEF TaskKnown, Uncreated, Over
<1>8. co'["op"][j] = c
  BY <1>0, <1>1, <1>4, SetCoFacts DEF CoStates
<1>9. OpSees(j)'
  BY <1>0, <1>1, <1>2, <1>3, <1>4, <1>5, <1>8 DEF OpSees, TypeOK
<1>10. Quiet(j) /\ JobSees(j)'
  BY <1>0, <1>2, <1>3, <1>4, <1>5, <1>6, <1>7, <1>9, RequestBegins
<1> QED
  BY <1>0, <1>10, TorrentStays, Spending, QuietPreserves

(* Where a parked job goes on, and which torrent it then has.              *)
LEMMA ResumeMoves ==
    ASSUME IInv, NEW j \in Jobs, NEW s, rows[j].status \in Parked,
           s = ResumeTarget(rows[j].previous), \A k \in Jobs \ {j} : ~rows[k].slot,
           rows' = [rows EXCEPT ![j] = UpdatedRow(@, s, FALSE, FALSE)]
    PROVE  /\ TableStep(j) /\ s \in Live
           /\ rows'[j].status = s /\ rows'[j].previous = "none" /\ rows'[j].slot = TRUE
           /\ Uncreated(rows'[j]) <=> Uncreated(rows[j])
           /\ s = "CREATED" <=> Uncreated(rows[j])
<1> DEFINE q == UpdatedRow(rows[j], s, FALSE, FALSE)
<1>1. /\ rows[j] \in Row /\ RowOK(rows[j]) /\ rows[j].previous # "PAUSED"
      /\ rows \in [Jobs -> Row \cup {NoRow}]
  BY NoRowIsNoRow, Names DEF IInv, TableOK, JobSees, TaskKnown, NoRow
<1>2. rows[j].previous \in Live
  BY <1>1, NoRowIsNoRow, Names DEF RowOK
<1>3. s = rows[j].previous
  BY <1>2, Names DEF ResumeTarget
<1>4. Move(rows[j], q)
  BY <1>1, <1>2, <1>3, ForcedMove, Names
<1>5. q.status = s /\ q.previous = "none" /\ q.slot = TRUE
  <2>1. (s \in Active) = TRUE
    BY <1>2, <1>3, Names
  <2> QED BY <1>2, <1>3, <2>1, Names DEF UpdatedRow, PreviousAfter, SlotAfter
<1>6. rows' = [rows EXCEPT ![j] = q] /\ rows'[j] = q
  BY <1>1
<1> HIDE DEF q
<1> QED
  BY <1>1, <1>2, <1>3, <1>4, <1>5, <1>6, Names DEF TableStep, Uncreated

(* The request that resumes a job takes it back where it was parked, and   *)
(* owns its download.                                                      *)
LEMMA ResumePreserves ==
    ASSUME IInv, NEW j \in Jobs, ResumeJob(j)
    PROVE  IInv' /\ RowsStep
<1> DEFINE s == ResumeTarget(rows[j].previous)
           c(at) == Op(at, FALSE, task[j])
<1>0. /\ Up /\ ~InFlight(j) /\ rows[j].status \in Parked
      /\ \A k \in Jobs \ {j} : ~rows[k].slot
      /\ rows' = [rows EXCEPT ![j] = UpdatedRow(@, s, FALSE, FALSE)]
      /\ UNCHANGED <<task, warned, torrent, refresher, boot, spent>>
  BY DEF ResumeJob, MayOperate, Beside
<1>1. TypeOK /\ JobSees(j) /\ "op" \in Workers /\ ~Over(j) /\ task[j] \in BOOLEAN
  BY <1>0, Names DEF IInv, TypeOK, Over, Workers
<1>2. /\ TableStep(j) /\ s \in Live
      /\ rows'[j].status = s /\ rows'[j].previous = "none" /\ rows'[j].slot = TRUE
      /\ Uncreated(rows'[j]) <=> Uncreated(rows[j])
      /\ s = "CREATED" <=> Uncreated(rows[j])
  BY <1>0, ResumeMoves
<1>3. \/ s \in Offline /\ UNCHANGED <<co, started>>
      \/ /\ \E at \in ResumeSteps(j) : SetCo("op", j, c(at))
         /\ started' = IF task[j] /\ s = "DOWNLOADING"
                       THEN [started EXCEPT ![j] = "no"] ELSE started
  BY DEF ResumeJob
<1> HIDE DEF s
<1>4. task[j] <=> s # "CREATED"
  BY <1>1, <1>2, Names DEF JobSees, TaskKnown
<1>5. /\ started'[j] \in {started[j], "no"}
      /\ s = "DOWNLOADING" => started'[j] = "no"
      /\ started' = started \/ started' = [started EXCEPT ![j] = "no"]
  BY <1>1, <1>3, <1>4 DEF TypeOK, Offline
<1>6. TaskKnown(j)'
  BY <1>0, <1>1, <1>2, <1>5, Names DEF JobSees, TaskKnown, Over
<1>7. ASSUME NEW at \in ResumeSteps(j)
      PROVE  /\ c(at) \in OpStates \ {Idle} /\ c(at).at = at /\ c(at).sent = FALSE
             /\ c(at).known = task[j] /\ c(at).tried = FALSE
  BY <1>1, <1>7 DEF Op, OpStates, Idle, ResumeSteps
<1> HIDE DEF c
<1>8. CASE s \in Offline /\ UNCHANGED <<co, started>>
  <2>1. OpSees(j)' /\ s # "CREATED"
    BY <1>0, <1>8 DEF OpSees, InFlight, Offline
  <2>2. Quiet(j) /\ JobSees(j)'
    BY <1>0, <1>1, <1>2, <1>5, <1>6, <1>8, <2>1, RequestBegins, Names
  <2> QED BY <1>0, <2>2, TorrentStays, Spending, QuietPreserves
<1>9. ASSUME NEW at \in ResumeSteps(j), SetCo("op", j, c(at))
      PROVE  IInv' /\ RowsStep
  <2>1. co'["op"][j] = c(at)
    BY <1>1, <1>7, <1>9, SetCoFacts DEF CoStates
  <2>2. OpSees(j)'
    <3>1. /\ co'["op"][j].at = at /\ at \in {"relocate", "search", "add"}
          /\ co'["op"][j].sent = FALSE /\ co'["op"][j].tried = FALSE
          /\ co'["op"][j].known = task[j] /\ task'[j] = task[j]
          /\ at = "relocate" <=> task[j]
      BY <1>0, <1>7, <1>9, <2>1 DEF ResumeSteps
    <3>2. /\ rows'[j].status = s /\ rows'[j].slot
          /\ s \notin {"absent", "PAUSED", "CANCELLED"}
          /\ ~task[j] => s = "CREATED"
          /\ s = "DOWNLOADING" => started'[j] = "no"
      BY <1>2, <1>4, <1>5, Names
    <3> QED BY <1>1, <3>1, <3>2 DEF OpSees
  <2>3. Quiet(j) /\ JobSees(j)'
    BY <1>0, <1>1, <1>2, <1>5, <1>6, <1>7, <1>9, <2>2, RequestBegins, Names
  <2> QED BY <1>0, <2>3, TorrentStays, Spending, QuietPreserves
<1> QED BY <1>3, <1>8, <1>9

(* A refused resume takes the cancellation over, if there is a torrent to  *)
(* pause.                                                                  *)
LEMMA RefusalPreserves ==
    ASSUME IInv, NEW j \in Jobs, ResumeCancelling(j)
    PROVE  IInv' /\ RowsStep
<1> DEFINE c == Op("settle", FALSE, TRUE)
<1>0. /\ Up /\ ~InFlight(j) /\ rows[j].status = "CANCELLING" /\ Over(j)
      /\ TypeOK /\ JobSees(j) /\ "op" \in Workers
      /\ UNCHANGED <<task, started, warned, torrent, refresher, boot, spent>>
      /\ Idle.sent = FALSE
  BY Names DEF ResumeCancelling, MayOperate, NoDetails, Beside, Over, IInv, Workers, Idle
<1>1. CASE task[j] /\ SetCo("op", j, c) /\ UNCHANGED rows
  <2>1. /\ c \in OpStates /\ c.at = "settle" /\ c.sent = FALSE
        /\ c.known = TRUE /\ c.tried = FALSE
    BY DEF Op, OpStates, Idle
  <2> HIDE DEF c
  <2>2. /\ DOMAIN co' = Workers
        /\ \A v \in Workers : co'[v] \in [Jobs -> CoStates(v)]
        /\ \A v \in Workers, k \in Jobs :
             co'[v][k] = IF v = "op" /\ k = j THEN c ELSE co[v][k]
    BY <1>0, <1>1, <2>1, SetCoFacts DEF CoStates
  <2>3. OnlyJob(j)
    BY <1>0, <1>1, <2>2 DEF OnlyJob, TypeOK
  <2>4. Quiet(j)
    BY <1>0, <1>1, <2>1, <2>2, <2>3 DEF Quiet, ParkedRightly, Acknowledged
  <2>5. task[j] = TRUE
    BY <1>0, <1>1 DEF TypeOK
  <2>6. TaskKnown(j)' /\ RefreshSees(j)' /\ BootSees(j)' /\ Owned(j)'
    BY <1>0, <1>1 DEF JobSees, TaskKnown, RefreshSees, BootSees, Owned, Over, Up
  <2>7. OpSees(j)' /\ CancelSees(j)'
    BY <1>0, <1>1, <2>1, <2>2, <2>5
    DEF JobSees, OpSees, CancelSees, Over, Workers
  <2> QED
    BY <1>0, <2>4, <2>6, <2>7, TorrentStays, Spending, QuietPreserves DEF JobSees
<1>2. CASE ~task[j] /\ Finalize(j) /\ UNCHANGED co
  <2>1. /\ UNCHANGED rows \/ TableStep(j)
        /\ rows'[j].status = "CANCELLED" /\ rows'[j].previous # "PAUSED"
    BY <1>0, <1>2, FinalizeMoves
  <2>2. OnlyJob(j)
    BY <1>0, <1>2, <2>1 DEF OnlyJob, TypeOK
  <2>3. Quiet(j)
    BY <1>0, <1>2, <2>1, <2>2 DEF Quiet, ParkedRightly, Acknowledged
  <2>4. Over(j)'
    BY <2>1, Names DEF Over
  <2>5. TaskKnown(j)' /\ RefreshSees(j)' /\ OpSees(j)' /\ CancelSees(j)'
    BY <1>0, <1>2, <2>1, <2>4
    DEF JobSees, TaskKnown, RefreshSees, OpSees, CancelSees, InFlight
  <2>6. BootSees(j)' /\ Owned(j)'
    BY <1>0, <2>1 DEF BootSees, Owned, Up
  <2> QED
    BY <1>0, <2>3, <2>5, <2>6, TorrentStays, Spending, QuietPreserves DEF JobSees
<1> QED BY <1>1, <1>2 DEF ResumeCancelling

-----------------------------------------------------------------------------
(* Cancellation. *)

(* A cancellation moves on beside the request. *)
LEMMA CancellingQuiet ==
    ASSUME IInv, NEW j \in Jobs, Up,
           UNCHANGED <<rows, task, started, warned, torrent, refresher, boot>>,
           DOMAIN co' = Workers,
           \A v \in Workers : co'[v] \in [Jobs -> CoStates(v)],
           \A v \in Workers, k \in Jobs : v = "op" \/ k # j => co'[v][k] = co[v][k],
           \A v \in {"cancel", "rec"} :
              \/ co'[v][j] = co[v][j]
              \/ /\ ~co'[v][j].sent
                 /\ co'[v][j].at = "pause" => Over(j) /\ ~InFlight(j)
    PROVE  Quiet(j) /\ JobSees(j)'
<1>0. TypeOK /\ JobSees(j) /\ "op" \in Workers
  BY DEF IInv, Workers
<1>1. OnlyJob(j) /\ co'["op"][j] = co["op"][j]
  BY <1>0 DEF OnlyJob, TypeOK
<1>2. Quiet(j)
  BY <1>1 DEF Quiet, ParkedRightly, Acknowledged, Workers
<1>3. TaskKnown(j)' /\ RefreshSees(j)' /\ OpSees(j)' /\ BootSees(j)' /\ Owned(j)'
  BY <1>0, <1>1
  DEF JobSees, TaskKnown, RefreshSees, OpSees, BootSees, Owned, Over, InFlight, Up
<1>4. CancelSees(j)'
  BY <1>0, <1>1 DEF JobSees, CancelSees, Over, InFlight
<1> QED BY <1>2, <1>3, <1>4 DEF JobSees

(* A waiting coroutine of a cancellation.                                  *)
LEMMA WaitingFacts ==
    ASSUME NEW at \in {"owner", "pause"}, NEW w \in {"cancel", "rec"}
    PROVE  /\ Waiting(at) \in CoStates(w) /\ Waiting(at).at = at /\ ~Waiting(at).sent
           /\ Idle \in CoStates(w) /\ Idle.at = "idle" /\ ~Idle.sent
           /\ w \in Workers
BY DEF Waiting, CoStates, CancelStates, Idle, Workers

(* A cancellation whose operation is gone pauses the torrent, or           *)
(* finalizes.                                                              *)
LEMMA OwnerDonePreserves ==
    ASSUME IInv, NEW w \in {"cancel", "rec"}, NEW j \in Jobs, OwnerDone(w, j)
    PROVE  IInv' /\ RowsStep
<1>0. /\ co[w][j].at = "owner" /\ ~InFlight(j) /\ TypeOK /\ JobSees(j) /\ w \in Workers
      /\ UNCHANGED <<task, started, warned, torrent, refresher, boot, spent>>
      /\ Idle.at = "idle"
  BY WaitingFacts DEF OwnerDone, PauseOrFinalize, NoDetails, Beside, IInv
<1>1. Up
  BY <1>0 DEF JobSees, BootSees, Up
<1>2. CASE rows[j].status = "CANCELLING" /\ task[j]
  <2>1. SetCo(w, j, Waiting("pause")) /\ UNCHANGED rows /\ Over(j)
    BY <1>0, <1>2, Names DEF OwnerDone, PauseOrFinalize, Over
  <2>2. /\ DOMAIN co' = Workers
        /\ \A v \in Workers : co'[v] \in [Jobs -> CoStates(v)]
        /\ \A v \in Workers, k \in Jobs :
             co'[v][k] = IF v = w /\ k = j THEN Waiting("pause") ELSE co[v][k]
    BY <1>0, <2>1, SetCoFacts, WaitingFacts
  <2>3. Quiet(j) /\ JobSees(j)'
    BY <1>0, <1>1, <2>1, <2>2, WaitingFacts, CancellingQuiet DEF Workers
  <2> QED BY <1>0, <2>3, TorrentStays, Spending, QuietPreserves
<1>3. CASE ~(rows[j].status = "CANCELLING" /\ task[j])
  <2>1. SetCo(w, j, Idle) /\ Finalize(j)
    BY <1>3 DEF OwnerDone, PauseOrFinalize
  <2>2. Over(j) /\ task[j] => rows[j].status = "CANCELLED"
    BY <1>3, Names DEF Over
  <2>3. Quiet(j) /\ JobSees(j)'
    BY <1>0, <2>1, <2>2, CancelEnds DEF InFlight
  <2> QED BY <1>0, <2>3, TorrentStays, Spending, QuietPreserves
<1> QED BY <1>2, <1>3

(* A request that has waited long enough answers, and leaves the wait to   *)
(* a task.                                                                 *)
LEMMA OwnerSlowPreserves ==
    ASSUME IInv, NEW j \in Jobs, OwnerSlow(j)
    PROVE  IInv' /\ RowsStep
<1>0. /\ InFlight(j) /\ TypeOK /\ Up
      /\ UNCHANGED <<rows, task, started, warned, torrent, refresher, boot, spent>>
      /\ co' = [co EXCEPT !["cancel"][j] = Idle,
                          !["rec"][j] = IF @ = Idle THEN Waiting("owner") ELSE @]
  BY OpRuns DEF OwnerSlow, Keep, Beside, IInv
<1>1. /\ DOMAIN co = Workers
      /\ co["cancel"] \in [Jobs -> CancelStates] /\ co["rec"] \in [Jobs -> CancelStates]
      /\ co["op"] \in [Jobs -> OpStates]
  BY <1>0 DEF TypeOK, CoStates, Workers
<1>2. /\ DOMAIN co' = Workers
      /\ co'["op"] = co["op"]
      /\ co'["cancel"] = [co["cancel"] EXCEPT ![j] = Idle]
      /\ co'["rec"] = [co["rec"] EXCEPT
                         ![j] = IF co["rec"][j] = Idle THEN Waiting("owner") ELSE @]
  BY <1>0, <1>1 DEF Workers
<1>3. /\ Waiting("owner") \in CancelStates /\ Waiting("owner").at = "owner"
      /\ ~Waiting("owner").sent
      /\ Idle \in CancelStates /\ Idle.at = "idle" /\ ~Idle.sent
  BY DEF Waiting, CancelStates, Idle
<1>4. /\ \A v \in Workers : co'[v] \in [Jobs -> CoStates(v)]
      /\ \A v \in Workers, k \in Jobs : v = "op" \/ k # j => co'[v][k] = co[v][k]
      /\ \A v \in {"cancel", "rec"} :
           co'[v][j] = co[v][j] \/ (~co'[v][j].sent /\ co'[v][j].at # "pause")
  <2>1. \A v \in Workers : co'[v] \in [Jobs -> CoStates(v)]
    BY <1>1, <1>2, <1>3 DEF Workers, CoStates
  <2>2. \A v \in Workers, k \in Jobs : v = "op" \/ k # j => co'[v][k] = co[v][k]
    BY <1>1, <1>2 DEF Workers
  <2>3. \A v \in {"cancel", "rec"} :
           co'[v][j] = co[v][j] \/ (~co'[v][j].sent /\ co'[v][j].at # "pause")
    BY <1>1, <1>2, <1>3
  <2> QED BY <2>1, <2>2, <2>3
<1>5. Quiet(j) /\ JobSees(j)'
  BY <1>0, <1>2, <1>4, CancellingQuiet
<1> QED BY <1>0, <1>5, TorrentStays, Spending, QuietPreserves

(* request_cancel keeps the slot the job had.                              *)
LEMMA CancelPreserves ==
    ASSUME IInv, NEW j \in Jobs, CancelJob(j)
    PROVE  IInv' /\ RowsStep
<1> DEFINE q == UpdatedRow(rows[j], "CANCELLING", FALSE, TRUE)
<1>0. /\ Up /\ TypeOK /\ JobSees(j)
      /\ co["cancel"][j] = Idle /\ SetCo("cancel", j, Waiting("owner"))
      /\ UNCHANGED <<task, started, warned, torrent, refresher, boot, spent>>
      /\ rows[j].status \notin Terminal \cup {"absent"}
      /\ rows' = IF rows[j].status = "CANCELLING" THEN rows ELSE [rows EXCEPT ![j] = q]
  BY Names DEF CancelJob, NoDetails, Beside, IInv, MayCancel, Acquiring
<1>1. /\ rows[j] \in Row /\ RowOK(rows[j]) /\ rows \in [Jobs -> Row \cup {NoRow}]
  BY <1>0, NoRowIsNoRow DEF IInv, TableOK
<1>2. Move(rows[j], q)
  BY <1>0, <1>1, CancelMove, Names DEF MayBecome
<1>3. q.status = "CANCELLING" /\ q.previous = "none" /\ q.slot = rows[j].slot
  BY Names DEF UpdatedRow, PreviousAfter, SlotAfter
<1> HIDE DEF q
<1>4. /\ UNCHANGED rows \/ TableStep(j)
      /\ rows'[j].status = "CANCELLING" /\ rows'[j].previous = "none"
      /\ rows'[j].slot = rows[j].slot
  <2>1. CASE rows[j].status = "CANCELLING"
    BY <1>0, <1>1, <2>1, NoRowIsNoRow, Names DEF RowOK
  <2>2. CASE rows[j].status # "CANCELLING"
    <3>1. rows' = [rows EXCEPT ![j] = q] /\ rows'[j] = q
      BY <1>0, <1>1, <2>2
    <3>2. q.slot => \A k \in Jobs \ {j} : ~rows[k].slot
      BY <1>3, SlotKept
    <3> QED BY <1>2, <1>3, <3>1, <3>2 DEF TableStep
  <2> QED BY <2>1, <2>2
<1>5. /\ DOMAIN co' = Workers
      /\ \A v \in Workers : co'[v] \in [Jobs -> CoStates(v)]
      /\ \A v \in Workers, k \in Jobs :
           co'[v][k] = IF v = "cancel" /\ k = j THEN Waiting("owner") ELSE co[v][k]
  BY <1>0, SetCoFacts, WaitingFacts
<1>6. OnlyJob(j) /\ co'["op"][j] = co["op"][j]
  BY <1>0, <1>4, <1>5 DEF OnlyJob, TypeOK, Workers
<1>7. Quiet(j)
  BY <1>0, <1>4, <1>5, <1>6, WaitingFacts DEF Quiet, ParkedRightly, Acknowledged
<1>8. Over(j)'
  BY <1>4, Names DEF Over
<1>9. TaskKnown(j)' /\ RefreshSees(j)' /\ BootSees(j)' /\ Owned(j)'
  BY <1>0, <1>4, <1>8
  DEF JobSees, TaskKnown, Uncreated, RefreshSees, BootSees, Owned, Up
<1>10. OpSees(j)'
  BY <1>0, <1>4, <1>6, <1>8 DEF JobSees, OpSees, InFlight
<1>11. CancelSees(j)'
  BY <1>0, <1>5, <1>6, <1>8, WaitingFacts DEF JobSees, CancelSees, Workers
<1> QED
  BY <1>0, <1>7, <1>9, <1>10, <1>11, TorrentStays, Spending, QuietPreserves DEF JobSees

-----------------------------------------------------------------------------
(* The coordinator. *)

(* What a refresh writes: a failure, the next status, or PAUSED.           *)
Refreshed(j) ==
    \/ UNCHANGED rows
    \/ /\ CanWrite(j, "FAILED", FALSE)
       /\ \E retryable \in BOOLEAN : Put(j, "FAILED", retryable)
    \/ \E s \in {"SUBTITLE_MATCHING", "NEEDS_SUBTITLE_SELECTION", "READY_OFFLINE"} :
          CanWrite(j, s, FALSE) /\ Put(j, s, FALSE)
    \/ /\ CanWrite(j, "PAUSED", FALSE) /\ Put(j, "PAUSED", FALSE)
       /\ rows[j].status = "DOWNLOADING" /\ ~InFlight(j)
       /\ ParkedRightly(j)

(* What a refresh may write, whatever its snapshot of the job is by now.   *)
LEMMA RefreshedMoves ==
    ASSUME IInv, NEW j \in Jobs, task[j], Refreshed(j)
    PROVE  \/ UNCHANGED rows
           \/ /\ TableStep(j) /\ ~Over(j) /\ ~Uncreated(rows'[j])
              /\ rows'[j].previous # "PAUSED"
              /\ rows'[j].status \in {"FAILED", "SUBTITLE_MATCHING",
                                      "NEEDS_SUBTITLE_SELECTION", "READY_OFFLINE", "PAUSED"}
              /\ rows'[j].status = "PAUSED" => ~InFlight(j) /\ ParkedRightly(j)
<1>1. JobSees(j) /\ ~Uncreated(rows[j]) /\ rows[j] # NoRow
  BY NoRowIsNoRow DEF IInv, JobSees, TaskKnown, Uncreated
<1>2. ASSUME NEW retryable \in BOOLEAN, CanWrite(j, "FAILED", FALSE),
             Put(j, "FAILED", retryable)
      PROVE  /\ TableStep(j) /\ ~Over(j) /\ ~Uncreated(rows'[j])
             /\ rows'[j].status = "FAILED" /\ rows'[j].previous # "PAUSED"
  BY <1>1, <1>2, FailMoves
<1>3. ASSUME NEW s \in {"SUBTITLE_MATCHING", "NEEDS_SUBTITLE_SELECTION", "READY_OFFLINE"},
             CanWrite(j, s, FALSE), Put(j, s, FALSE)
      PROVE  /\ TableStep(j) /\ ~Over(j) /\ ~Uncreated(rows'[j])
             /\ rows'[j].status = s /\ rows'[j].previous # "PAUSED"
  <2>1. s \in Live \ {"CREATED"}
    BY Names
  <2>2. /\ TableStep(j) /\ rows[j].status \in Live
        /\ rows'[j].status = s /\ rows'[j].previous = "none"
        /\ ~Uncreated(rows'[j])
    BY <1>3, <2>1, ForwardMoves
  <2> QED BY <2>2, Names DEF Over
<1>4. ASSUME CanWrite(j, "PAUSED", FALSE), Put(j, "PAUSED", FALSE),
             rows[j].status = "DOWNLOADING"
      PROVE  /\ TableStep(j) /\ ~Over(j) /\ ~Uncreated(rows'[j])
             /\ rows'[j].status = "PAUSED" /\ rows'[j].previous # "PAUSED"
  <2>1. "PAUSED" \in Statuses \ Cancelled /\ "PAUSED" \in Parked
    BY Names
  <2>2. TableStep(j) /\ rows'[j].status = "PAUSED"
        /\ rows'[j].previous = PreviousAfter(rows[j], "PAUSED")
    BY <1>1, <1>4, <2>1, PutMoves
  <2> QED BY <1>4, <2>1, <2>2, Names DEF PreviousAfter, Over, Uncreated
<1> QED BY <1>2, <1>3, <1>4 DEF Refreshed

(* The next place of a refresh, beside what it writes.                     *)
LEMMA RefreshPreserves ==
    ASSUME IInv, NEW j \in Jobs, Up, task[j], NEW f \in RefreshStates,
           refresher' = [refresher EXCEPT ![j] = f],
           UNCHANGED <<task, warned, torrent, co, boot>>,
           started' = [started EXCEPT ![j] = started[j]],
           f.at \in {"status", "files"} =>
              /\ UNCHANGED rows
              /\ rows[j].status = "DOWNLOADING" /\ ~InFlight(j)
              /\ started[j] = f.started /\ started[j] # "no",
           Refreshed(j),
           Spend \/ UNCHANGED spent
    PROVE  IInv' /\ RowsStep
<1>0. TypeOK /\ JobSees(j) /\ started' = started /\ refresher'[j] = f /\ task[j] = TRUE
  BY DEF IInv, TypeOK
<1>1. \/ UNCHANGED rows
      \/ /\ TableStep(j) /\ ~Over(j) /\ ~Uncreated(rows'[j])
         /\ rows'[j].previous # "PAUSED"
         /\ rows'[j].status \in {"FAILED", "SUBTITLE_MATCHING",
                                 "NEEDS_SUBTITLE_SELECTION", "READY_OFFLINE", "PAUSED"}
         /\ rows'[j].status = "PAUSED" => ~InFlight(j) /\ ParkedRightly(j)
  BY RefreshedMoves
<1>2. OnlyJob(j)
  BY <1>0, <1>1 DEF OnlyJob, TypeOK
<1>3. Quiet(j)
  BY <1>0, <1>1, <1>2 DEF Quiet, ParkedRightly, Acknowledged
<1>4. TaskKnown(j)'
  BY <1>0, <1>1 DEF JobSees, TaskKnown, Over
<1>5. OpSees(j)'
  BY <1>0, <1>1, Names DEF JobSees, OpSees, InFlight, Over
<1>6. RefreshSees(j)'
  BY <1>0, <1>1 DEF JobSees, RefreshSees, InFlight
<1>7. CancelSees(j)' /\ BootSees(j)' /\ Owned(j)'
  BY <1>0, <1>1 DEF JobSees, CancelSees, BootSees, Owned, Up, InFlight, Over
<1> QED
  BY <1>3, <1>4, <1>5, <1>6, <1>7, TorrentStays, Spending, QuietPreserves DEF JobSees

(* A refresh in progress, and the places it may go to. *)
LEMMA RefreshRuns ==
    ASSUME IInv, NEW j \in Jobs
    PROVE  /\ NoRefresh \in RefreshStates /\ NoRefresh.at = "idle"
           /\ \A at \in {"files", "find", "fetch", "select"} :
                 LET f == [refresher[j] EXCEPT !.at = at] IN
                 f \in RefreshStates /\ f.at = at /\ f.started = refresher[j].started
           /\ refresher[j].at # "idle" => Up /\ task[j] /\ RefreshSees(j)
           /\ started = [started EXCEPT ![j] = started[j]]
           /\ rows[j].status \in {"DOWNLOADING", "SUBTITLE_MATCHING",
                                  "NEEDS_SUBTITLE_SELECTION", "READY_OFFLINE",
                                  "TRANSCRIBING"} => task[j]
<1>1. TypeOK /\ JobSees(j) /\ RowOK(rows[j])
  BY DEF IInv, TableOK
<1>2. /\ NoRefresh \in RefreshStates /\ NoRefresh.at = "idle"
  BY DEF RefreshStates, NoRefresh
<1>3. ASSUME NEW at \in {"files", "find", "fetch", "select"}
      PROVE  LET f == [refresher[j] EXCEPT !.at = at] IN
             f \in RefreshStates /\ f.at = at /\ f.started = refresher[j].started
  BY <1>1, RefreshFields DEF RefreshStates
<1>4. refresher[j].at # "idle" => Up /\ task[j] /\ RefreshSees(j)
  BY <1>1, <1>2 DEF JobSees, BootSees, RefreshSees, Up
<1>5. started = [started EXCEPT ![j] = started[j]]
  BY <1>1 DEF TypeOK
<1>6. rows[j].status \in Live \ {"CREATED"} => task[j]
  BY <1>1, Names, NoRowIsNoRow DEF JobSees, TaskKnown, Uncreated, RowOK, Over
<1> QED BY <1>2, <1>3, <1>4, <1>5, <1>6, Names

(* A refresh that fails leaves the job FAILED, unless it is over.          *)
LEMMA RefreshFailsPreserves ==
    ASSUME IInv, NEW j \in Jobs, RefreshFails(j), UNCHANGED started, Coordinator,
           Spend \/ UNCHANGED spent, Up, task[j]
    PROVE  IInv' /\ RowsStep
<1>1. Refreshed(j)
  BY DEF RefreshFails, Refreshed
<1> QED
  BY <1>1, RefreshRuns, RefreshPreserves DEF RefreshFails, RefreshEnds, Coordinator

(* A refresh that finds the media and the subtitle moves the job on.       *)
LEMMA MatchedPreserves ==
    ASSUME IInv, NEW j \in Jobs, NEW s \in {"READY_OFFLINE", "NEEDS_SUBTITLE_SELECTION"},
           Matched(j, s), UNCHANGED <<started, spent>>, Coordinator, Up, task[j]
    PROVE  IInv' /\ RowsStep
<1>1. CASE RefreshFails(j)
  BY <1>1, RefreshFailsPreserves
<1>2. CASE CanWrite(j, s, FALSE) /\ Put(j, s, FALSE) /\ RefreshEnds(j)
  <2>1. Refreshed(j)
    BY <1>2 DEF Refreshed
  <2> QED
    BY <1>2, <2>1, RefreshRuns, RefreshPreserves DEF RefreshEnds, Coordinator
<1> QED BY <1>1, <1>2 DEF Matched

(* A refresh goes on to the next of its calls.                             *)
LEMMA RefreshMovesPreserves ==
    ASSUME IInv, NEW j \in Jobs, NEW at \in {"files", "find", "fetch", "select"},
           Refresh(j, at), Refreshed(j), UNCHANGED <<started, spent>>, Coordinator,
           Up, task[j],
           at = "files" => UNCHANGED rows /\ refresher[j].at = "status" /\ ~Over(j)
    PROVE  IInv' /\ RowsStep
<1> DEFINE f == [refresher[j] EXCEPT !.at = at]
<1>1. f \in RefreshStates /\ f.at = at /\ f.started = refresher[j].started
  BY RefreshRuns
<1>2. refresher' = [refresher EXCEPT ![j] = f]
  BY DEF Refresh, IInv, TypeOK
<1> HIDE DEF f
<1>3. at = "files" => /\ UNCHANGED rows
                      /\ rows[j].status = "DOWNLOADING" /\ ~InFlight(j)
                      /\ started[j] = f.started /\ started[j] # "no"
  BY <1>1 DEF IInv, JobSees, RefreshSees
<1> QED
  BY <1>1, <1>2, <1>3, RefreshRuns, RefreshPreserves DEF Coordinator

(* A refresh ends with what its snapshot says.                             *)
LEMMA RefreshEndsPreserves ==
    ASSUME IInv, NEW j \in Jobs, RefreshEnds(j), Refreshed(j), UNCHANGED <<started, spent>>,
           Coordinator, Up, task[j]
    PROVE  IInv' /\ RowsStep
BY RefreshRuns, RefreshPreserves DEF RefreshEnds, Coordinator

(* The monitor takes a snapshot of the job and asks for the status of its  *)
(* torrent.                                                                *)
LEMMA PollPreserves ==
    ASSUME IInv, NEW j \in Jobs, PollBegins(j)
    PROVE  IInv' /\ RowsStep
<1> DEFINE f == [at |-> "status", started |-> started[j]]
<1>1. /\ rows[j].status = "DOWNLOADING" /\ started[j] # "no" /\ task[j] /\ Up
      /\ refresher' = [refresher EXCEPT ![j] = f]
      /\ UNCHANGED <<rows, started, spent, task, warned, torrent, co, boot>>
  BY DEF PollBegins, Polled, Coordinator
<1>2. f \in RefreshStates /\ f.started = started[j] /\ f.at = "status"
  BY DEF IInv, TypeOK, RefreshStates
<1>3. ~InFlight(j)
  BY <1>1 DEF IInv, JobSees, OpSees
<1>4. Refreshed(j)
  BY <1>1 DEF Refreshed
<1> HIDE DEF f
<1> QED
  BY <1>1, <1>2, <1>3, <1>4, RefreshRuns, RefreshPreserves

(* The status of the torrent arrives: it may be of before a start or a     *)
(* cancellation.                                                           *)
LEMMA StatusPreserves ==
    ASSUME IInv, NEW j \in Jobs, StatusArrives(j)
    PROVE  IInv' /\ RowsStep
<1>0. /\ refresher[j].at = "status" /\ Up /\ task[j] /\ RefreshSees(j)
      /\ Coordinator /\ UNCHANGED spent
  BY RefreshRuns DEF StatusArrives
<1>1. CASE Over(j)
  <2>1. RefreshEnds(j) /\ UNCHANGED <<rows, started>>
    BY <1>1 DEF StatusArrives
  <2> QED BY <1>0, <2>1, RefreshEndsPreserves DEF Refreshed
<1>2. CASE ~Over(j)
  <2>1. /\ rows[j].status = "DOWNLOADING" /\ ~InFlight(j)
        /\ started[j] = refresher[j].started
    BY <1>0, <1>2 DEF RefreshSees
  <2>2. UNCHANGED started
    <3>1. started' = [started EXCEPT ![j] = refresher[j].started]
      BY <1>2 DEF StatusArrives
    <3>2. started = [started EXCEPT ![j] = started[j]]
      BY RefreshRuns
    <3> QED BY <2>1, <3>1, <3>2
  <2>3. CASE /\ torrent.state \in {"held", "stopped"}
             /\ CanWrite(j, "PAUSED", FALSE) /\ Put(j, "PAUSED", FALSE) /\ RefreshEnds(j)
    <3>1. ParkedRightly(j)
      <4>1. torrent.state # "held" => torrent.state = "stopped"
        BY <2>3
      <4>2. started[j] = "yes" => torrent.state = "stopped"
        BY <2>1, <4>1 DEF IInv, StartsRun, Acknowledged, Unheld
      <4>3. started[j] \in {"yes", "unsure"}
        BY <1>0, <1>2, <2>1 DEF IInv, TypeOK, Starts, JobSees, TaskKnown, RefreshSees
      <4> QED BY <4>2, <4>3 DEF ParkedRightly
    <3>2. Refreshed(j)
      BY <2>1, <2>3, <3>1 DEF Refreshed
    <3> QED BY <1>0, <2>2, <2>3, <3>2, RefreshEndsPreserves
  <2>4. CASE RefreshFails(j)
    BY <1>0, <2>2, <2>4, RefreshFailsPreserves
  <2>5. CASE RefreshEnds(j) /\ UNCHANGED rows
    BY <1>0, <2>2, <2>5, RefreshEndsPreserves DEF Refreshed
  <2>6. CASE Refresh(j, "files") /\ UNCHANGED rows
    BY <1>0, <1>2, <2>2, <2>6, RefreshMovesPreserves DEF Refreshed
  <2> QED BY <1>2, <2>3, <2>4, <2>5, <2>6 DEF StatusArrives
<1> QED BY <1>1, <1>2

(* The steps of the coordination of a finished download: files,            *)
(* subtitles, selection.                                                   *)
LEMMA CoordinationPreserves ==
    ASSUME IInv, NEW j \in Jobs, Coordination(j)
    PROVE  IInv' /\ RowsStep
<1>1. CASE PollBegins(j) \/ StatusArrives(j)
  BY <1>1, PollPreserves, StatusPreserves
<1>2. CASE RefreshError(j)
  BY <1>2, RefreshRuns, RefreshFailsPreserves DEF RefreshError
<1>3. CASE FilesArrive(j)
  <2>0. Up /\ task[j] /\ Coordinator /\ UNCHANGED <<started, spent>>
    BY <1>3, RefreshRuns DEF FilesArrive
  <2>1. CASE RefreshFails(j)
    BY <2>0, <2>1, RefreshFailsPreserves
  <2>2. CASE RefreshEnds(j) /\ UNCHANGED rows
    BY <2>0, <2>2, RefreshEndsPreserves DEF Refreshed
  <2>3. Over(j) \/ rows[j].status = "DOWNLOADING"
    BY <1>3 DEF FilesArrive, IInv, JobSees, RefreshSees
  <2>4. CASE CanWrite(j, "SUBTITLE_MATCHING", FALSE) /\ Put(j, "SUBTITLE_MATCHING", FALSE)
             /\ Refresh(j, "find")
    BY <2>0, <2>4, RefreshMovesPreserves DEF Refreshed
  <2>5. CASE ~Over(j) /\ Put(j, "READY_OFFLINE", FALSE) /\ RefreshEnds(j)
    <3>1. rows[j].status = "DOWNLOADING" /\ rows[j].slot
      <4>1. RowOK(rows[j]) /\ rows[j].status = "DOWNLOADING"
        BY <2>3, <2>5 DEF IInv, TableOK
      <4> QED BY <4>1, SlotOfRow, Names
    <3>2. CanWrite(j, "READY_OFFLINE", FALSE)
      <4>1. MayBecome(rows[j], "READY_OFFLINE", FALSE)
        BY <3>1, Names DEF MayBecome, Transitions, Forward
      <4>2. IndexAllows(j, UpdatedRow(rows[j], "READY_OFFLINE", FALSE, rows[j].cancel))
        BY <3>1, SlotKept DEF IndexAllows
      <4> QED BY <4>1, <4>2 DEF CanWrite
    <3> QED BY <2>0, <2>5, <3>2, RefreshEndsPreserves DEF Refreshed
  <2> QED BY <1>3, <2>1, <2>2, <2>3, <2>4, <2>5 DEF FilesArrive
<1>4. CASE MatchBegins(j)
  <2>0. Up /\ task[j] /\ Coordinator /\ UNCHANGED <<started, spent>>
    BY <1>4, RefreshRuns DEF MatchBegins
  <2>1. CASE RefreshFails(j)
    BY <2>0, <2>1, RefreshFailsPreserves
  <2>2. CASE Refresh(j, "find") /\ UNCHANGED rows
    BY <2>0, <2>2, RefreshMovesPreserves DEF Refreshed
  <2>3. CASE Matched(j, "READY_OFFLINE")
    BY <2>0, <2>3, MatchedPreserves
  <2> QED BY <1>4, <2>1, <2>2, <2>3 DEF MatchBegins
<1>5. CASE CandidatesArrive(j)
  <2>0. Up /\ task[j] /\ Coordinator /\ UNCHANGED <<started, spent>>
    BY <1>5, RefreshRuns DEF CandidatesArrive
  <2>1. CASE RefreshEnds(j) /\ UNCHANGED rows
    BY <2>0, <2>1, RefreshEndsPreserves DEF Refreshed
  <2>2. CASE Refresh(j, "fetch") /\ UNCHANGED rows
    BY <2>0, <2>2, RefreshMovesPreserves DEF Refreshed
  <2>3. CASE Matched(j, "READY_OFFLINE") \/ Matched(j, "NEEDS_SUBTITLE_SELECTION")
    BY <2>0, <2>3, MatchedPreserves
  <2> QED BY <1>5, <2>1, <2>2, <2>3 DEF CandidatesArrive
<1>6. CASE SubtitleArrives(j)
  <2>0. Up /\ task[j] /\ Coordinator /\ UNCHANGED <<started, spent>>
    BY <1>6, RefreshRuns DEF SubtitleArrives
  <2>1. CASE RefreshEnds(j) /\ UNCHANGED rows
    BY <2>0, <2>1, RefreshEndsPreserves DEF Refreshed
  <2>2. CASE Matched(j, "READY_OFFLINE")
    BY <2>0, <2>2, MatchedPreserves
  <2> QED BY <1>6, <2>1, <2>2 DEF SubtitleArrives
<1>7. CASE SelectionArrives(j)
  <2>0. Up /\ task[j] /\ Coordinator /\ UNCHANGED <<started, spent>> /\ RefreshEnds(j)
    BY <1>7, RefreshRuns DEF SelectionArrives
  <2>1. Refreshed(j)
    BY <1>7 DEF SelectionArrives, Refreshed
  <2> QED BY <2>0, <2>1, RefreshEndsPreserves
<1> QED
  BY <1>1, <1>2, <1>3, <1>4, <1>5, <1>6, <1>7 DEF Coordination

(* The user chooses a subtitle, or recognition.                            *)
LEMMA SelectionPreserves ==
    ASSUME IInv, NEW j \in Jobs, SelectAsr(j) \/ SelectSubtitle(j)
    PROVE  IInv' /\ RowsStep
<1>0. /\ Up /\ refresher[j] = NoRefresh /\ task[j] /\ RowOK(rows[j])
      /\ rows[j].status = "NEEDS_SUBTITLE_SELECTION"
      /\ UNCHANGED <<started, spent>> /\ Coordinator
  BY RefreshRuns DEF SelectAsr, SelectSubtitle, IInv, TableOK
<1>1. CASE SelectAsr(j)
  <2>1. rows[j].slot
    BY <1>0, SlotOfRow, Names
  <2>2. MayBecome(rows[j], "READY_OFFLINE", FALSE)
    BY <1>0, Names DEF MayBecome, Transitions, Forward
  <2>3. IndexAllows(j, UpdatedRow(rows[j], "READY_OFFLINE", FALSE, rows[j].cancel))
    BY <2>1, SlotKept DEF IndexAllows
  <2>4. Refreshed(j)
    BY <1>1, <2>2, <2>3 DEF SelectAsr, CanWrite, Refreshed
  <2>5. refresher' = [refresher EXCEPT ![j] = NoRefresh]
    BY <1>0, <1>1 DEF SelectAsr, IInv, TypeOK
  <2> QED BY <1>0, <2>4, <2>5, RefreshRuns, RefreshPreserves DEF Coordinator
<1>2. CASE SelectSubtitle(j)
  BY <1>0, <1>2, RefreshMovesPreserves DEF SelectSubtitle, Refreshed
<1> QED BY <1>1, <1>2

-----------------------------------------------------------------------------
(* The environment. *)

(* The worker only ever has a job whose torrent is known, and leaves it    *)
(* nowhere the acquisition would go on from.                               *)
LEMMA WorkerMoves ==
    ASSUME IInv, NEW j \in Jobs, WorkerTakes(j) \/ WorkerLeaves(j)
    PROVE  /\ TableStep(j) /\ rows[j].status \in {"READY_OFFLINE", "TRANSCRIBING"}
           /\ ~Uncreated(rows'[j]) /\ rows'[j].previous # "PAUSED"
           /\ rows'[j].status \in {"TRANSCRIBING", "FAILED", "COMPLETED"}
<1>0. /\ rows[j] \in Row /\ RowOK(rows[j]) /\ rows \in [Jobs -> Row \cup {NoRow}]
      /\ rows[j].status \in {"READY_OFFLINE", "TRANSCRIBING"}
      /\ rows[j].slot /\ rows[j].previous = "none" /\ rows[j] # NoRow
      /\ rows[j].cancel = FALSE
  <2>1. rows[j].status \in {"READY_OFFLINE", "TRANSCRIBING"}
    BY DEF WorkerTakes, WorkerLeaves
  <2>2. RowOK(rows[j]) /\ rows \in [Jobs -> Row \cup {NoRow}]
    BY DEF IInv, TableOK
  <2>3. rows[j] # NoRow /\ rows[j] \in Row
    BY <2>1, <2>2, NoRowIsNoRow DEF RowOK
  <2> QED BY <2>1, <2>2, <2>3, Names DEF RowOK, Row
<1>1. ASSUME NEW s \in Statuses, MayBecome(rows[j], s, FALSE)
      PROVE  CanWrite(j, s, FALSE)
  BY <1>0, <1>1, SlotKept DEF CanWrite, IndexAllows
<1>2. CASE WorkerTakes(j)
  <2>1. MayBecome(rows[j], "TRANSCRIBING", FALSE)
    BY <1>2, Names DEF WorkerTakes, MayBecome, Transitions, Forward
  <2> QED
    BY <1>0, <1>1, <1>2, <2>1, ForwardMoves, Names DEF WorkerTakes
<1>3. CASE rows[j].status = "TRANSCRIBING" /\ Put(j, "FAILED", TRUE)
  <2>1. MayBecome(rows[j], "FAILED", FALSE)
    BY <1>3, Names DEF MayBecome, Transitions, CannotFail
  <2>2. ~Uncreated(rows[j])
    BY <1>0 DEF Uncreated
  <2> QED
    BY <1>0, <1>1, <1>3, <2>1, <2>2, FailMoves, Names
<1>4. CASE rows[j].status = "TRANSCRIBING" /\ Put(j, "COMPLETED", FALSE)
  <2> DEFINE q == UpdatedRow(rows[j], "COMPLETED", FALSE, rows[j].cancel)
  <2>1. RowOK(q) /\ q \in Row
    BY <1>0, UpdatedRowOK, Names
  <2>2. q.status = "COMPLETED" /\ q.previous = "none" /\ q.slot = FALSE
    <3>1. ("COMPLETED" \in Active) = FALSE
      BY Names
    <3> QED BY <3>1, Names DEF UpdatedRow, PreviousAfter, SlotAfter
  <2>3. rows' = [rows EXCEPT ![j] = q] /\ rows'[j] = q
    BY <1>0, <1>4 DEF Put
  <2> HIDE DEF q
  <2>4. Move(rows[j], q)
    BY <1>0, <1>4, <2>1, <2>2, NoRowIsNoRow, Names DEF Move
  <2> QED BY <1>0, <2>2, <2>3, <2>4 DEF TableStep, Uncreated
<1> QED BY <1>2, <1>3, <1>4 DEF WorkerLeaves

(* The worker takes a job that is acquired, and leaves it.                 *)
LEMMA WorkerPreserves ==
    ASSUME IInv, NEW j \in Jobs, WorkerTakes(j) \/ WorkerLeaves(j)
    PROVE  IInv' /\ RowsStep
<1>0. /\ TypeOK /\ JobSees(j) /\ ~Over(j) /\ task[j]
      /\ UNCHANGED <<torrent, spent, task, started, warned, co, refresher, boot>>
      /\ TableStep(j) /\ rows[j].status \in {"READY_OFFLINE", "TRANSCRIBING"}
      /\ ~Uncreated(rows'[j]) /\ rows'[j].previous # "PAUSED"
      /\ rows'[j].status \in {"TRANSCRIBING", "FAILED", "COMPLETED"}
  BY WorkerMoves, RefreshRuns, Names DEF WorkerTakes, WorkerLeaves, World, IInv, Over
<1>1. OnlyJob(j)
  BY <1>0 DEF OnlyJob, TypeOK
<1>2. Quiet(j)
  BY <1>0, <1>1 DEF Quiet, ParkedRightly, Acknowledged
<1>3. TaskKnown(j)' /\ RefreshSees(j)' /\ OpSees(j)'
  BY <1>0 DEF JobSees, TaskKnown, RefreshSees, OpSees, InFlight, Over
<1>4. CancelSees(j)' /\ BootSees(j)' /\ Owned(j)'
  BY <1>0 DEF JobSees, CancelSees, BootSees, Owned, Up, Over
<1> QED
  BY <1>0, <1>2, <1>3, <1>4, TorrentStays, Spending, QuietPreserves DEF JobSees

(* The torrent completes, or the user stops it behind the back of the      *)
(* program.                                                                *)
LEMMA TorrentPreserves ==
    ASSUME IInv, TorrentCompletes \/ UserStopsTorrent
    PROVE  IInv' /\ RowsStep
<1>0. /\ UNCHANGED <<rows, task, started, warned, co, refresher, boot>>
      /\ torrent.state = "running"
      /\ \E s \in {"done", "stopped"} : torrent' = [torrent EXCEPT !.state = s]
  BY DEF TorrentCompletes, UserStopsTorrent, World
<1>1. /\ torrent' \in TorrentStates /\ Unheld(torrent') /\ torrent'.state # "running"
  BY <1>0 DEF IInv, TypeOK, TorrentStates, Unheld
<1>2. spent' \in SpentStates
  <2>1. CASE TorrentCompletes
    BY <2>1 DEF TorrentCompletes, IInv, TypeOK
  <2>2. CASE UserStopsTorrent
    <3>1. spent \in SpentStates /\ spent.stop + 1 \in 0..MaxStops
      BY <2>2, DownloadAssumption DEF UserStopsTorrent, IInv, TypeOK, SpentStates
    <3> QED BY <2>2, <3>1 DEF UserStopsTorrent, SpentStates
  <2> QED BY <2>1, <2>2
<1>3. TypeOK' /\ TableOK(Jobs, rows')
  BY <1>0, <1>1, <1>2 DEF IInv, TypeOK
<1>4. ASSUME NEW j \in Jobs PROVE JobSees(j)'
  <2>1. JobSees(j) /\ torrent'.state # "none"
    BY <1>1 DEF IInv, Unheld
  <2>2. TaskKnown(j)' /\ RefreshSees(j)' /\ OpSees(j)'
    BY <1>0, <2>1 DEF JobSees, TaskKnown, RefreshSees, OpSees, InFlight, Over
  <2>3. CancelSees(j)' /\ BootSees(j)' /\ Owned(j)'
    BY <1>0, <2>1 DEF JobSees, CancelSees, BootSees, Owned, Up, Over, InFlight
  <2> QED BY <2>2, <2>3 DEF JobSees
<1>5. LockSees'
  BY <1>0 DEF IInv, LockSees, Pausing, Acknowledged
<1>6. RunningIsKnown' /\ StartsRun'
  BY <1>1 DEF RunningIsKnown, StartsRun
<1> QED BY <1>0, <1>3, <1>4, <1>5, <1>6 DEF IInv, RowsStep, ParkedRightly

-----------------------------------------------------------------------------
(* The restart of the API. *)

(* While the API does not serve there is no coroutine and no call.         *)
LEMMA BootIsAlone ==
    ASSUME IInv, ~Up
    PROVE  /\ \A j \in Jobs : /\ refresher[j] = NoRefresh /\ refresher[j].at = "idle"
                              /\ \A w \in Workers : co[w][j] = Idle
                              /\ co["op"][j].at = "idle"
           /\ \A j \in Jobs : ~InFlight(j)
BY DEF IInv, JobSees, BootSees, Up, InFlight, Workers, Idle, NoRefresh

(* Without coroutines the invariant is about rows, torrent and lifespan.   *)
LEMMA BootPreserves ==
    ASSUME IInv, ~Up, UNCHANGED <<task, co, refresher>>,
           rows' = rows \/ \E j \in Jobs : TableStep(j),
           \A j \in Jobs : rows'[j].status = "PAUSED" => rows'[j].status = rows[j].status,
           started' \in [Jobs -> Starts], warned' \in [Jobs -> BOOLEAN],
           torrent' \in TorrentStates, boot' \in BootStates, spent' \in SpentStates,
           \A j \in Jobs : TaskKnown(j)' /\ BootSees(j)',
           boot'.at = "up" => \A j \in Jobs : rows'[j].status # "CREATED",
           RunningIsKnown', StartsRun'
    PROVE  IInv' /\ RowsStep
<1>1. TypeOK /\ TableOK(Jobs, rows) /\ Idle.at = "idle" /\ Idle.sent = FALSE
      /\ NoRefresh.at = "idle" /\ {"op", "cancel", "rec"} = Workers
  BY DEF IInv, Idle, NoRefresh, Workers
<1>2. TableOK(Jobs, rows')
  BY <1>1, TableKept
<1>3. TypeOK'
  BY <1>1, <1>2 DEF TypeOK, TableOK
<1>4. ASSUME NEW j \in Jobs PROVE JobSees(j)'
  <2>1. OpSees(j)' /\ RefreshSees(j)' /\ CancelSees(j)'
    BY <1>1, BootIsAlone DEF OpSees, RefreshSees, CancelSees, InFlight
  <2>2. Owned(j)'
    BY DEF Owned, Up
  <2> QED BY <2>1, <2>2 DEF JobSees
<1>5. LockSees'
  BY <1>1, BootIsAlone DEF LockSees
<1> QED BY <1>2, <1>3, <1>4, <1>5 DEF IInv, RowsStep, ParkedRightly

(* Interrupted creations fail: at most one, for each has the slot. *)
LEMMA CreationsFail ==
    ASSUME IInv, ApiStart
    PROVE  /\ rows' = rows \/ \E j \in Jobs : TableStep(j)
           /\ \A j \in Jobs :
                /\ rows'[j].status # "CREATED" /\ rows'[j].previous # "PAUSED"
                /\ Uncreated(rows'[j]) <=> Uncreated(rows[j])
                /\ rows'[j].status # rows[j].status =>
                     rows'[j].status = "FAILED" /\ ~Over(j)
<1> DEFINE new(j) == UpdatedRow(rows[j], "FAILED", TRUE, rows[j].cancel)
<1>0. /\ rows' = [j \in Jobs |-> IF rows[j].status = "CREATED" THEN new(j) ELSE rows[j]]
      /\ TableOK(Jobs, rows) /\ \A j \in Jobs : JobSees(j)
  BY DEF ApiStart, IInv
<1>1. CASE \A j \in Jobs : rows[j].status # "CREATED"
  <2>1. rows' = rows
    BY <1>0, <1>1 DEF TableOK
  <2> QED BY <1>0, <1>1, <2>1 DEF JobSees, TaskKnown
<1>2. ASSUME NEW j \in Jobs, rows[j].status = "CREATED"
      PROVE  /\ \E k \in Jobs : TableStep(k)
             /\ \A k \in Jobs :
                  /\ rows'[k].status # "CREATED" /\ rows'[k].previous # "PAUSED"
                  /\ Uncreated(rows'[k]) <=> Uncreated(rows[k])
                  /\ rows'[k].status # rows[k].status =>
                       rows'[k].status = "FAILED" /\ ~Over(k)
  <2>1. \A k \in Jobs \ {j} : rows[k].status # "CREATED"
    <3>1. \A k \in Jobs : rows[k].status = "CREATED" => rows[k].slot
      BY <1>0, SlotOfRow, Names DEF TableOK
    <3> QED BY <1>0, <1>2, <3>1 DEF TableOK
  <2>2. Put(j, "FAILED", TRUE)
    BY <1>0, <1>2, <2>1 DEF Put, TableOK
  <2>3. CanWrite(j, "FAILED", FALSE)
    <3>1. "FAILED" \in Transitions("CREATED")
      BY Names DEF Transitions, CannotFail
    <3>2. ~UpdatedRow(rows[j], "FAILED", FALSE, rows[j].cancel).slot
      BY Names DEF UpdatedRow, SlotAfter
    <3> QED BY <1>2, <3>1, <3>2 DEF CanWrite, MayBecome, IndexAllows
  <2>4. /\ TableStep(j) /\ ~Over(j)
        /\ rows'[j].status = "FAILED" /\ rows'[j].previous # "PAUSED"
        /\ Uncreated(rows'[j]) <=> Uncreated(rows[j])
    BY <1>2, <2>2, <2>3, FailMoves, NoRowIsNoRow
  <2>5. \A k \in Jobs \ {j} : rows'[k] = rows[k]
    BY <2>4, TableKept
  <2> QED BY <1>0, <2>1, <2>4, <2>5 DEF JobSees, TaskKnown
<1> QED BY <1>1, <1>2

(* The API starts again: creations that were interrupted have failed.      *)
LEMMA ApiStartPreserves ==
    ASSUME IInv, ApiStart
    PROVE  IInv' /\ RowsStep
<1> DEFINE todo == {j \in Jobs : rows[j].status = "DOWNLOADING" /\ started[j] = "no"}
<1>0. /\ ~Up /\ boot.at = "down" /\ TypeOK /\ TableOK(Jobs, rows)
      /\ boot' = [at |-> "starting", called |-> "none", todo |-> todo]
      /\ UNCHANGED <<task, started, torrent, spent, co, refresher, warned>>
  BY DEF ApiStart, Lifespan, Up, IInv
<1>1. /\ rows' = rows \/ \E j \in Jobs : TableStep(j)
      /\ \A j \in Jobs :
           /\ rows'[j].status # "CREATED" /\ rows'[j].previous # "PAUSED"
           /\ Uncreated(rows'[j]) <=> Uncreated(rows[j])
           /\ rows'[j].status # rows[j].status =>
                rows'[j].status = "FAILED" /\ ~Over(j)
  BY CreationsFail
<1>2. boot' \in BootStates /\ boot'.at = "starting" /\ boot'.called = "none"
      /\ boot'.todo = todo
  BY <1>0 DEF BootStates
<1>3. ASSUME NEW j \in todo PROVE rows'[j].status = "DOWNLOADING"
  <2>1. rows[j].status = "DOWNLOADING" /\ j \in Jobs
    OBVIOUS
  <2>2. rows'[j] = IF rows[j].status = "CREATED"
                   THEN UpdatedRow(rows[j], "FAILED", TRUE, rows[j].cancel) ELSE rows[j]
    BY <2>1 DEF ApiStart
  <2> QED BY <2>1, <2>2
<1>4. ASSUME NEW j \in Jobs PROVE TaskKnown(j)' /\ BootSees(j)'
  <2>1. JobSees(j)
    BY DEF IInv
  <2>2. TaskKnown(j)'
    BY <1>0, <1>1, <2>1, Names DEF JobSees, TaskKnown, Over
  <2>3. BootSees(j)'
    BY <1>0, <1>1, <1>2, <1>3, <2>1, BootIsAlone DEF BootSees
  <2> QED BY <2>2, <2>3
<1>5. RunningIsKnown' /\ StartsRun'
  <2>1. \A j \in Jobs : Acknowledged(j)' => Acknowledged(j)
    BY <1>0, <1>1 DEF Acknowledged
  <2>2. \A j \in Jobs : rows'[j].status = "CANCELLED" => rows[j].status = "CANCELLED"
    BY <1>1
  <2> QED BY <1>0, <1>2, <2>1, <2>2 DEF IInv, RunningIsKnown, StartsRun
<1>6. /\ started' \in [Jobs -> Starts] /\ warned' \in [Jobs -> BOOLEAN]
      /\ torrent' \in TorrentStates /\ spent' \in SpentStates
  BY <1>0 DEF TypeOK
<1> HIDE DEF todo
<1> QED
  BY <1>0, <1>1, <1>2, <1>4, <1>5, <1>6, BootPreserves

(* A download whose start was not acknowledged is started again: it runs,  *)
(* is held, or nobody knows.                                               *)
LEMMA BootCallsPreserves ==
    ASSUME IInv, BootCalls
    PROVE  IInv' /\ RowsStep
<1>0. /\ ~Up /\ boot.at = "starting" /\ boot.todo # {} /\ TypeOK
      /\ UNCHANGED <<rows, task, started, co, refresher, warned>>
      /\ spent' \in SpentStates /\ torrent \in TorrentStates
  BY Spending DEF BootCalls, Lifespan, Up, IInv, TypeOK
<1>1. boot \in [at : {"starting"}, called : {"none", "ok", "paused", "failed"},
                todo : SUBSET Jobs]
  BY <1>0, BootFields
<1>2. \E called \in {"ok", "paused", "failed"} :
         /\ boot' = [boot EXCEPT !.called = called]
         /\ torrent' \in {torrent, Running(torrent), Held(torrent)}
         /\ called = "ok" => torrent' = Running(torrent)
  BY DEF BootCalls
<1>3. /\ boot' \in BootStates /\ boot'.at = "starting" /\ boot'.todo = boot.todo
      /\ boot'.called = "ok" => torrent' = Running(torrent)
  BY <1>1, <1>2 DEF BootStates
<1>4. PICK j \in Jobs : j \in boot.todo
  BY <1>0, <1>1
<1>5. /\ rows[j].status = "DOWNLOADING" /\ started[j] = "no" /\ task[j]
      /\ torrent.state # "none" /\ rows[j].slot
  <2>1. rows[j].status = "DOWNLOADING" /\ started[j] = "no" /\ RowOK(rows[j]) /\ JobSees(j)
    BY <1>0, <1>4 DEF IInv, JobSees, BootSees, TableOK
  <2>2. task[j]
    BY <2>1, RefreshRuns
  <2> QED BY <2>1, <2>2, SlotOfRow, Names DEF JobSees, TaskKnown
<1>6. \A k \in Jobs : ~Acknowledged(k)
  BY <1>5, SlotIsolates DEF Acknowledged
<1>7. torrent' \in TorrentStates /\ torrent'.state # "none"
      /\ Unheld(Running(torrent))
  BY <1>0, <1>2, <1>5, TorrentCalls
<1>8. RunningIsKnown' /\ StartsRun'
  BY <1>0, <1>3, <1>5, <1>6, <1>7 DEF RunningIsKnown, StartsRun, Acknowledged
<1>9. ASSUME NEW k \in Jobs PROVE TaskKnown(k)' /\ BootSees(k)'
  BY <1>0, <1>3, <1>7, BootIsAlone DEF IInv, JobSees, TaskKnown, BootSees, Over
<1> QED
  BY <1>0, <1>3, <1>7, <1>8, <1>9, BootPreserves DEF TypeOK

(* What the call of the restart said is written to the row.                *)
LEMMA BootRecordsPreserves ==
    ASSUME IInv, BootRecords
    PROVE  IInv' /\ RowsStep
<1>0. /\ ~Up /\ boot.at = "starting" /\ TypeOK
      /\ UNCHANGED <<task, torrent, spent, co, refresher, warned>>
      /\ torrent' \in TorrentStates /\ spent' \in SpentStates
      /\ warned' \in [Jobs -> BOOLEAN]
  BY DEF BootRecords, Lifespan, Up, IInv, TypeOK
<1>1. boot \in [at : {"starting"}, called : {"none", "ok", "paused", "failed"},
                todo : SUBSET Jobs]
  BY <1>0, BootFields
<1>2. PICK j \in boot.todo :
         /\ boot' = [boot EXCEPT !.called = "none", !.todo = @ \ {j}]
         /\ IF boot.called = "paused"
            THEN Put(j, "FAILED", TRUE) /\ UNCHANGED started
            ELSE /\ started' = [started EXCEPT ![j] = IF boot.called = "ok"
                                                      THEN "yes" ELSE "unsure"]
                 /\ UNCHANGED rows
  BY DEF BootRecords
<1>3. /\ boot' \in BootStates /\ boot'.at = "starting" /\ boot'.todo = boot.todo \ {j}
      /\ boot'.called = "none" /\ j \in Jobs
  BY <1>1, <1>2 DEF BootStates
<1>4. /\ rows[j].status = "DOWNLOADING" /\ started[j] = "no" /\ RowOK(rows[j])
      /\ JobSees(j) /\ task[j]
  BY <1>0, <1>2, <1>3, RefreshRuns DEF IInv, JobSees, BootSees, TableOK
<1>5. CASE boot.called = "paused"
  <2>1. CanWrite(j, "FAILED", FALSE)
    <3>1. "FAILED" \in Transitions("DOWNLOADING")
      BY Names DEF Transitions, CannotFail
    <3>2. ~UpdatedRow(rows[j], "FAILED", FALSE, rows[j].cancel).slot
      BY Names DEF UpdatedRow, SlotAfter
    <3> QED BY <1>4, <3>1, <3>2 DEF CanWrite, MayBecome, IndexAllows
  <2>2. /\ TableStep(j) /\ rows'[j].status = "FAILED" /\ rows'[j].previous # "PAUSED"
        /\ Uncreated(rows'[j]) <=> Uncreated(rows[j])
    BY <1>2, <1>3, <1>4, <1>5, <2>1, FailMoves, NoRowIsNoRow
  <2>3. \A k \in Jobs \ {j} : rows'[k] = rows[k]
    BY <1>3, <2>2, TableKept
  <2>4. started' = started
    BY <1>2, <1>5
  <2>5. ASSUME NEW k \in Jobs PROVE TaskKnown(k)' /\ BootSees(k)'
    <3>1. JobSees(k)
      BY DEF IInv
    <3>2. TaskKnown(k)'
      BY <1>0, <1>4, <2>2, <2>3, <2>4, <3>1, Names DEF JobSees, TaskKnown, Over
    <3>3. BootSees(k)'
      BY <1>0, <1>3, <2>2, <2>3, <2>4, <3>1, BootIsAlone DEF JobSees, BootSees
    <3> QED BY <3>2, <3>3
  <2>6. RunningIsKnown' /\ StartsRun'
    BY <1>0, <1>3, <1>4, <2>2, <2>3, <2>4
    DEF IInv, RunningIsKnown, StartsRun, Acknowledged
  <2>7. \A k \in Jobs : rows'[k].status = "PAUSED" => rows'[k].status = rows[k].status
    BY <2>2, <2>3
  <2> QED BY <1>0, <1>3, <2>2, <2>4, <2>5, <2>6, <2>7, BootPreserves DEF TypeOK
<1>6. CASE boot.called # "paused"
  <2>1. /\ rows' = rows /\ started' \in [Jobs -> Starts]
        /\ started'[j] \in {"yes", "unsure"}
        /\ started'[j] = "yes" => boot.called = "ok"
        /\ \A k \in Jobs \ {j} : started'[k] = started[k]
    BY <1>0, <1>2, <1>3, <1>6 DEF TypeOK, Starts
  <2>2. ASSUME NEW k \in Jobs PROVE TaskKnown(k)' /\ BootSees(k)'
    BY <1>0, <1>3, <2>1, BootIsAlone DEF IInv, JobSees, TaskKnown, BootSees, Over
  <2>3. RunningIsKnown' /\ StartsRun'
    BY <1>0, <1>3, <2>1 DEF IInv, RunningIsKnown, StartsRun, Acknowledged
  <2> QED BY <1>0, <1>3, <2>1, <2>2, <2>3, BootPreserves
<1> QED BY <1>5, <1>6

(* The restart lists the cancellations that were left.                     *)
LEMMA BootCancelsPreserves ==
    ASSUME IInv, BootCancels
    PROVE  IInv' /\ RowsStep
<1> DEFINE todo == {j \in Jobs : rows[j].status = "CANCELLING"}
<1>0. /\ ~Up /\ boot.at = "starting" /\ TypeOK
      /\ boot' = [at |-> "settling", todo |-> todo]
      /\ UNCHANGED <<rows, task, started, torrent, spent, co, refresher, warned>>
  BY DEF BootCancels, Lifespan, Up, IInv
<1>1. boot' \in BootStates /\ boot'.at = "settling" /\ boot'.todo = todo
  BY <1>0 DEF BootStates
<1>2. ASSUME NEW k \in Jobs PROVE TaskKnown(k)' /\ BootSees(k)'
  BY <1>0, <1>1, BootIsAlone, Names DEF IInv, JobSees, TaskKnown, BootSees, Over
<1>3. RunningIsKnown' /\ StartsRun'
  BY <1>0, <1>1 DEF IInv, RunningIsKnown, StartsRun, Acknowledged
<1> HIDE DEF todo
<1> QED BY <1>0, <1>1, <1>2, <1>3, BootPreserves DEF TypeOK

(* A cancellation that was left is finalized with its torrent held, or     *)
(* deferred; then requests are served.                                     *)
LEMMA BootSettlesPreserves ==
    ASSUME IInv, BootSettles
    PROVE  IInv' /\ RowsStep
<1>0. /\ ~Up /\ boot.at = "settling" /\ TypeOK
      /\ UNCHANGED <<task, started, co, refresher>>
      /\ started' \in [Jobs -> Starts] /\ torrent \in TorrentStates
  BY DEF BootSettles, Up, IInv, TypeOK
<1>1. CASE boot.todo = {}
  <2>1. /\ boot' = [at |-> "up"] /\ boot' \in BootStates /\ boot'.at = "up"
        /\ UNCHANGED <<rows, warned, torrent, spent>>
    BY <1>0, <1>1 DEF BootSettles, BootStates
  <2>2. ASSUME NEW k \in Jobs
        PROVE  TaskKnown(k)' /\ BootSees(k)' /\ rows'[k].status # "CREATED"
    BY <1>0, <2>1 DEF IInv, JobSees, TaskKnown, BootSees, Over
  <2>3. RunningIsKnown' /\ StartsRun'
    BY <1>0, <2>1 DEF IInv, RunningIsKnown, StartsRun, Acknowledged
  <2> QED BY <1>0, <2>1, <2>2, <2>3, BootPreserves DEF TypeOK
<1>2. CASE boot.todo # {}
  <2>1. boot \in [at : {"settling"}, todo : SUBSET Jobs]
    BY <1>0, BootFields
  <2>2. PICK j \in boot.todo :
         /\ boot' = [boot EXCEPT !.todo = @ \ {j}]
         /\ \/ /\ task[j] => ~Deferred(j)
               /\ Finalize(j)
               /\ torrent' = IF task[j] THEN Held(torrent) ELSE torrent
               /\ UNCHANGED <<warned, spent>>
            \/ /\ task[j] /\ Deferred(j)
               /\ warned' = [warned EXCEPT ![j] = TRUE]
               /\ UNCHANGED <<rows, torrent, spent>>
            \/ /\ task[j] /\ ~Deferred(j) /\ Spend
               /\ warned' = [warned EXCEPT ![j] = TRUE]
               /\ torrent' \in {torrent, Held(torrent)}
               /\ UNCHANGED rows
    BY <1>2 DEF BootSettles
  <2>3. /\ boot' \in BootStates /\ boot'.at = "settling" /\ boot'.todo = boot.todo \ {j}
        /\ j \in Jobs
    BY <2>1, <2>2 DEF BootStates
  <2>4. Over(j) /\ JobSees(j) /\ ~Acknowledged(j)
    BY <1>0, <2>2, <2>3, Names DEF IInv, JobSees, BootSees, Over, Acknowledged
  <2>5. /\ warned' \in [Jobs -> BOOLEAN] /\ spent' \in SpentStates
        /\ torrent' \in TorrentStates
        /\ torrent.state # "none" => torrent'.state # "none"
        /\ torrent'.state = "running" => torrent' = torrent
    <3>1. warned' \in [Jobs -> BOOLEAN]
      BY <1>0, <2>2 DEF TypeOK
    <3>2. spent' \in SpentStates
      BY <2>2, Spending
    <3>3. torrent' = torrent \/ torrent' = Held(torrent)
      BY <2>2
    <3>4. CASE torrent' = torrent
      BY <1>0, <3>1, <3>2, <3>4
    <3>5. CASE torrent' = Held(torrent)
      BY <1>0, <2>3, <3>1, <3>2, <3>5, TorrentCalls
    <3> QED BY <3>3, <3>4, <3>5
  <2>6. torrent' # torrent => \A k \in Jobs : ~Acknowledged(k)
    BY <2>2, <2>3, <2>4, NobodyRuns
  <2>7. /\ rows' = rows \/ TableStep(j)
        /\ \A k \in Jobs \ {j} : rows'[k] = rows[k]
        /\ rows'[j].status \in Cancelled /\ rows'[j].previous # "PAUSED"
        /\ rows'[j].status # rows[j].status =>
             ~task[j] \/ torrent'.state # "running"
    <3>1. CASE rows' = rows
      BY <2>4, <3>1 DEF Over, JobSees, TaskKnown
    <3>2. CASE Finalize(j) /\ torrent' = IF task[j] THEN Held(torrent) ELSE torrent
      BY <1>0, <2>3, <2>4, <3>2, FinalizeMoves, TorrentCalls, Names
    <3> QED BY <2>2, <3>1, <3>2
  <2>8. ASSUME NEW k \in Jobs PROVE TaskKnown(k)' /\ BootSees(k)'
    <3>1. JobSees(k)
      BY DEF IInv
    <3>2. CASE k # j
      BY <1>0, <2>3, <2>5, <2>7, <3>1, <3>2, BootIsAlone
      DEF JobSees, TaskKnown, BootSees, Over
    <3>3. CASE k = j
      <4>1. rows'[j] \in Row /\ RowOK(rows'[j])
        BY <2>3, <2>4, <2>7, TableKept, NoRowIsNoRow, Names DEF IInv, TableOK, Over
      <4>2. ~Uncreated(rows'[j])
        BY <2>7, <4>1, Names, NoRowIsNoRow DEF RowOK, Uncreated
      <4>3. TaskKnown(j)'
        BY <1>0, <2>4, <2>5, <2>7, <4>2 DEF JobSees, TaskKnown, Over
      <4>4. BootSees(j)'
        BY <1>0, <2>3, <2>7, BootIsAlone, Names DEF BootSees
      <4> QED BY <3>3, <4>3, <4>4
    <3> QED BY <3>2, <3>3
  <2>9. RunningIsKnown'
    <3>1. ASSUME torrent'.state = "running"
          PROVE  \E k \in Jobs : task'[k] /\ rows'[k].status # "CANCELLED"
      <4>1. PICK k \in Jobs : task[k] /\ rows[k].status # "CANCELLED"
        BY <2>5, <3>1 DEF IInv, RunningIsKnown
      <4>2. rows'[k].status = rows[k].status
        BY <2>7, <3>1, <4>1
      <4> QED BY <1>0, <4>1, <4>2
    <3> QED BY <3>1 DEF RunningIsKnown
  <2>10. StartsRun'
    <3>1. \A k \in Jobs : Acknowledged(k)' => Acknowledged(k)
      BY <1>0, <2>7, Names DEF Acknowledged
    <3> QED BY <2>3, <2>6, <3>1 DEF IInv, StartsRun
  <2>11. \A k \in Jobs : rows'[k].status = "PAUSED" => rows'[k].status = rows[k].status
    BY <2>7, Names
  <2> QED
    BY <1>0, <2>3, <2>5, <2>7, <2>8, <2>9, <2>10, <2>11, BootPreserves
<1> QED BY <1>1, <1>2

(* A killed API takes its coroutines with it, and leaves rows and torrent  *)
(* as they were.                                                           *)
LEMMA ApiCrashPreserves ==
    ASSUME IInv, ApiCrash
    PROVE  IInv' /\ RowsStep
<1>0. /\ UNCHANGED <<rows, task, started, warned, torrent>>
      /\ co' = [w \in Workers |-> [j \in Jobs |-> Idle]]
      /\ refresher' = [j \in Jobs |-> NoRefresh]
      /\ boot' = [at |-> "down"] /\ TypeOK
      /\ spent.crash < MaxApiCrashes
      /\ spent' = [spent EXCEPT !.crash = @ + 1]
  BY DEF ApiCrash, Keep, IInv
<1>1. boot'.at = "down" /\ boot' \in BootStates
  BY <1>0 DEF BootStates
<1>2. /\ Idle.at = "idle" /\ Idle.sent = FALSE /\ NoRefresh.at = "idle"
      /\ \A w \in Workers : Idle \in CoStates(w)
      /\ NoRefresh \in RefreshStates /\ Workers = {"op", "cancel", "rec"}
  BY DEF Idle, NoRefresh, CoStates, OpStates, CancelStates, RefreshStates, Workers
<1>3. \A j \in Jobs : /\ \A w \in Workers : co'[w][j] = Idle
                      /\ refresher'[j] = NoRefresh
  BY <1>0
<1>4. TypeOK'
  <2>1. spent' \in SpentStates
    <3>1. spent \in SpentStates /\ spent.crash + 1 \in 0..MaxApiCrashes
      BY <1>0, DownloadAssumption DEF TypeOK, SpentStates
    <3> QED BY <1>0, <3>1 DEF SpentStates
  <2>2. /\ DOMAIN co' = Workers
        /\ \A w \in Workers : co'[w] \in [Jobs -> CoStates(w)]
        /\ refresher' \in [Jobs -> RefreshStates]
    <3>1. DOMAIN co' = Workers /\ \A w \in Workers : co'[w] = [j \in Jobs |-> Idle]
      BY <1>0
    <3>2. \A w \in Workers : co'[w] \in [Jobs -> CoStates(w)]
      BY <1>2, <3>1
    <3>3. refresher' \in [Jobs -> RefreshStates]
      BY <1>0, <1>2
    <3> QED BY <3>1, <3>2, <3>3
  <2> QED BY <1>0, <1>1, <2>1, <2>2 DEF TypeOK
<1>5. ASSUME NEW j \in Jobs PROVE JobSees(j)'
  <2>1. TaskKnown(j)'
    BY <1>0 DEF IInv, JobSees, TaskKnown, Over
  <2>2. OpSees(j)' /\ RefreshSees(j)' /\ CancelSees(j)'
    <3>1. co'["op"][j].at = "idle" /\ refresher'[j].at = "idle"
      BY <1>2, <1>3
    <3>2. \A w \in {"cancel", "rec"} : co'[w][j].at = "idle"
      BY <1>2, <1>3
    <3> QED BY <3>1, <3>2 DEF OpSees, RefreshSees, CancelSees, InFlight
  <2>3. BootSees(j)' /\ Owned(j)'
    BY <1>1, <1>3 DEF BootSees, Owned, Up
  <2> QED BY <2>1, <2>2, <2>3 DEF JobSees
<1>6. LockSees'
  BY <1>2, <1>3 DEF LockSees
<1>7. RunningIsKnown' /\ StartsRun'
  BY <1>0, <1>1 DEF IInv, RunningIsKnown, StartsRun, Acknowledged
<1>8. TableOK(Jobs, rows') /\ RowsStep
  BY <1>0 DEF IInv, RowsStep, ParkedRightly
<1> QED BY <1>4, <1>5, <1>6, <1>7, <1>8 DEF IInv

-----------------------------------------------------------------------------
(* The whole.                                                              *)

(* Without jobs, coroutines and a torrent there is nothing to know.        *)
LEMMA InitEstablishes == Init => IInv
<1> SUFFICES ASSUME Init PROVE IInv
  OBVIOUS
<1>1. /\ Idle.at = "idle" /\ Idle.sent = FALSE /\ NoRefresh.at = "idle"
      /\ \A w \in Workers : Idle \in CoStates(w)
      /\ NoRefresh \in RefreshStates /\ Workers = {"op", "cancel", "rec"}
  BY DEF Idle, NoRefresh, CoStates, OpStates, CancelStates, RefreshStates, Workers
<1>2. \A j \in Jobs : /\ rows[j] = NoRow /\ ~task[j] /\ refresher[j] = NoRefresh
                      /\ \A w \in Workers : co[w][j] = Idle
  BY DEF Init
<1>3. NoRow.status = "absent" /\ NoRow.previous = "none" /\ ~NoRow.slot /\ RowOK(NoRow)
  BY DEF NoRow, RowOK
<1>4. TypeOK
  <2>1. spent \in SpentStates
    BY DownloadAssumption DEF Init, SpentStates
  <2>2. torrent \in TorrentStates /\ boot \in BootStates
    BY DEF Init, TorrentStates, BootStates
  <2>3. /\ DOMAIN co = Workers
        /\ \A w \in Workers : co[w] \in [Jobs -> CoStates(w)]
        /\ refresher \in [Jobs -> RefreshStates]
    <3>1. DOMAIN co = Workers /\ \A w \in Workers : co[w] = [j \in Jobs |-> Idle]
      BY DEF Init
    <3>2. \A w \in Workers : co[w] \in [Jobs -> CoStates(w)]
      BY <1>1, <3>1
    <3>3. refresher \in [Jobs -> RefreshStates]
      BY <1>1 DEF Init
    <3> QED BY <3>1, <3>2, <3>3
  <2> QED BY <2>1, <2>2, <2>3 DEF Init, TypeOK, Starts
<1>5. TableOK(Jobs, rows)
  BY <1>2, <1>3 DEF Init, TableOK
<1>6. ASSUME NEW j \in Jobs PROVE JobSees(j)
  <2>1. TaskKnown(j)
    BY <1>2, <1>3 DEF TaskKnown, Uncreated
  <2>2. OpSees(j) /\ RefreshSees(j) /\ CancelSees(j)
    <3>1. co["op"][j].at = "idle" /\ refresher[j].at = "idle"
      BY <1>1, <1>2
    <3>2. \A w \in {"cancel", "rec"} : co[w][j].at = "idle"
      BY <1>1, <1>2
    <3> QED BY <3>1, <3>2 DEF OpSees, RefreshSees, CancelSees, InFlight
  <2>3. BootSees(j) /\ Owned(j)
    BY <1>2, <1>3 DEF Init, BootSees, Owned
  <2> QED BY <2>1, <2>2, <2>3 DEF JobSees
<1>7. LockSees
  BY <1>1, <1>2 DEF LockSees
<1>8. RunningIsKnown /\ StartsRun
  BY <1>2, <1>3 DEF Init, RunningIsKnown, StartsRun, Acknowledged
<1> QED BY <1>4, <1>5, <1>6, <1>7, <1>8 DEF IInv

(* A step that touches none of the variables.                              *)
LEMMA StutterPreserves ==
    ASSUME IInv, UNCHANGED vars
    PROVE  IInv' /\ RowsStep
<1>1. TypeOK' /\ TableOK(Jobs, rows') /\ RowsStep
  BY DEF vars, IInv, TypeOK, RowsStep, ParkedRightly
<1>2. ASSUME NEW j \in Jobs PROVE JobSees(j)'
  <2>1. JobSees(j)
    BY DEF IInv
  <2>2. TaskKnown(j)' /\ OpSees(j)' /\ RefreshSees(j)'
    BY <2>1 DEF vars, JobSees, TaskKnown, OpSees, RefreshSees, InFlight, Over
  <2>3. CancelSees(j)' /\ BootSees(j)' /\ Owned(j)'
    BY <2>1 DEF vars, JobSees, CancelSees, BootSees, Owned, InFlight, Over, Up
  <2> QED BY <2>2, <2>3 DEF JobSees
<1>3. LockSees'
  BY DEF vars, IInv, LockSees, Pausing, Acknowledged
<1>4. RunningIsKnown' /\ StartsRun'
  BY DEF vars, IInv, RunningIsKnown, StartsRun, Acknowledged
<1> QED BY <1>1, <1>2, <1>3, <1>4 DEF IInv

(* Every step keeps the invariant, and is a step of rows.                  *)
LEMMA NextPreserves ==
    IInv /\ [Next]_vars => IInv' /\ RowsStep
<1> SUFFICES ASSUME IInv, [Next]_vars PROVE IInv' /\ RowsStep
  OBVIOUS
<1>1. CASE UNCHANGED vars
  BY <1>1, StutterPreserves
<1>2. CASE User
  BY <1>2, CreatePreserves, ResumePreserves, RefusalPreserves, CancelPreserves,
     SelectionPreserves DEF User
<1>3. ASSUME NEW j \in Jobs, Operation(j) PROVE IInv' /\ RowsStep
  BY <1>3, SearchPreserves, SendPreserves, AddPreserves, RelocatePreserves,
     StartPreserves DEF Operation
<1>4. ASSUME NEW j \in Jobs, Cancelling(j) PROVE IInv' /\ RowsStep
  BY <1>4, OwnerDonePreserves, OwnerSlowPreserves DEF Cancelling
<1>5. ASSUME NEW j \in Jobs, Coordination(j) PROVE IInv' /\ RowsStep
  BY <1>5, CoordinationPreserves
<1>6. ASSUME NEW j \in Jobs, NEW w \in Workers, Pauses(w, j) PROVE IInv' /\ RowsStep
  BY <1>6, PausePreserves
<1>7. CASE Boot \/ ApiCrash
  BY <1>7, ApiStartPreserves, BootCallsPreserves, BootRecordsPreserves,
     BootCancelsPreserves, BootSettlesPreserves, ApiCrashPreserves DEF Boot
<1>8. CASE Environment
  BY <1>8, TorrentPreserves, WorkerPreserves DEF Environment
<1> QED BY <1>1, <1>2, <1>3, <1>4, <1>5, <1>6, <1>7, <1>8 DEF Next

-----------------------------------------------------------------------------
(* In whatever order the backends answer, and whenever the API dies, every *)
(* coroutine still sees the truth about its job.                           *)
THEOREM Invariant == Spec => []IInv
<1> QED
  BY InitEstablishes, NextPreserves, PTL DEF Spec

(* A torrent that runs is the download of a job that knows it and has not  *)
(* been cancelled: no late answer leaves it running for nobody.            *)
THEOREM RunningTorrentIsOwned == Spec => []RunningIsOwned
<1>1. IInv => RunningIsOwned
  BY DEF IInv, RunningIsKnown, RunningIsOwned
<1> QED
  BY <1>1, Invariant, PTL

(* The program never pauses a download whose start was acknowledged,       *)
(* neither for another job with the same torrent nor by a late request.    *)
THEOREM AcknowledgedStartRuns == Spec => []AcknowledgedRuns
<1>1. IInv => AcknowledgedRuns
  BY DEF IInv, StartsRun, Acknowledged, Unheld, AcknowledgedRuns
<1> QED
  BY <1>1, Invariant, PTL

(* No job is reported cancelled while an add, relocate or start for it is  *)
(* out at the backend.                                                     *)
THEOREM CancelWaitsForCalls == Spec => []CancelOutlivesCalls
<1>1. IInv => CancelOutlivesCalls
  <2> SUFFICES ASSUME IInv, NEW j \in Jobs, rows[j].status = "CANCELLED", InFlight(j)
               PROVE  co["op"][j].at \notin {"add", "relocate", "start"}
    BY DEF CancelOutlivesCalls
  <2>1. co["op"][j].at = "settle"
    BY OpRuns
  <2> QED BY <2>1
<1> QED
  BY <1>1, Invariant, PTL

(* While the API serves, a job in CREATED has a request that works on it:  *)
(* an interrupted creation is failed before the API serves again.          *)
THEOREM CreationIsOwned == Spec => []CreatedIsOwned
<1>1. IInv => CreatedIsOwned
  BY DEF IInv, JobSees, Owned, CreatedIsOwned
<1> QED
  BY <1>1, Invariant, PTL

(* The monitor parks a download only if the user stopped its torrent or    *)
(* nobody knows how its last start or pause ended.                         *)
THEOREM ParkedByUser == Spec => PausedOnlyByUser
<1>1. IInv /\ [Next]_vars =>
        [\A j \in Jobs : rows[j].status = "DOWNLOADING" /\ rows'[j].status = "PAUSED" =>
             torrent.state = "stopped" \/ started[j] = "unsure"]_vars
  BY NextPreserves DEF RowsStep, ParkedRightly
<1> QED
  BY <1>1, Invariant, PTL DEF Spec, PausedOnlyByUser

-----------------------------------------------------------------------------
(* One job's move is a step of JobLifecycle.                               *)
LEMMA TableStepRefines ==
    ASSUME IInv, NEW j \in Jobs, TableStep(j)
    PROVE  [Lifecycle!Next]_(Lifecycle!vars)
<1> DEFINE phase == [k \in Jobs |-> PhaseOf(rows[k].status)]
           owners == {k \in Jobs : rows[k].slot}
<1>1. PICK q : /\ rows' = [rows EXCEPT ![j] = q]
               /\ Move(rows[j], q)
               /\ q.slot => \A k \in Jobs \ {j} : ~rows[k].slot
  BY DEF TableStep
<1>2. RowOK(rows[j]) /\ \A k \in Jobs : rows'[k] = IF k = j THEN q ELSE rows[k]
  BY <1>1 DEF IInv, TypeOK, TableOK
<1>3. phase' = [phase EXCEPT ![j] = PhaseOf(q.status)]
  BY <1>2
<1>4. owners' = IF q.slot THEN owners \cup {j} ELSE owners \ {j}
  BY <1>2
<1>5. q.slot => owners \subseteq {j}
  BY <1>1
<1>6. /\ phase[j] = PhaseOf(rows[j].status) /\ (j \in owners <=> rows[j].slot)
      /\ phase = [phase EXCEPT ![j] = phase[j]]
  OBVIOUS
<1> HIDE DEF phase, owners
<1>7. PhaseStep(rows[j], q)
  BY <1>1, <1>2, MoveIsPhaseStep
<1>8. /\ q.slot = rows[j].slot => owners' = owners
      /\ q.slot /\ ~rows[j].slot => owners = {} /\ owners' = {j}
      /\ ~q.slot => owners' = owners \ {j}
  BY <1>4, <1>5, <1>6
<1>9. \/ phase' = phase /\ owners' = owners
      \/ /\ phase[j] \in {"absent", "parked"} /\ owners = {}
         /\ phase' = [phase EXCEPT ![j] = "active"] /\ owners' = {j}
      \/ /\ phase[j] = "active"
         /\ \E p \in {"parked", "completed"} : phase' = [phase EXCEPT ![j] = p]
         /\ owners' = owners \ {j}
      \/ /\ phase[j] \in {"active", "parked"} /\ owners' = owners
         /\ phase' = [phase EXCEPT ![j] = "cancelling"]
      \/ /\ phase[j] = "cancelling" /\ owners' = owners \ {j}
         /\ phase' = [phase EXCEPT ![j] = "cancelled"]
  BY <1>3, <1>6, <1>7, <1>8 DEF PhaseStep
<1> QED
  BY <1>9
  DEF Lifecycle!Next, Lifecycle!vars, Lifecycle!Create, Lifecycle!Park,
      Lifecycle!Resume, Lifecycle!RequestCancel, Lifecycle!FinishCancel,
      Lifecycle!Complete, Lifecycle!SetPhase, phase, owners

(* Requests, monitor, cancellations and restarts keep the promise of       *)
(* JobLifecycle: nothing comes back from a cancellation or an end, and     *)
(* nobody takes the slot a cancellation still holds.                       *)
THEOREM DownloadsImplementLifecycle == Spec => ImplementsLifecycle
<1>1. Init => Lifecycle!Init
  BY NoRowIsNoRow, PhaseCases DEF Init, Lifecycle!Init
<1>2. ASSUME UNCHANGED rows PROVE [Lifecycle!Next]_(Lifecycle!vars)
  BY <1>2 DEF Lifecycle!vars
<1>3. IInv /\ [Next]_vars => [Lifecycle!Next]_(Lifecycle!vars)
  BY <1>2, NextPreserves, TableStepRefines DEF RowsStep
<1> QED
  BY <1>1, <1>3, Invariant, PTL DEF Spec, ImplementsLifecycle, Lifecycle!Spec

=============================================================================
