----------------------------- MODULE SqlProofs -----------------------------
(***************************************************************************)
(* What holds of pools over an SQL backend for every number of processes,  *)
(* workers, callers and tasks, through crashes, boots and failed           *)
(* statements.                                                             *)
(*                                                                         *)
(* SharedOnlyIfOverruled is not inductive: that two workers have a task is *)
(* decided earlier, when the row of a task somebody holds is pending again *)
(* and open to the next claim.  ClaimInv says that this never happens      *)
(* behind the back of `overruled`.                                         *)
(***************************************************************************)
EXTENDS SqlPool, TLAPS

\* Whoever is in the middle of something has a task; what it is about to
\* enqueue is pending or delayed; and no id that is in use is fresh.
LocalsOK ==
    /\ \A a \in Actor : actor[a].pc \notin {"idle", "waiting", "exited"} => actor[a].id \in TaskId
    /\ \A a \in Actor : actor[a].pc \in {"enqueue", "update", "insert"} =>
            actor[a].rec.status \in Queued
    /\ \A a \in Actor : actor[a].pc \in {"selected"} \cup HoldingPc => actor[a].id \in submitted
    /\ \A id \in TaskId : HasRow(id) => id \in submitted

IInv == TypeOK /\ LocalsOK

\* A row whose worker has not been overruled is not open to another claim.
ClaimInv ==
    \A id \in TaskId, w \in Worker : Holds(w, id) /\ id \notin overruled =>
        /\ rows[id].status # "pending"
        /\ \A v \in Worker : Holds(v, id) => v = w

-----------------------------------------------------------------------------
(* Types and locals *)

\* The absent record is a record.
LEMMA NoTaskIsRecord == NoTask \in TaskRecord /\ NoTask.status = "none"
  BY SqlRetryAssumption, RetryBoundAssumption DEF NoTask, TaskRecord, TaskStatuses

\* An actor that holds nothing is well formed.
LEMMA AtType == \A pc \in ActorPc : At(pc) \in ActorState /\ At(pc).pc = pc
  BY NoTaskIsRecord DEF At, ActorState

\* Statements other than an INSERT keep the table's type and make no row.
LEMMA WritesKeepRows ==
  ASSUME TypeOK,
         \/ UNCHANGED rows
         \/ RecoverRows
         \/ \E id \in TaskId : MarkRunning(id) /\ HasRow(id)
         \/ \E id \in TaskId : DeleteRow(id)
         \/ \E id \in TaskId, status \in TaskStatuses : UpdateStatus(id, status)
         \/ \E id \in TaskId, rec \in TaskRecord : OverwriteRow(id, rec)
         \/ \E ids : CancelQueuedIn(ids)
  PROVE  /\ rows' \in [TaskId -> TaskRecord]
         /\ \A id \in TaskId : rows'[id].status # "none" => HasRow(id)
<1> USE DEF TypeOK, HasRow
<1>1. CASE UNCHANGED rows
  BY <1>1
<1>2. CASE RecoverRows
  BY <1>2 DEF RecoverRows, TaskRecord, TaskStatuses
<1>3. ASSUME NEW id \in TaskId, MarkRunning(id), HasRow(id)
      PROVE  /\ rows' \in [TaskId -> TaskRecord]
             /\ \A i \in TaskId : rows'[i].status # "none" => HasRow(i)
  BY <1>3 DEF MarkRunning, TaskRecord, TaskStatuses
<1>4. ASSUME NEW id \in TaskId, DeleteRow(id)
      PROVE  /\ rows' \in [TaskId -> TaskRecord]
             /\ \A i \in TaskId : rows'[i].status # "none" => HasRow(i)
  BY <1>4, NoTaskIsRecord DEF DeleteRow
<1>5. ASSUME NEW id \in TaskId, NEW status \in TaskStatuses, UpdateStatus(id, status)
      PROVE  /\ rows' \in [TaskId -> TaskRecord]
             /\ \A i \in TaskId : rows'[i].status # "none" => HasRow(i)
  BY <1>5 DEF UpdateStatus, TaskRecord, TaskStatuses
<1>6. ASSUME NEW id \in TaskId, NEW rec \in TaskRecord, OverwriteRow(id, rec)
      PROVE  /\ rows' \in [TaskId -> TaskRecord]
             /\ \A i \in TaskId : rows'[i].status # "none" => HasRow(i)
  BY <1>6 DEF OverwriteRow
<1>7. ASSUME NEW ids, CancelQueuedIn(ids)
      PROVE  /\ rows' \in [TaskId -> TaskRecord]
             /\ \A i \in TaskId : rows'[i].status # "none" => HasRow(i)
  BY <1>7 DEF CancelQueuedIn, Queued, TaskRecord, TaskStatuses
<1> QED
  BY <1>1, <1>2, <1>3, <1>4, <1>5, <1>6, <1>7

\* One actor moves on, and no id becomes fresh again.
LEMMA MovesKeepLocals ==
  ASSUME IInv, NEW a \in Actor, NEW s \in ActorState, Become(a, s),
         submitted \subseteq submitted',
         \A id \in TaskId : rows'[id].status # "none" => id \in submitted',
         s.pc \notin {"idle", "waiting", "exited"} => s.id \in TaskId,
         s.pc \in {"enqueue", "update", "insert"} => s.rec.status \in Queued,
         s.pc \in {"selected"} \cup HoldingPc => s.id \in submitted'
  PROVE  actor' \in [Actor -> ActorState] /\ LocalsOK'
  BY DEF IInv, TypeOK, LocalsOK, Become, HasRow

\* A step of a worker's claim or of the end of a run.
LEMMA WorkerKeepsInv ==
  ASSUME IInv, NEW w \in Worker,
         \/ FindNothing(w) \/ Wake(w) \/ Exit(w) \/ SqliteClaim(w) \/ SqliteRead(w)
         \/ \E id \in TaskId : SqliteSelect(w, id) \/ MysqlClaim(w, id)
         \/ Settle(w) \/ LeaveUnrun(w) \/ Retry(w) \/ RecordFailure(w)
  PROVE  IInv'
<1> USE DEF IInv, TypeOK, poolVars
<1>0. w \in Actor
  BY DEF Actor
<1>1. ASSUME NEW pc \in {"idle", "waiting", "exited"}, Become(w, At(pc)),
             UNCHANGED <<dialect, rows, poolVars>>
      PROVE  IInv'
  <2>1. At(pc) \in ActorState /\ At(pc).pc = pc /\ pc \notin HoldingPc \cup {"selected"}
    BY AtType DEF ActorPc, HoldingPc
  <2>2. actor' \in [Actor -> ActorState] /\ LocalsOK'
    BY <1>0, <1>1, <2>1, MovesKeepLocals DEF LocalsOK, HasRow
  <2> QED
    BY <1>1, <2>2
<1>2. CASE FindNothing(w) \/ Wake(w) \/ Exit(w)
  BY <1>1, <1>2 DEF FindNothing, Wake, Exit
<1>3. ASSUME NEW id \in TaskId, SqliteSelect(w, id)
      PROVE  IInv'
  <2> DEFINE s == [At("selected") EXCEPT !.id = id]
  <2>1. s \in ActorState /\ s.pc = "selected" /\ s.id = id
    BY AtType DEF ActorState, ActorPc
  <2>2. id \in submitted
    BY <1>3 DEF SqliteSelect, FirstClaimable, Claimable, LocalsOK, HasRow
  <2>3. Become(w, s)
    BY <1>3 DEF SqliteSelect
  <2> HIDE DEF s
  <2>4. actor' \in [Actor -> ActorState] /\ LocalsOK'
    BY <1>0, <1>3, <2>1, <2>2, <2>3, MovesKeepLocals DEF SqliteSelect, LocalsOK, HasRow
  <2> QED
    BY <1>3, <2>4 DEF SqliteSelect
<1>4. CASE SqliteClaim(w)
  <2> DEFINE id == actor[w].id
  <2>1. id \in TaskId /\ id \in submitted
    BY <1>0, <1>4 DEF SqliteClaim, LocalsOK
  <2>2. CASE rows[id].status = "pending"
    <3>1. MarkRunning(id) /\ HasRow(id) /\ GoTo(w, "claimed")
      BY <1>4, <2>2 DEF SqliteClaim, HasRow
    <3>2. /\ rows' \in [TaskId -> TaskRecord]
          /\ \A i \in TaskId : rows'[i].status # "none" => HasRow(i)
      BY <2>1, <3>1, WritesKeepRows
    <3>3. [actor[w] EXCEPT !.pc = "claimed"] \in ActorState
      BY <1>0 DEF ActorState, ActorPc, HoldingPc
    <3>4. actor' \in [Actor -> ActorState] /\ LocalsOK'
      BY <1>0, <1>4, <2>1, <3>1, <3>2, <3>3, MovesKeepLocals
      DEF GoTo, SqliteClaim, LocalsOK, ActorState
    <3> QED
      BY <1>4, <3>2, <3>4 DEF SqliteClaim
  <2> QED
    BY <1>1, <1>4, <2>2 DEF SqliteClaim
<1>5. CASE SqliteRead(w)
  <2> DEFINE s == TakeUp(w, actor[w].id)
  <2>1. actor[w].id \in TaskId /\ actor[w].id \in submitted
    BY <1>0, <1>5 DEF SqliteRead, LocalsOK, HoldingPc
  <2>2. CASE HasRow(actor[w].id)
    <3>1. s \in ActorState /\ s.pc \in {"failing", "executing"} /\ s.id = actor[w].id
      BY <2>1 DEF TakeUp, ActorState, ActorPc, HoldingPc
    <3>2. Become(w, s)
      BY <1>5, <2>2 DEF SqliteRead
    <3> HIDE DEF s
    <3>3. actor' \in [Actor -> ActorState] /\ LocalsOK'
      BY <1>0, <1>5, <2>1, <3>1, <3>2, MovesKeepLocals DEF SqliteRead, LocalsOK, HasRow
    <3> QED
      BY <1>5, <3>3 DEF SqliteRead
  <2> QED
    BY <1>1, <1>5, <2>2 DEF SqliteRead
<1>6. ASSUME NEW id \in TaskId, MysqlClaim(w, id)
      PROVE  IInv'
  <2> DEFINE s == TakeUp(w, id)
  <2>1. s \in ActorState /\ s.pc \in {"failing", "executing"} /\ s.id = id
    BY DEF TakeUp, ActorState, ActorPc, HoldingPc
  <2>2. HasRow(id) /\ id \in submitted
    BY <1>6 DEF MysqlClaim, FirstClaimable, Claimable, LocalsOK, HasRow
  <2>3. /\ rows' \in [TaskId -> TaskRecord]
        /\ \A i \in TaskId : rows'[i].status # "none" => HasRow(i)
    BY <1>6, <2>2, WritesKeepRows DEF MysqlClaim
  <2>4. Become(w, s)
    BY <1>6 DEF MysqlClaim
  <2> HIDE DEF s
  <2>5. actor' \in [Actor -> ActorState] /\ LocalsOK'
    BY <1>0, <1>6, <2>1, <2>2, <2>3, <2>4, MovesKeepLocals DEF MysqlClaim, LocalsOK
  <2> QED
    BY <1>6, <2>3, <2>5 DEF MysqlClaim
<1>7. CASE Settle(w) \/ RecordFailure(w)
  <2>1. /\ actor[w].id \in TaskId
        /\ \E status \in TaskStatuses : UpdateStatus(actor[w].id, status)
    BY <1>0, <1>7 DEF Settle, RecordFailure, LocalsOK, SettledStatuses, TaskStatuses
  <2>2. /\ rows' \in [TaskId -> TaskRecord]
        /\ \A i \in TaskId : rows'[i].status # "none" => HasRow(i)
    BY <2>1, WritesKeepRows
  <2>3. actor' \in [Actor -> ActorState] /\ LocalsOK'
    BY <1>0, <1>7, <2>2, AtType, MovesKeepLocals
    DEF Settle, RecordFailure, LocalsOK, HoldingPc, ActorPc
  <2> QED
    BY <1>7, <2>2, <2>3 DEF Settle, RecordFailure
<1>8. CASE Retry(w)
  <2> DEFINE s == [actor[w] EXCEPT !.pc = "enqueue",
                     !.rec = [status |-> "pending", retries |-> actor[w].rec.retries + 1,
                              due |-> TRUE]]
  <2>1. /\ actor[w] \in ActorState /\ actor[w].id \in TaskId
        /\ actor[w].id \in submitted
        /\ actor[w].rec.retries < MaxRetries[actor[w].id]
    BY <1>0, <1>8 DEF Retry, MayRetry, LocalsOK, HoldingPc
  <2>2. actor[w].rec.retries + 1 \in 0 .. RetryBound
    BY <2>1, SqlRetryAssumption, RetryBoundAssumption DEF ActorState, TaskRecord
  <2>3. /\ s \in ActorState /\ s.pc = "enqueue" /\ s.id = actor[w].id
        /\ s.rec.status = "pending"
    BY <2>1, <2>2 DEF ActorState, ActorPc, HoldingPc, TaskRecord, TaskStatuses
  <2>4. Become(w, s)
    BY <1>8 DEF Retry
  <2> HIDE DEF s
  <2>5. actor' \in [Actor -> ActorState] /\ LocalsOK'
    BY <1>0, <1>8, <2>1, <2>3, <2>4, MovesKeepLocals DEF Retry, LocalsOK, Queued, HasRow
  <2> QED
    BY <1>8, <2>5 DEF Retry
<1>9. CASE LeaveUnrun(w)
  <2>1. actor[w].id \in TaskId /\ actor[w].pc \notin {"idle", "waiting", "exited"}
    BY <1>0, <1>9 DEF LeaveUnrun, LocalsOK, HoldingPc
  <2>2. At("idle") \in ActorState /\ At("idle").pc = "idle"
    BY AtType DEF ActorPc
  <2>3. actor' \in [Actor -> ActorState] /\ LocalsOK'
    BY <1>0, <1>9, <2>2, MovesKeepLocals DEF LeaveUnrun, LocalsOK, HoldingPc, HasRow
  <2> QED
    BY <1>9, <2>1, <2>3 DEF LeaveUnrun
<1> QED
  BY <1>9, <1>2, <1>3, <1>4, <1>5, <1>6, <1>7, <1>8

\* A statement of Enqueue, and giving up inside it.
LEMMA EnqueueKeepsInv ==
  ASSUME IInv, NEW a \in Actor, EnqueueStep(a)
  PROVE  IInv'
<1> USE DEF IInv, TypeOK, poolVars
<1> DEFINE id == actor[a].id
<1>1. /\ actor[a] \in ActorState /\ id \in TaskId /\ id \in submitted
      /\ actor[a].rec \in TaskRecord /\ actor[a].rec.status \in Queued
  BY DEF EnqueueStep, EnqueueGet, EnqueueUpdate, EnqueueInsert, LocalsOK, HoldingPc, ActorState
<1>2. ASSUME NEW pc \in {"update", "insert", "failing"}, GoTo(a, pc),
             UNCHANGED <<dialect, rows, poolVars>>
      PROVE  IInv'
  <2> DEFINE s == [actor[a] EXCEPT !.pc = pc]
  <2>1. /\ s \in ActorState /\ s.pc = pc /\ s.id = id /\ s.rec = actor[a].rec
        /\ Become(a, s)
    BY <1>1, <1>2 DEF ActorState, ActorPc, HoldingPc, GoTo
  <2> HIDE DEF s
  <2>2. actor' \in [Actor -> ActorState] /\ LocalsOK'
    BY <1>1, <1>2, <2>1, MovesKeepLocals DEF LocalsOK, HasRow
  <2> QED
    BY <1>2, <2>2
<1>3. CASE EnqueueGet(a)
  BY <1>2, <1>3 DEF EnqueueGet
<1>4. ASSUME Enqueued(a), rows' \in [TaskId -> TaskRecord],
             \A i \in TaskId : rows'[i].status # "none" => i \in submitted
      PROVE  IInv'
  <2>1. At("idle") \in ActorState /\ At("idle").pc = "idle"
    BY AtType DEF ActorPc
  <2>2. actor' \in [Actor -> ActorState] /\ LocalsOK'
    BY <1>4, <2>1, MovesKeepLocals DEF Enqueued, HoldingPc
  <2>3. overruled' \in SUBSET TaskId
    BY <1>1, <1>4 DEF Enqueued
  <2> QED
    BY <1>4, <2>2, <2>3 DEF Enqueued
<1>5. CASE EnqueueUpdate(a)
  <2>1. OverwriteRow(id, actor[a].rec) /\ Enqueued(a)
    BY <1>5 DEF EnqueueUpdate
  <2>2. /\ rows' \in [TaskId -> TaskRecord]
        /\ \A i \in TaskId : rows'[i].status # "none" => HasRow(i)
    BY <1>1, <2>1, WritesKeepRows
  <2> QED
    BY <1>4, <2>1, <2>2 DEF LocalsOK
<1>6. CASE EnqueueInsert(a)
  <2>1. CASE InsertRow(id, actor[a].rec) /\ Enqueued(a)
    BY <1>1, <1>4, <2>1 DEF InsertRow, LocalsOK, HasRow
  <2>2. CASE EnqueueFails(a) /\ UNCHANGED <<dialect, rows, poolVars>>
    <3>1. CASE a \in Worker
      BY <1>2, <2>2, <3>1 DEF EnqueueFails
    <3>2. CASE a \notin Worker
      <4>1. At("idle") \in ActorState /\ At("idle").pc = "idle" /\ Become(a, At("idle"))
        BY <2>2, <3>2, AtType DEF EnqueueFails, ActorPc
      <4>2. actor' \in [Actor -> ActorState] /\ LocalsOK'
        BY <2>2, <4>1, MovesKeepLocals DEF HoldingPc, LocalsOK, HasRow
      <4> QED
        BY <2>2, <4>2
    <3> QED
      BY <3>1, <3>2
  <2> QED
    BY <1>6, <2>1, <2>2 DEF EnqueueInsert
<1> QED
  BY <1>3, <1>5, <1>6 DEF EnqueueStep

\* A call begins or goes on.
LEMMA ClientKeepsInv ==
  ASSUME IInv, NEW c \in Client,
         \/ ClientCall(c)
         \/ TerminateGet(c) \/ TerminateWrite(c) \/ RemoveDelete(c) \/ DatabaseClosed(c)
  PROVE  IInv'
<1> USE DEF IInv, TypeOK, poolVars
<1>0. /\ c \in Actor /\ actor[c] \in ActorState
      /\ At("idle") \in ActorState /\ At("idle").pc = "idle"
      /\ calls < CallBound => calls + 1 \in 0 .. CallBound
  BY AtType, BoundAssumption DEF Actor, ActorPc
<1>1. ASSUME NEW id \in TaskId, SubmitSave(c, id)
      PROVE  IInv'
  <2>1. PICK rec \in NewTasks :
            InsertRow(id, rec) /\ Become(c, [pc |-> "enqueue", id |-> id, rec |-> rec])
    BY <1>1 DEF SubmitSave
  <2>2. rec \in TaskRecord /\ rec.status \in Queued
    <3>1. \/ rec = [status |-> "pending", retries |-> 0, due |-> TRUE]
          \/ rec = [status |-> "delayed", retries |-> 0, due |-> FALSE]
      BY DEF NewTasks
    <3>2. 0 \in 0 .. RetryBound
      BY RetryBoundAssumption
    <3>3. CASE rec = [status |-> "pending", retries |-> 0, due |-> TRUE]
      BY <3>2, <3>3 DEF TaskRecord, TaskStatuses, Queued
    <3>4. CASE rec = [status |-> "delayed", retries |-> 0, due |-> FALSE]
      BY <3>2, <3>4 DEF TaskRecord, TaskStatuses, Queued
    <3> QED
      BY <3>1, <3>3, <3>4
  <2> DEFINE s == [pc |-> "enqueue", id |-> id, rec |-> rec]
  <2>3. s \in ActorState /\ s.pc = "enqueue" /\ s.id = id /\ s.rec = rec /\ Become(c, s)
    BY <2>1, <2>2 DEF ActorState, ActorPc, HoldingPc
  <2> HIDE DEF s
  <2>4. /\ rows' \in [TaskId -> TaskRecord]
        /\ \A i \in TaskId : rows'[i].status # "none" => i \in submitted'
    BY <1>1, <2>1, <2>2 DEF InsertRow, SubmitSave, LocalsOK, HasRow
  <2>5. actor' \in [Actor -> ActorState] /\ LocalsOK'
    <3>1. submitted \subseteq submitted' /\ id \in submitted'
      BY <1>1 DEF SubmitSave
    <3> QED
      BY <1>0, <2>2, <2>3, <2>4, <3>1, MovesKeepLocals
  <2> QED
    BY <1>0, <1>1, <2>4, <2>5 DEF SubmitSave, Calls
<1>2. ASSUME NEW id \in TaskId, StartGet(c, id)
      PROVE  IInv'
  <2> DEFINE s == [pc |-> "enqueue", id |-> id,
                   rec |-> [status  |-> "pending",
                            retries |-> IF rows[id].status = "paused" THEN rows[id].retries ELSE 0,
                            due     |-> TRUE]]
  <2>1. /\ s \in ActorState /\ s.pc = "enqueue" /\ s.id = id /\ s.rec.status = "pending"
        /\ Become(c, s)
    BY <1>2, RetryBoundAssumption
    DEF StartGet, ActorState, ActorPc, HoldingPc, TaskRecord, TaskStatuses
  <2> HIDE DEF s
  <2>2. id \in submitted /\ UNCHANGED <<rows, submitted>>
    BY <1>2 DEF StartGet, Startable, LocalsOK, HasRow
  <2>3. actor' \in [Actor -> ActorState] /\ LocalsOK'
    BY <1>0, <2>1, <2>2, MovesKeepLocals DEF LocalsOK, Queued, HasRow
  <2> QED
    BY <1>0, <1>2, <2>3 DEF StartGet, Calls
<1>3. ASSUME NEW id \in TaskId, Terminate(c, id)
      PROVE  IInv'
  <2> DEFINE s == [At("terminateGet") EXCEPT !.id = id]
  <2>1. s \in ActorState /\ s.pc = "terminateGet" /\ s.id = id
    BY AtType DEF ActorState, ActorPc
  <2>2. /\ rows' \in [TaskId -> TaskRecord]
        /\ \A i \in TaskId : rows'[i].status # "none" => HasRow(i)
    BY <1>3, WritesKeepRows DEF Terminate
  <2>3. UNCHANGED actor \/ Become(c, s)
    BY <1>3 DEF Terminate
  <2> HIDE DEF s
  <2>4. CASE UNCHANGED actor
    BY <1>0, <1>3, <2>2, <2>4 DEF Terminate, Calls, LocalsOK, HasRow
  <2>5. CASE Become(c, s)
    <3>1. actor' \in [Actor -> ActorState] /\ LocalsOK'
      BY <1>0, <1>3, <2>1, <2>2, <2>5, MovesKeepLocals DEF Terminate, LocalsOK, HoldingPc
    <3> QED
      BY <1>0, <1>3, <2>2, <3>1 DEF Terminate, Calls
  <2> QED
    BY <2>3, <2>4, <2>5
<1>4. ASSUME NEW id \in TaskId, RemoveGet(c, id)
      PROVE  IInv'
  <2> DEFINE s == [At("deleting") EXCEPT !.id = id]
  <2>1. s \in ActorState /\ s.pc = "deleting" /\ s.id = id /\ Become(c, s)
    BY <1>4, AtType DEF ActorState, ActorPc, RemoveGet
  <2> HIDE DEF s
  <2>2. actor' \in [Actor -> ActorState] /\ LocalsOK'
    BY <1>0, <1>4, <2>1, MovesKeepLocals DEF RemoveGet, LocalsOK, HoldingPc, HasRow
  <2> QED
    BY <1>0, <1>4, <2>2 DEF RemoveGet, Calls
<1>5. ASSUME NEW b \in Batch, CancelBatch(c, b)
      PROVE  IInv'
  <2>1. /\ rows' \in [TaskId -> TaskRecord]
        /\ \A i \in TaskId : rows'[i].status # "none" => HasRow(i)
    BY <1>5, WritesKeepRows DEF CancelBatch
  <2> QED
    BY <1>0, <1>5, <2>1 DEF CancelBatch, Calls, LocalsOK, HasRow
<1>6. ASSUME Become(c, At("idle")), UNCHANGED <<dialect, poolVars>>,
             rows' \in [TaskId -> TaskRecord],
             \A i \in TaskId : rows'[i].status # "none" => HasRow(i)
      PROVE  IInv'
  <2>1. actor' \in [Actor -> ActorState] /\ LocalsOK'
    BY <1>0, <1>6, MovesKeepLocals DEF LocalsOK, HoldingPc
  <2> QED
    BY <1>6, <2>1
<1>7. CASE TerminateGet(c)
  <2>1. CASE GoTo(c, "terminateWrite")
    <3> DEFINE s == [actor[c] EXCEPT !.pc = "terminateWrite"]
    <3>1. s \in ActorState /\ s.pc = "terminateWrite" /\ s.id \in TaskId /\ Become(c, s)
      BY <1>0, <1>7, <2>1 DEF TerminateGet, LocalsOK, ActorState, ActorPc, GoTo
    <3> HIDE DEF s
    <3>2. actor' \in [Actor -> ActorState] /\ LocalsOK'
      BY <1>0, <1>7, <3>1, MovesKeepLocals DEF TerminateGet, LocalsOK, HoldingPc, HasRow
    <3> QED
      BY <1>7, <3>2 DEF TerminateGet
  <2> QED
    BY <1>6, <1>7, <2>1 DEF TerminateGet, HasRow
<1>8. CASE TerminateWrite(c) \/ RemoveDelete(c)
  <2>1. actor[c].id \in TaskId
    BY <1>0, <1>8 DEF TerminateWrite, RemoveDelete, LocalsOK
  <2>2. /\ rows' \in [TaskId -> TaskRecord]
        /\ \A i \in TaskId : rows'[i].status # "none" => HasRow(i)
    BY <1>8, <2>1, WritesKeepRows DEF TerminateWrite, RemoveDelete, TaskStatuses
  <2> QED
    BY <1>6, <1>8, <2>2 DEF TerminateWrite, RemoveDelete
<1>9. CASE DatabaseClosed(c)
  BY <1>6, <1>9 DEF DatabaseClosed, HasRow
<1> QED
  BY <1>1, <1>2, <1>3, <1>4, <1>5, <1>7, <1>8, <1>9 DEF ClientCall

\* Processes boot, stop and crash, statements fail, time passes.
LEMMA SystemKeepsInv ==
  ASSUME IInv,
         \/ \E p \in Process : Boot(p) \/ Handle(p) \/ PoolStop(p) \/ PoolClose(p)
         \/ \E id \in TaskId : TimePasses(id)
         \/ Misfortune
  PROVE  IInv'
<1> USE DEF IInv, TypeOK, poolVars
<1>0. /\ At("idle") \in ActorState /\ At("idle").pc = "idle"
      /\ At("exited") \in ActorState /\ At("exited").pc = "exited"
      /\ faults < FaultBound => faults + 1 \in 0 .. FaultBound
  BY AtType, BoundAssumption DEF ActorPc
<1>1. ASSUME NEW p \in Process, Boot(p)
      PROVE  IInv'
  <2>1. /\ rows' \in [TaskId -> TaskRecord]
        /\ \A i \in TaskId : rows'[i].status # "none" => HasRow(i)
    BY <1>1, WritesKeepRows DEF Boot
  <2>2. actor' \in [Actor -> ActorState] /\ LocalsOK'
    <3>1. \A a \in Actor : actor'[a] \in {actor[a], At("idle")}
      BY <1>1 DEF Boot
    <3>2. actor' \in [Actor -> ActorState]
      BY <1>0, <1>1, <3>1 DEF Boot
    <3> QED
      BY <1>0, <1>1, <2>1, <3>1, <3>2 DEF Boot, LocalsOK, HoldingPc, HasRow
  <2>3. overruled' \in SUBSET TaskId
    BY <1>1 DEF Boot, RunningRows
  <2> QED
    BY <1>1, <2>1, <2>2, <2>3 DEF Boot, ProcessState
<1>2. ASSUME NEW p \in Process, Handle(p) \/ PoolStop(p) \/ PoolClose(p)
      PROVE  IInv'
  BY <1>2 DEF Handle, PoolStop, PoolClose, LocalsOK, HasRow, ProcessState
<1>3. ASSUME NEW id \in TaskId, TimePasses(id)
      PROVE  IInv'
  BY <1>3 DEF TimePasses, BecomeDue, LocalsOK, HasRow, TaskRecord, TaskStatuses
<1>4. ASSUME NEW p \in Process, Crash(p)
      PROVE  IInv'
  <2>1. actor' \in [Actor -> ActorState] /\ LocalsOK'
    <3>1. \A a \in Actor : actor'[a] \in {actor[a], At("exited"), At("idle")}
      BY <1>4 DEF Crash
    <3>2. actor' \in [Actor -> ActorState]
      BY <1>0, <1>4, <3>1 DEF Crash
    <3> QED
      BY <1>0, <1>4, <3>1, <3>2 DEF Crash, LocalsOK, HoldingPc, HasRow
  <2>2. orphaned' \in SUBSET TaskId
    BY <1>4 DEF Crash
  <2> QED
    BY <1>0, <1>4, <2>1, <2>2 DEF Crash, ProcessState
<1>5. ASSUME NEW a \in Actor, StatementFails(a)
      PROVE  IInv'
  <2>1. actor[a] \in ActorState /\ actor[a].id \in TaskId
    BY <1>5 DEF StatementFails, LocalsOK
  <2>2. Become(a, At("idle")) \/ (actor[a].pc \in HoldingPc /\ GoTo(a, "failing"))
    BY <1>5 DEF StatementFails, EnqueueFails, HoldingPc
  <2>3. CASE Become(a, At("idle"))
    <3>1. actor' \in [Actor -> ActorState] /\ LocalsOK'
      BY <1>0, <1>5, <2>3, MovesKeepLocals DEF StatementFails, LocalsOK, HoldingPc, HasRow
    <3> QED
      BY <1>0, <1>5, <2>1, <3>1 DEF StatementFails
  <2>4. CASE actor[a].pc \in HoldingPc /\ GoTo(a, "failing")
    <3> DEFINE s == [actor[a] EXCEPT !.pc = "failing"]
    <3>1. s \in ActorState /\ s.pc = "failing" /\ s.id = actor[a].id /\ Become(a, s)
      BY <2>1, <2>4 DEF ActorState, ActorPc, HoldingPc, GoTo
    <3> HIDE DEF s
    <3>2. actor' \in [Actor -> ActorState] /\ LocalsOK'
      BY <1>5, <2>1, <2>4, <3>1, MovesKeepLocals DEF StatementFails, LocalsOK, HasRow
    <3> QED
      BY <1>0, <1>5, <2>1, <3>2 DEF StatementFails
  <2> QED
    BY <2>2, <2>3, <2>4
<1>6. ASSUME NEW w \in Worker, NEW id \in TaskId, MysqlCommitLost(w, id)
      PROVE  IInv'
  <2>1. HasRow(id)
    BY <1>6 DEF MysqlCommitLost, FirstClaimable, Claimable, HasRow
  <2>2. /\ rows' \in [TaskId -> TaskRecord]
        /\ \A i \in TaskId : rows'[i].status # "none" => HasRow(i)
    BY <1>6, <2>1, WritesKeepRows DEF MysqlCommitLost
  <2> QED
    BY <1>0, <1>6, <2>2 DEF MysqlCommitLost, LocalsOK, HasRow
<1> QED
  BY <1>1, <1>2, <1>3, <1>4, <1>5, <1>6 DEF Misfortune

\* Nothing is held when the processes are still down.
LEMMA InitInv == Init => IInv
<1> SUFFICES ASSUME Init PROVE IInv
  OBVIOUS
<1>1. \A a \in Actor : actor[a] \in ActorState /\ actor[a].pc \in {"exited", "idle"}
  BY AtType DEF Init, ActorPc
<1>2. LocalsOK
  BY <1>1 DEF Init, LocalsOK, HoldingPc, HasRow
<1>3. TypeOK
  BY <1>1, BoundAssumption DEF Init, TypeOK, RunningRows, HasRow, ProcessState
<1> QED
  BY <1>2, <1>3 DEF IInv

\* Every step keeps types and locals.
LEMMA StepInv == IInv /\ [Next]_vars => IInv'
<1> SUFFICES ASSUME IInv, [Next]_vars PROVE IInv'
  OBVIOUS
<1>1. ASSUME NEW w \in Worker, WorkerStep(w)
      PROVE  IInv'
  BY <1>1, WorkerKeepsInv, EnqueueKeepsInv DEF WorkerStep, Actor
<1>2. ASSUME NEW c \in Client, ClientCall(c) \/ ClientStep(c)
      PROVE  IInv'
  BY <1>2, ClientKeepsInv, EnqueueKeepsInv DEF ClientStep, Actor
<1>3. CASE UNCHANGED vars
  BY <1>3 DEF vars, poolVars, IInv, TypeOK, LocalsOK, HasRow
<1> QED
  BY <1>1, <1>2, <1>3, SystemKeepsInv DEF Next

\* Every variable keeps its type, for any number of processes, crashes and
\* failed statements; no task is retried more often than its limit.
THEOREM SqlTypeCorrect == Spec => []TypeOK
<1>1. IInv => TypeOK
  BY DEF IInv
<1> QED
  BY <1>1, InitInv, StepInv, PTL DEF Spec

-----------------------------------------------------------------------------
(* Who has a task *)

\* A row leaves "pending" by a claim, and nobody claims it behind the back of
\* its worker: what all steps but the claims have to show.
LEMMA NoClaim ==
  ASSUME ClaimInv, RunningHasHolder,
         overruled \subseteq overruled',
         \A id \in TaskId, w \in Worker : Holds(w, id)' => Holds(w, id),
         \A id \in TaskId : rows'[id].status = "pending" =>
            \/ rows[id].status = "pending"
            \/ id \in overruled'
            \/ \A w \in Worker : ~Holds(w, id)',
         \A id \in TaskId : rows'[id].status = "running" =>
            /\ rows[id].status = "running"
            /\ id \in orphaned \cup dropped => id \in orphaned' \cup dropped'
            /\ \A w \in Worker : Holds(w, id) => Holds(w, id)' \/ id \in orphaned' \cup dropped'
  PROVE  ClaimInv' /\ RunningHasHolder'
<1>1. ClaimInv'
  BY DEF ClaimInv
<1>2. RunningHasHolder'
  BY DEF RunningHasHolder, RunningRows
<1> QED
  BY <1>1, <1>2

\* A claim takes a pending row, which no worker has that has not been overruled.
LEMMA Claim ==
  ASSUME TypeOK, ClaimInv, RunningHasHolder, NEW w \in Worker, NEW id \in TaskId, NEW s,
         rows[id].status = "pending", MarkRunning(id),
         actor[w].pc \notin HoldingPc, Become(w, s), s.id = id, s.pc \in HoldingPc,
         UNCHANGED <<overruled, orphaned, dropped>>
  PROVE  ClaimInv' /\ RunningHasHolder'
<1>0. w \in Actor /\ DOMAIN actor = Actor
  BY DEF Actor, TypeOK
<1>1. /\ \A v \in Worker, i \in TaskId : Holds(v, i)' => Holds(v, i) \/ (v = w /\ i = id)
      /\ Holds(w, id)'
      /\ \A v \in Worker, i \in TaskId : Holds(v, i) => Holds(v, i)'
  BY <1>0 DEF Holds, Become
<1>2. /\ rows'[id].status = "running"
      /\ \A i \in TaskId : i # id => rows'[i] = rows[i]
  BY DEF MarkRunning, TypeOK, TaskRecord
<1>3. ClaimInv'
  BY <1>1, <1>2 DEF ClaimInv
<1>4. RunningHasHolder'
  BY <1>1, <1>2 DEF RunningHasHolder, RunningRows
<1> QED
  BY <1>3, <1>4

\* Moving one actor makes no new holder unless it begins to hold.
LEMMA MoveHolds ==
  ASSUME TypeOK, NEW a \in Actor, NEW s, Become(a, s),
         s.pc \in HoldingPc => a \notin Worker \/ (actor[a].pc \in HoldingPc /\ s.id = actor[a].id)
  PROVE  /\ \A id \in TaskId, w \in Worker : Holds(w, id)' => Holds(w, id)
         /\ \A id \in TaskId, w \in Worker :
                Holds(w, id) => Holds(w, id)' \/ (w = a /\ id = actor[a].id /\ s.pc \notin HoldingPc)
         /\ s.pc \notin HoldingPc => \A id \in TaskId : ~Holds(a, id)'
  BY DEF TypeOK, Become, Holds

\* Steps of a worker.
LEMMA WorkerKeepsClaims ==
  ASSUME IInv, ClaimInv, RunningHasHolder, NEW w \in Worker,
         \/ FindNothing(w) \/ Wake(w) \/ Exit(w) \/ SqliteClaim(w) \/ SqliteRead(w)
         \/ \E id \in TaskId : SqliteSelect(w, id) \/ MysqlClaim(w, id)
         \/ Settle(w) \/ LeaveUnrun(w) \/ Retry(w) \/ RecordFailure(w)
  PROVE  ClaimInv' /\ RunningHasHolder'
<1>0. w \in Actor /\ TypeOK /\ actor[w] \in ActorState
  BY DEF Actor, IInv, TypeOK
<1> USE DEF poolVars
<1>1. ASSUME NEW s, Become(w, s), UNCHANGED <<rows, overruled, orphaned, dropped>>,
             actor[w].pc \in HoldingPc /\ HasRow(actor[w].id) =>
                s.pc \in HoldingPc /\ s.id = actor[w].id,
             s.pc \in HoldingPc => actor[w].pc \in HoldingPc /\ s.id = actor[w].id
      PROVE  ClaimInv' /\ RunningHasHolder'
  <2>1. /\ \A id \in TaskId, v \in Worker : Holds(v, id)' => Holds(v, id)
        /\ \A id \in TaskId, v \in Worker : Holds(v, id) =>
                Holds(v, id)' \/ (v = w /\ id = actor[w].id /\ s.pc \notin HoldingPc)
    BY <1>0, <1>1, MoveHolds
  <2>2. ASSUME NEW id \in TaskId, rows[id].status = "running", NEW v \in Worker, Holds(v, id)
        PROVE  Holds(v, id)'
    BY <1>1, <2>1, <2>2 DEF Holds, HasRow
  <2> QED
    BY <1>1, <2>1, <2>2, NoClaim
<1>2. CASE FindNothing(w) \/ Wake(w) \/ Exit(w)
  <2>1. PICK pc \in {"waiting", "idle", "exited"} :
            Become(w, At(pc)) /\ UNCHANGED <<rows, overruled, orphaned, dropped>>
    BY <1>2 DEF FindNothing, Wake, Exit
  <2>2. At(pc).pc \notin HoldingPc /\ actor[w].pc \notin HoldingPc
    BY <1>2 DEF FindNothing, Wake, Exit, At, HoldingPc
  <2> QED
    BY <1>1, <2>1, <2>2
<1>3. ASSUME NEW id \in TaskId, SqliteSelect(w, id)
      PROVE  ClaimInv' /\ RunningHasHolder'
  <2> DEFINE s == [At("selected") EXCEPT !.id = id]
  <2>1. Become(w, s) /\ s.pc \notin HoldingPc /\ actor[w].pc \notin HoldingPc
    BY <1>3 DEF SqliteSelect, At, HoldingPc
  <2> HIDE DEF s
  <2> QED
    BY <1>1, <1>3, <2>1 DEF SqliteSelect
<1>4. CASE SqliteClaim(w)
  <2> DEFINE s == [actor[w] EXCEPT !.pc = "claimed"]
  <2>1. actor[w].pc \notin HoldingPc /\ actor[w].id \in TaskId
    BY <1>0, <1>4 DEF SqliteClaim, HoldingPc, IInv, LocalsOK
  <2>2. CASE rows[actor[w].id].status = "pending"
    <3>1. /\ MarkRunning(actor[w].id) /\ Become(w, s)
          /\ s.id = actor[w].id /\ s.pc \in HoldingPc
      BY <1>0, <1>4, <2>2 DEF SqliteClaim, GoTo, ActorState, HoldingPc
    <3> HIDE DEF s
    <3> QED
      BY <1>0, <1>4, <2>1, <2>2, <3>1, Claim DEF SqliteClaim
  <2>3. CASE rows[actor[w].id].status # "pending"
    <3>1. Become(w, At("waiting")) /\ At("waiting").pc \notin HoldingPc
      BY <1>4, <2>3 DEF SqliteClaim, At, HoldingPc
    <3> QED
      BY <1>1, <1>4, <2>1, <2>3, <3>1 DEF SqliteClaim
  <2> QED
    BY <2>2, <2>3
<1>5. CASE SqliteRead(w)
  <2> DEFINE s == IF HasRow(actor[w].id)
                  THEN TakeUp(w, actor[w].id) ELSE At("idle")
  <2>1. /\ Become(w, s)
        /\ HasRow(actor[w].id) => s.pc \in HoldingPc /\ s.id = actor[w].id
        /\ ~HasRow(actor[w].id) => s.pc \notin HoldingPc
        /\ actor[w].pc \in HoldingPc
    BY <1>5 DEF SqliteRead, TakeUp, At, HoldingPc
  <2> HIDE DEF s
  <2> QED
    BY <1>1, <1>5, <2>1 DEF SqliteRead
<1>6. ASSUME NEW id \in TaskId, MysqlClaim(w, id)
      PROVE  ClaimInv' /\ RunningHasHolder'
  <2> DEFINE s == TakeUp(w, id)
  <2>1. /\ rows[id].status = "pending" /\ actor[w].pc \notin HoldingPc
        /\ Become(w, s) /\ s.id = id /\ s.pc \in HoldingPc
    BY <1>6 DEF MysqlClaim, TakeUp, FirstClaimable, Claimable, HoldingPc
  <2> HIDE DEF s
  <2> QED
    BY <1>0, <1>6, <2>1, Claim DEF MysqlClaim
<1>7. CASE Settle(w) \/ RecordFailure(w)
  <2>1. /\ Become(w, At("idle")) /\ At("idle").pc \notin HoldingPc
        /\ actor[w].id \in TaskId
    BY <1>0, <1>7 DEF Settle, RecordFailure, At, HoldingPc, IInv, LocalsOK
  <2>2. /\ rows'[actor[w].id].status \notin {"pending", "running"}
        /\ \A id \in TaskId : id # actor[w].id => rows'[id] = rows[id]
    BY <1>0, <1>7, <2>1
    DEF Settle, RecordFailure, UpdateStatus, HasRow, TypeOK, TaskRecord, SettledStatuses
  <2>3. /\ \A id \in TaskId, v \in Worker : Holds(v, id)' => Holds(v, id)
        /\ \A id \in TaskId, v \in Worker : Holds(v, id) => Holds(v, id)' \/ id = actor[w].id
    BY <1>0, <2>1, MoveHolds
  <2>4. UNCHANGED <<overruled, orphaned, dropped>>
    BY <1>7 DEF Settle, RecordFailure
  <2> QED
    BY <2>1, <2>2, <2>3, <2>4, NoClaim
<1>8. CASE Retry(w)
  <2> DEFINE s == [actor[w] EXCEPT !.pc = "enqueue",
                     !.rec = [status |-> "pending", retries |-> actor[w].rec.retries + 1,
                              due |-> TRUE]]
  <2>1. /\ Become(w, s) /\ actor[w].pc \in HoldingPc
        /\ s.pc \in HoldingPc /\ s.id = actor[w].id
    BY <1>0, <1>8 DEF Retry, ActorState, HoldingPc
  <2> HIDE DEF s
  <2> QED
    BY <1>1, <1>8, <2>1 DEF Retry
<1>9. CASE LeaveUnrun(w)
  <2>1. /\ Become(w, At("idle")) /\ At("idle").pc \notin HoldingPc
        /\ dropped' = dropped \cup {actor[w].id}
        /\ UNCHANGED <<rows, overruled, orphaned>>
    BY <1>9 DEF LeaveUnrun, At, HoldingPc
  <2>2. /\ \A id \in TaskId, v \in Worker : Holds(v, id)' => Holds(v, id)
        /\ \A id \in TaskId, v \in Worker : Holds(v, id) => Holds(v, id)' \/ id = actor[w].id
    BY <1>0, <2>1, MoveHolds
  <2>3. \A id \in TaskId, v \in Worker : Holds(v, id) => Holds(v, id)' \/ id \in dropped'
    BY <2>1, <2>2
  <2> QED
    BY <2>1, <2>2, <2>3, NoClaim
<1> QED
  BY <1>2, <1>3, <1>4, <1>5, <1>6, <1>7, <1>8, <1>9

\* Enqueue is where a task is taken from its worker; then it is overruled.
LEMMA EnqueueKeepsClaims ==
  ASSUME IInv, ClaimInv, RunningHasHolder, NEW a \in Actor, EnqueueStep(a)
  PROVE  ClaimInv' /\ RunningHasHolder'
<1> USE DEF poolVars
<1>0. TypeOK /\ actor[a] \in ActorState
  BY DEF IInv, TypeOK
<1>1. actor[a].id \in TaskId /\ actor[a].pc \in HoldingPc /\ actor[a].rec.status \in Queued
  BY DEF EnqueueStep, EnqueueGet, EnqueueUpdate, EnqueueInsert, IInv, LocalsOK, HoldingPc
<1> PICK id \in TaskId : id = actor[a].id
  BY <1>1
<1>2. ASSUME NEW pc \in {"update", "insert", "failing"}, GoTo(a, pc),
             UNCHANGED <<dialect, rows, poolVars>>
      PROVE  ClaimInv' /\ RunningHasHolder'
  <2> DEFINE s == [actor[a] EXCEPT !.pc = pc]
  <2>1. Become(a, s) /\ s.pc \in HoldingPc /\ s.id = id
    BY <1>0, <1>2 DEF GoTo, ActorState, HoldingPc
  <2> HIDE DEF s
  <2>2. /\ \A i \in TaskId, v \in Worker : Holds(v, i)' => Holds(v, i)
        /\ \A i \in TaskId, v \in Worker : Holds(v, i) => Holds(v, i)'
    BY <1>0, <1>1, <2>1, MoveHolds
  <2> QED
    BY <1>2, <2>2, NoClaim
<1>3. ASSUME Enqueued(a),
             rows'[id].status # "running",
             \A i \in TaskId : i # id => rows'[i] = rows[i]
      PROVE  ClaimInv' /\ RunningHasHolder'
  <2>1. Become(a, At("idle")) /\ At("idle").pc \notin HoldingPc
    BY <1>3 DEF Enqueued, At, HoldingPc
  <2>2. /\ \A i \in TaskId, v \in Worker : Holds(v, i)' => Holds(v, i) /\ v # a
        /\ \A i \in TaskId, v \in Worker : Holds(v, i) => Holds(v, i)' \/ i = id
    BY <1>0, <2>1, MoveHolds
  <2>3. id \in overruled' \/ \A v \in Worker : ~Holds(v, id)'
    <3>1. overruled' = overruled \cup ({id} \cap HeldBesides(a))
      BY <1>3 DEF Enqueued
    <3>2. ASSUME NEW v \in Worker, Holds(v, id)'
          PROVE  id \in HeldBesides(a)
      BY <1>1, <2>2, <3>2 DEF HeldBesides
    <3> QED
      BY <3>1, <3>2
  <2>4. overruled \subseteq overruled' /\ UNCHANGED <<orphaned, dropped>>
    BY <1>3 DEF Enqueued
  <2>5. \A i \in TaskId : rows'[i].status = "pending" =>
            \/ rows[i].status = "pending"
            \/ i \in overruled'
            \/ \A v \in Worker : ~Holds(v, i)'
    BY <1>3, <2>3
  <2>6. \A i \in TaskId : rows'[i].status = "running" => i # id /\ rows'[i] = rows[i]
    BY <1>3
  <2> QED
    BY <2>2, <2>4, <2>5, <2>6, NoClaim
<1>4. CASE EnqueueGet(a)
  BY <1>2, <1>4 DEF EnqueueGet
<1>5. CASE EnqueueUpdate(a)
  <2>1. rows'[id].status # "running" /\ \A i \in TaskId : i # id => rows'[i] = rows[i]
    BY <1>0, <1>1, <1>5 DEF EnqueueUpdate, OverwriteRow, HasRow, TypeOK, Queued
  <2> QED
    BY <1>3, <1>5, <2>1 DEF EnqueueUpdate
<1>6. CASE EnqueueInsert(a)
  <2>1. CASE InsertRow(id, actor[a].rec) /\ Enqueued(a)
    <3>1. rows'[id].status # "running" /\ \A i \in TaskId : i # id => rows'[i] = rows[i]
      BY <1>0, <1>1, <2>1 DEF InsertRow, TypeOK, Queued
    <3> QED
      BY <1>3, <2>1, <3>1
  <2>2. CASE EnqueueFails(a) /\ UNCHANGED <<dialect, rows, poolVars>>
    <3>1. CASE a \in Worker
      BY <1>2, <2>2, <3>1 DEF EnqueueFails
    <3>2. CASE a \notin Worker
      <4>1. Become(a, At("idle")) /\ At("idle").pc \notin HoldingPc
        BY <2>2, <3>2 DEF EnqueueFails, At, HoldingPc
      <4>2. /\ \A i \in TaskId, v \in Worker : Holds(v, i)' => Holds(v, i)
            /\ \A i \in TaskId, v \in Worker : Holds(v, i) => Holds(v, i)'
        BY <1>0, <3>2, <4>1, MoveHolds
      <4> QED
        BY <2>2, <4>2, NoClaim
    <3> QED
      BY <3>1, <3>2
  <2> QED
    BY <1>6, <2>1, <2>2 DEF EnqueueInsert
<1> QED
  BY <1>4, <1>5, <1>6 DEF EnqueueStep

\* A call other than an Enqueue writes neither "pending" nor "running", except
\* for the row of a new task, which nobody has.
LEMMA ClientKeepsClaims ==
  ASSUME IInv, ClaimInv, RunningHasHolder, NEW c \in Client,
         \/ ClientCall(c)
         \/ TerminateGet(c) \/ TerminateWrite(c) \/ RemoveDelete(c) \/ DatabaseClosed(c)
  PROVE  ClaimInv' /\ RunningHasHolder'
<1> USE DEF poolVars
<1>0. c \in Actor /\ c \notin Worker /\ TypeOK /\ UNCHANGED <<overruled, orphaned, dropped>>
  BY ActorAssumption
  DEF Actor, IInv, ClientCall, SubmitSave, StartGet, Terminate, RemoveGet, CancelBatch,
      TerminateGet, TerminateWrite, RemoveDelete, DatabaseClosed
<1>1. UNCHANGED actor \/ \E s : Become(c, s)
  BY DEF ClientCall, SubmitSave, StartGet, Terminate, RemoveGet, CancelBatch,
         TerminateGet, TerminateWrite, RemoveDelete, DatabaseClosed, GoTo
<1>2. \A id \in TaskId, v \in Worker : Holds(v, id)' <=> Holds(v, id)
  <2>1. CASE UNCHANGED actor
    BY <2>1 DEF Holds
  <2>2. ASSUME NEW s, Become(c, s)
        PROVE  \A w \in Worker : actor'[w] = actor[w]
    BY <1>0, <2>2 DEF Become, TypeOK, Actor
  <2> QED
    BY <1>1, <2>1, <2>2 DEF Holds
<1>3. ASSUME \A id \in TaskId : rows'[id].status = "running" => rows[id].status = "running",
             \A id \in TaskId : rows'[id].status = "pending" =>
                rows[id].status = "pending" \/ \A w \in Worker : ~Holds(w, id)
      PROVE  ClaimInv' /\ RunningHasHolder'
  BY <1>0, <1>2, <1>3, NoClaim
<1>4. ASSUME NEW id \in TaskId, SubmitSave(c, id)
      PROVE  ClaimInv' /\ RunningHasHolder'
  <2>1. PICK rec \in NewTasks : InsertRow(id, rec)
    BY <1>4 DEF SubmitSave
  <2>2. rec.status # "running"
    BY DEF NewTasks
  <2>3. \A w \in Worker : ~Holds(w, id)
    BY <1>4 DEF SubmitSave, Holds, IInv, LocalsOK, Actor
  <2>4. \A i \in TaskId : rows'[i] = IF i = id THEN rec ELSE rows[i]
    BY <1>0, <2>1 DEF InsertRow, TypeOK
  <2> QED
    BY <1>3, <2>2, <2>3, <2>4
<1>5. ASSUME NEW ids, CancelQueuedIn(ids)
      PROVE  ClaimInv' /\ RunningHasHolder'
  <2>1. \A id \in TaskId : rows'[id] = rows[id] \/ rows'[id].status = "cancelled"
    BY <1>0, <1>5 DEF CancelQueuedIn, TypeOK, TaskRecord
  <2> QED
    BY <1>3, <2>1
<1>6. CASE TerminateWrite(c) \/ RemoveDelete(c)
  <2>1. \A id \in TaskId : rows'[id] = rows[id] \/ rows'[id].status \in {"cancelled", "none"}
    BY <1>0, <1>6, NoTaskIsRecord
    DEF TerminateWrite, RemoveDelete, UpdateStatus, DeleteRow, TypeOK, TaskRecord
  <2> QED
    BY <1>3, <2>1
<1>7. CASE UNCHANGED rows
  BY <1>3, <1>7
<1> QED
  BY <1>4, <1>5, <1>6, <1>7
  DEF ClientCall, StartGet, Terminate, RemoveGet, CancelBatch, TerminateGet, DatabaseClosed

\* What happens to processes and statements makes no holder; a Boot overrules
\* the holders whose rows it resets.
LEMMA SystemKeepsClaims ==
  ASSUME IInv, ClaimInv, RunningHasHolder,
         \/ \E p \in Process : Boot(p) \/ Handle(p) \/ PoolStop(p) \/ PoolClose(p)
         \/ \E id \in TaskId : TimePasses(id)
         \/ Misfortune
  PROVE  ClaimInv' /\ RunningHasHolder'
<1> USE DEF poolVars
<1>0. /\ TypeOK
      /\ At("idle").pc \notin HoldingPc /\ At("exited").pc \notin HoldingPc
  BY DEF IInv, At, HoldingPc
<1>1. ASSUME NEW p \in Process, Boot(p)
      PROVE  ClaimInv' /\ RunningHasHolder'
  <2>1. \A id \in TaskId, v \in Worker : Holds(v, id)' => Holds(v, id)
    BY <1>0, <1>1 DEF Boot, Holds, Actor
  <2>2. \A id \in TaskId : /\ rows'[id].status # "running"
                           /\ rows[id].status # "running" => rows'[id] = rows[id]
    BY <1>0, <1>1 DEF Boot, RecoverRows, TypeOK, TaskRecord
  <2>3. \A id \in TaskId, v \in Worker :
            rows[id].status = "running" /\ Holds(v, id) => id \in overruled'
    BY <1>1 DEF Boot, RunningRows
  <2>4. overruled \subseteq overruled'
    BY <1>1 DEF Boot
  <2> QED
    BY <2>1, <2>2, <2>3, <2>4, NoClaim
<1>2. ASSUME \A id \in TaskId, v \in Worker : Holds(v, id)' <=> Holds(v, id),
             \A id \in TaskId : rows'[id].status = rows[id].status,
             UNCHANGED <<overruled, orphaned, dropped>>
      PROVE  ClaimInv' /\ RunningHasHolder'
  BY <1>2, NoClaim
<1>3. ASSUME NEW p \in Process, Handle(p) \/ PoolStop(p) \/ PoolClose(p)
      PROVE  ClaimInv' /\ RunningHasHolder'
  BY <1>2, <1>3 DEF Handle, PoolStop, PoolClose, Holds
<1>4. ASSUME NEW id \in TaskId, TimePasses(id)
      PROVE  ClaimInv' /\ RunningHasHolder'
  <2>1. \A i \in TaskId : rows'[i].status = rows[i].status
    BY <1>0, <1>4 DEF TimePasses, BecomeDue, TypeOK, TaskRecord
  <2> QED
    BY <1>2, <1>4, <2>1 DEF TimePasses, Holds
<1>5. ASSUME NEW p \in Process, Crash(p)
      PROVE  ClaimInv' /\ RunningHasHolder'
  <2>1. /\ \A id \in TaskId, v \in Worker : Holds(v, id)' => Holds(v, id)
        /\ \A id \in TaskId, v \in Worker : Holds(v, id) => Holds(v, id)' \/ id \in orphaned'
    BY <1>0, <1>5 DEF Crash, Holds, Actor
  <2>2. orphaned \subseteq orphaned' /\ UNCHANGED <<rows, overruled, dropped>>
    BY <1>5 DEF Crash
  <2> QED
    BY <2>1, <2>2, NoClaim
<1>6. ASSUME NEW a \in Actor, StatementFails(a)
      PROVE  ClaimInv' /\ RunningHasHolder'
  <2>1. UNCHANGED <<rows, overruled, orphaned>> /\ dropped \subseteq dropped'
    BY <1>6 DEF StatementFails
  <2>2. CASE GoTo(a, "failing") /\ actor[a].pc \in HoldingPc
    <3> DEFINE s == [actor[a] EXCEPT !.pc = "failing"]
    <3>1. Become(a, s) /\ s.pc \in HoldingPc /\ s.id = actor[a].id
      BY <1>0, <2>2 DEF GoTo, TypeOK, ActorState, HoldingPc
    <3> HIDE DEF s
    <3>2. \A id \in TaskId, v \in Worker : Holds(v, id)' <=> Holds(v, id)
      BY <1>0, <2>2, <3>1, MoveHolds
    <3> QED
      BY <2>1, <3>2, NoClaim
  <2>3. CASE Become(a, At("idle")) /\ (a \in Worker /\ actor[a].pc \in HoldingPc
                                        => actor[a].id \in dropped')
    <3>1. /\ \A id \in TaskId, v \in Worker : Holds(v, id)' => Holds(v, id)
          /\ \A id \in TaskId, v \in Worker : Holds(v, id) =>
                 Holds(v, id)' \/ (v = a /\ id = actor[a].id)
      BY <1>0, <2>3, MoveHolds
    <3>2. \A id \in TaskId, v \in Worker : Holds(v, id) => Holds(v, id)' \/ id \in dropped'
      BY <2>3, <3>1 DEF Holds
    <3> QED
      BY <2>1, <3>1, <3>2, NoClaim
  <2> QED
    BY <1>6, <2>2, <2>3 DEF StatementFails, EnqueueFails, HoldingPc
<1>7. ASSUME NEW w \in Worker, NEW id \in TaskId, MysqlCommitLost(w, id)
      PROVE  ClaimInv' /\ RunningHasHolder'
  <2>1. /\ rows'[id].status = "running"
        /\ \A i \in TaskId : i # id => rows'[i] = rows[i]
    BY <1>0, <1>7 DEF MysqlCommitLost, MarkRunning, TypeOK, TaskRecord
  <2>2. /\ \A i \in TaskId, v \in Worker : Holds(v, i)' <=> Holds(v, i)
        /\ UNCHANGED <<overruled, orphaned>>
        /\ dropped' = dropped \cup {id}
    BY <1>7 DEF MysqlCommitLost, Holds
  <2>3. ClaimInv'
    BY <2>1, <2>2 DEF ClaimInv
  <2>4. RunningHasHolder'
    BY <2>1, <2>2 DEF RunningHasHolder, RunningRows
  <2> QED
    BY <2>3, <2>4
<1> QED
  BY <1>1, <1>3, <1>4, <1>5, <1>6, <1>7 DEF Misfortune

\* The two invariants, on top of types and locals.
LEMMA AlwaysClaims == Spec => [](ClaimInv /\ RunningHasHolder)
<1>1. Init => ClaimInv /\ RunningHasHolder
  <2> SUFFICES ASSUME Init PROVE ClaimInv /\ RunningHasHolder
    OBVIOUS
  <2>1. \A id \in TaskId, w \in Worker : ~Holds(w, id)
    BY DEF Init, Holds, HoldingPc, At, Actor
  <2> QED
    BY <2>1 DEF Init, ClaimInv, RunningHasHolder
<1>2. IInv /\ ClaimInv /\ RunningHasHolder /\ [Next]_vars => (ClaimInv /\ RunningHasHolder)'
  <2> SUFFICES ASSUME IInv, ClaimInv, RunningHasHolder, [Next]_vars
               PROVE  ClaimInv' /\ RunningHasHolder'
    OBVIOUS
  <2>1. ASSUME NEW w \in Worker, WorkerStep(w)
        PROVE  ClaimInv' /\ RunningHasHolder'
    BY <2>1, WorkerKeepsClaims, EnqueueKeepsClaims DEF WorkerStep, Actor
  <2>2. ASSUME NEW c \in Client, ClientCall(c) \/ ClientStep(c)
        PROVE  ClaimInv' /\ RunningHasHolder'
    BY <2>2, ClientKeepsClaims, EnqueueKeepsClaims DEF ClientStep, Actor
  <2>3. CASE UNCHANGED vars
    BY <2>3 DEF vars, poolVars, ClaimInv, RunningHasHolder, RunningRows, Holds
  <2> QED
    BY <2>1, <2>2, <2>3, SystemKeepsClaims DEF Next
<1> QED
  BY <1>1, <1>2, InitInv, StepInv, PTL DEF Spec

\* No claim hands out a task that another worker still has: not the SELECT and
\* conditional UPDATE of SQLite, not the transaction of MySQL.
THEOREM ClaimsAreExclusive == Spec => []SharedOnlyIfOverruled
<1>1. ClaimInv => SharedOnlyIfOverruled
  BY DEF ClaimInv, SharedOnlyIfOverruled
<1> QED
  BY <1>1, AlwaysClaims, PTL

\* A running row without a worker comes from a crash, a failed statement or a Stop.
THEOREM RunningRowsAreHeld == Spec => []RunningHasHolder
  BY AlwaysClaims, PTL
=============================================================================
