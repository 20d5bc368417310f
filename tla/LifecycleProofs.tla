-------------------------- MODULE LifecycleProofs --------------------------
(***************************************************************************)
(* Without Start, Remove and CancelBatch, the pool implements              *)
(* TaskLifecycle, for any number of workers, clients and tasks.            *)
(*                                                                         *)
(* The invariant says whose turn it is: the stored record of a task that a *)
(* worker holds is the one the worker has read, but for the status, so its *)
(* next write is a step from "running"; a call that is about to write      *)
(* "cancelled" can rely on the status it has read, because nothing leads   *)
(* out of paused and failed but another Terminate.                         *)
(***************************************************************************)
EXTENDS ExclusionProofs

OnlyForward == Ops \cap {"start", "remove", "cancelBatch"} = {}

LifeInv ==
    /\ \A id \in TaskId : id \notin submitted => tasks[id] = NoTask /\ id \notin unqueued
    /\ \A id \in TaskId, w \in Worker : Holds(w, id) =>
        /\ tasks[id].status = "running" /\ id \notin unqueued
        /\ worker[w].retries = tasks[id].retries
    /\ \A id \in unqueued : items[id] = 0 /\ tasks[id].status \in Queued \cup {"cancelled"}
    /\ \A c \in Client :
        /\ client[c].pc \notin {"starting", "removing"}
        /\ client[c].pc = "submitting" =>
            client[c].id \in unqueued /\ client[c].rec.retries = 0
        /\ client[c].pc = "terminateWrite" =>
            /\ client[c].id \notin unqueued
            /\ tasks[client[c].id].status \in {"paused", "failed", "cancelled"}

\* One task takes a step of its life, the others do not.
Moves(id, new, tries) ==
    /\ id \in TaskId
    /\ VisibleStatus' = [VisibleStatus EXCEPT ![id] = new]
    /\ VisibleRetries' = [VisibleRetries EXCEPT ![id] = tries]

\* Nothing a user can see happens.
Hidden == UNCHANGED <<VisibleStatus, VisibleRetries>>

\* How the writes of the backend look from outside.
LEMMA WritesShow ==
  ASSUME MemTypeOK, NEW id \in TaskId
  PROVE  /\ \A rec \in TaskRecord : MemEnqueue(id, rec) => Moves(id, rec.status, rec.retries)
         /\ \A status : MemUpdateStatus(id, status) /\ id \notin unqueued /\ Stored(id)
                => Moves(id, status, VisibleRetries[id])
         /\ MemDequeue(id) /\ id \notin unqueued => Moves(id, "running", VisibleRetries[id])
         /\ MemRemove(id) /\ id \notin unqueued => Moves(id, "cancelled", VisibleRetries[id])
         /\ MemRemove(id) /\ id \in unqueued => Hidden
         /\ \A rec \in TaskRecord : MemSave(id, rec) /\ tasks[id] = NoTask /\ id \notin unqueued
                => Hidden
         /\ MemBecomeDue(id) => Hidden
<1> USE DEF MemTypeOK, TaskRecord, VisibleStatus, VisibleRetries, Moves, Hidden
<1>1. ASSUME NEW rec \in TaskRecord, MemEnqueue(id, rec)
      PROVE  Moves(id, rec.status, rec.retries)
  BY <1>1 DEF MemEnqueue
<1>2. ASSUME NEW status, MemUpdateStatus(id, status), id \notin unqueued, Stored(id)
      PROVE  Moves(id, status, VisibleRetries[id])
  BY <1>2 DEF MemUpdateStatus
<1>3. ASSUME MemDequeue(id), id \notin unqueued
      PROVE  Moves(id, "running", VisibleRetries[id])
  BY <1>3 DEF MemDequeue
<1>4. ASSUME MemRemove(id), id \notin unqueued
      PROVE  Moves(id, "cancelled", VisibleRetries[id])
  BY <1>4 DEF MemRemove
<1>5. ASSUME MemRemove(id), id \in unqueued
      PROVE  Hidden
  BY <1>5 DEF MemRemove
<1>6. ASSUME NEW rec \in TaskRecord, MemSave(id, rec), tasks[id] = NoTask, id \notin unqueued
      PROVE  Hidden
  BY <1>6 DEF MemSave, NoTask
<1>7. ASSUME MemBecomeDue(id)
      PROVE  Hidden
  BY <1>7 DEF MemBecomeDue
<1> QED
  BY <1>1, <1>2, <1>3, <1>4, <1>5, <1>6, <1>7

\* Which moves the life cycle allows.
LEMMA MovesAreSteps ==
  ASSUME NEW id, NEW new, NEW tries, Moves(id, new, tries),
         \/ /\ VisibleStatus[id] = "none" /\ new \in Queued
            /\ tries = VisibleRetries[id]
         \/ /\ VisibleStatus[id] \in Queued /\ new = "running"
            /\ tries = VisibleRetries[id]
         \/ /\ VisibleStatus[id] = "running" /\ new \in SettledStatuses
            /\ tries = VisibleRetries[id]
         \/ /\ VisibleStatus[id] = "running" /\ new = "pending"
            /\ VisibleRetries[id] < MaxRetries[id] /\ tries = VisibleRetries[id] + 1
         \/ /\ VisibleStatus[id] \in Queued \cup {"paused", "failed"} /\ new = "cancelled"
            /\ tries = VisibleRetries[id]
  PROVE  Lifecycle!Next
<1> USE DEF Moves, Queued, SettledStatuses
<1>1. tries = VisibleRetries[id] => UNCHANGED VisibleRetries
  BY DEF VisibleRetries
<1>2. Lifecycle!Accept(id) \/ Lifecycle!Claim(id) \/ Lifecycle!End(id) \/ Lifecycle!Retry(id)
      \/ Lifecycle!Terminate(id)
  BY <1>1 DEF Lifecycle!Accept, Lifecycle!Claim, Lifecycle!End, Lifecycle!Retry,
              Lifecycle!Terminate, Lifecycle!Becomes
<1> QED
  BY <1>2 DEF Lifecycle!Next

\* A write of another status than "cancelled" into a cancelled task, or of any
\* into a task that no call has just read, leaves the calls' knowledge true.
LEMMA Knowledge ==
  ASSUME IInv, TokenInv, LifeInv, NEW id \in TaskId, NEW w \in Worker, Holds(w, id)
  PROVE  /\ \A c \in Client : client[c].pc \in {"submitting", "terminateWrite"} => client[c].id # id
         /\ \A v \in Worker : Holds(v, id) => v = w
         /\ id \in submitted /\ Stored(id)
         /\ VisibleStatus[id] = "running" /\ VisibleRetries[id] = tasks[id].retries
  BY DEF LifeInv, TokenInv, CountInv, Free, VisibleStatus, VisibleRetries, Stored

\* What a worker's step does to the life of the tasks.
LEMMA WorkerLives ==
  ASSUME IInv, TokenInv, LifeInv, NEW w \in Worker, WorkerStep(w)
  PROVE  LifeInv' /\ (Lifecycle!Next \/ Hidden)
<1> USE DEF IInv, MemInv
<1>0. /\ \A c \in Client : client'[c].pc = client[c].pc /\ client'[c].id = client[c].id
      /\ \A c \in Client : client'[c].rec = client[c].rec
      /\ UNCHANGED submitted
  <2>1. \A c \in Client : client'[c].rec = client[c].rec
    <3>1. CASE Deregister(w)
      BY <3>1 DEF Deregister, EngineTypeOK, ClientState
    <3>2. CASE ~Deregister(w)
      BY <3>2, WorkerStep(w)
      DEF WorkerStep, Park, Exit, Dequeue, BeginExecution, Abandon, UnknownType, HandlerReturn,
          CheckSignal, Settle, SettleIntervened, SettleCompleted, SettleRetry, SettleRetryRefused,
          FailRefusedRetry, SettleFailed
    <3> QED
      BY <3>1, <3>2
  <2> QED
    BY <2>1, WorkerKeepsCalls
<1>1. ASSUME NEW id \in TaskId, Dequeue(w, id)
      PROVE  LifeInv' /\ Lifecycle!Next
  <2>1. /\ items[id] = 1 /\ id \notin unqueued /\ tasks[id].status \in Queued
        /\ id \in submitted
    BY <1>1 DEF CountInv, Free, Dequeue, MemDequeue, Ready, IsQueued, TokenInv, LifeInv
  <2>2. Lifecycle!Next
    <3>1. Moves(id, "running", VisibleRetries[id])
      BY <1>1, <2>1, WritesShow DEF Dequeue
    <3>2. VisibleStatus[id] \in Queued
      BY <2>1 DEF VisibleStatus
    <3> QED
      BY <3>1, <3>2, MovesAreSteps
  <2>3. /\ \A v \in Worker, i \in TaskId : Holds(v, i)' <=> Holds(v, i) \/ (v = w /\ i = id)
        /\ worker'[w].retries = tasks[id].retries
        /\ \A v \in Worker : v # w => worker'[v] = worker[v]
        /\ \A v \in Worker, i \in TaskId : Holds(v, i) => v # w
    BY <1>1 DEF Dequeue, Holds, EngineTypeOK, FreshWorker, WorkerState
  <2>4. \A v \in Worker : ~Holds(v, id)
    BY <2>1 DEF TokenInv, CountInv, Free
  <2>5. /\ tasks'[id].status = "running" /\ tasks'[id].retries = tasks[id].retries
        /\ \A i \in TaskId : i # id => tasks'[i] = tasks[i] /\ items'[i] = items[i]
        /\ UNCHANGED unqueued
    BY <1>1 DEF Dequeue, MemDequeue, MemTypeOK, TaskRecord
  <2>6. unqueued \subseteq TaskId /\ \A c \in Client : client[c].pc = "terminateWrite" =>
            client[c].id \in TaskId /\ client[c].id # id
    BY <2>1 DEF MemTypeOK, LifeInv, LocalsOK, Queued
  <2> QED
    BY <1>0, <2>1, <2>2, <2>3, <2>4, <2>5, <2>6 DEF LifeInv
<1>2. ASSUME UNCHANGED memVars,
             \A v \in Worker, i \in TaskId : Holds(v, i)' => Holds(v, i)
                                            /\ worker'[v].retries = worker[v].retries
      PROVE  LifeInv' /\ Hidden
  BY <1>0, <1>2 DEF LifeInv, memVars, Hidden, VisibleStatus, VisibleRetries
<1>3. CASE \/ Park(w) \/ Exit(w) \/ BeginExecution(w) \/ Abandon(w) \/ HandlerReturn(w)
           \/ CheckSignal(w) \/ SettleRetryRefused(w) \/ Deregister(w)
  <2>1. UNCHANGED memVars
    BY <1>3 DEF Park, Exit, BeginExecution, Abandon, HandlerReturn, CheckSignal,
                SettleRetryRefused, Deregister
  <2>2. /\ \A v \in Worker : v # w => worker'[v] = worker[v]
        /\ \A i \in TaskId : Holds(w, i)' => Holds(w, i) /\ worker'[w].retries = worker[w].retries
    <3> USE DEF Holds, EngineTypeOK, WorkerState
    <3>1. CASE Park(w) \/ Exit(w) \/ BeginExecution(w) \/ SettleRetryRefused(w)
      BY <3>1 DEF Park, Exit, BeginExecution, SettleRetryRefused, Failing, GoTo
    <3>2. CASE Abandon(w) \/ Deregister(w)
      BY <3>2 DEF Abandon, Deregister, FreshWorker
    <3>3. CASE HandlerReturn(w)
      BY <3>3 DEF HandlerReturn
    <3>4. CASE CheckSignal(w)
      BY <3>4 DEF CheckSignal
    <3> QED
      BY <1>3, <3>1, <3>2, <3>3, <3>4
  <2> QED
    BY <1>2, <2>1, <2>2 DEF Holds
<1>4. CASE \/ UnknownType(w) \/ SettleIntervened(w) \/ SettleCompleted(w)
           \/ FailRefusedRetry(w) \/ SettleFailed(w)
  <2>1. PICK id \in TaskId : id = worker[w].id /\ Holds(w, id)
    BY <1>4 DEF UnknownType, SettleIntervened, SettleCompleted, FailRefusedRetry, SettleFailed,
                Failing, Holds, LocalsOK
  <2>2. PICK status \in SettledStatuses : MemUpdateStatus(id, status) /\ GoTo(w, "finishing")
    BY <1>4, <2>1
    DEF UnknownType, SettleIntervened, SettleCompleted, FailRefusedRetry, SettleFailed,
        EngineTypeOK, WorkerState, SettledStatuses
  <2>3. id \notin unqueued /\ Stored(id) /\ VisibleStatus[id] = "running"
    BY <2>1, Knowledge DEF LifeInv
  <2>4. Lifecycle!Next
    <3>1. Moves(id, status, VisibleRetries[id])
      BY <2>2, <2>3, WritesShow
    <3> QED
      BY <2>3, <3>1, MovesAreSteps
  <2>5. \A v \in Worker, i \in TaskId : Holds(v, i)' =>
            Holds(v, i) /\ i # id /\ worker'[v].retries = worker[v].retries
    <3>1. \A v \in Worker : v # w => worker'[v] = worker[v]
      BY <2>2 DEF GoTo
    <3>2. \A i \in TaskId : ~Holds(w, i)'
      BY <2>2 DEF GoTo, Holds, EngineTypeOK, WorkerState
    <3>3. \A v \in Worker : Holds(v, id) => v = w
      BY <2>1, Knowledge
    <3> QED
      BY <3>1, <3>2, <3>3 DEF Holds
  <2>6. /\ \A i \in TaskId : i # id => tasks'[i] = tasks[i]
        /\ UNCHANGED <<items, unqueued>>
    BY <2>2 DEF MemUpdateStatus
  <2>7. /\ id \in submitted
        /\ \A c \in Client : client[c].pc = "terminateWrite" => client[c].id \in TaskId \ {id}
        /\ unqueued \subseteq TaskId
    BY <2>1, Knowledge DEF LocalsOK, MemTypeOK
  <2> QED
    BY <1>0, <2>3, <2>4, <2>5, <2>6, <2>7 DEF LifeInv
<1>5. CASE SettleRetry(w)
  <2>1. PICK id \in TaskId : id = worker[w].id /\ Holds(w, id)
    BY <1>5 DEF SettleRetry, Failing, Holds, LocalsOK
  <2> DEFINE rec == [status |-> "pending", retries |-> worker[w].retries + 1, due |-> TRUE]
  <2>2. MemEnqueue(id, rec) /\ worker[w].retries < MaxRetries[id] /\ GoTo(w, "finishing")
    BY <1>5, <2>1 DEF SettleRetry, CanRetry
  <2>3. rec \in TaskRecord /\ rec.status = "pending" /\ rec.retries = worker[w].retries + 1
    BY <2>2, MaxRetriesAssumption, RetryBoundAssumption
    DEF TaskRecord, TaskStatuses, EngineTypeOK, WorkerState
  <2> HIDE DEF rec
  <2>4. /\ id \notin unqueued /\ VisibleStatus[id] = "running"
        /\ VisibleRetries[id] = worker[w].retries
    BY <2>1, Knowledge DEF LifeInv
  <2>5. Lifecycle!Next
    <3>1. Moves(id, "pending", worker[w].retries + 1)
      BY <2>2, <2>3, WritesShow
    <3> QED
      BY <2>2, <2>4, <3>1, MovesAreSteps
  <2>6. \A v \in Worker, i \in TaskId : Holds(v, i)' =>
            Holds(v, i) /\ i # id /\ worker'[v].retries = worker[v].retries
    <3>1. \A v \in Worker : v # w => worker'[v] = worker[v]
      BY <2>2 DEF GoTo
    <3>2. \A i \in TaskId : ~Holds(w, i)'
      BY <2>2 DEF GoTo, Holds, EngineTypeOK, WorkerState
    <3>3. \A v \in Worker : Holds(v, id) => v = w
      BY <2>1, Knowledge
    <3> QED
      BY <3>1, <3>2, <3>3 DEF Holds
  <2>7. /\ \A i \in TaskId : i # id => tasks'[i] = tasks[i] /\ items'[i] = items[i]
        /\ unqueued' = unqueued
    BY <2>2, <2>4 DEF MemEnqueue
  <2>8. /\ id \in submitted
        /\ \A c \in Client : client[c].pc = "terminateWrite" => client[c].id \in TaskId \ {id}
        /\ unqueued \subseteq TaskId
    BY <2>1, Knowledge DEF LocalsOK, MemTypeOK
  <2> QED
    BY <1>0, <2>4, <2>5, <2>6, <2>7, <2>8 DEF LifeInv
<1> QED
  BY <1>1, <1>3, <1>4, <1>5, WorkerStep(w) DEF WorkerStep, Settle

\* What a step of a call does to the life of the tasks.
LEMMA ClientLives ==
  ASSUME IInv, TokenInv, LifeInv, OnlyForward, NEW c \in Client, ClientCall(c) \/ ClientStep(c)
  PROVE  LifeInv' /\ (Lifecycle!Next \/ Hidden)
<1> USE DEF IInv, MemInv
<1>0. /\ \A v \in Worker, i \in TaskId : Holds(v, i)' <=> Holds(v, i)
      /\ \A v \in Worker, i \in TaskId : Holds(v, i)' => worker'[v].retries = worker[v].retries
  BY ClientKeepsRuns DEF Holds
<1>1. ASSUME NEW id \in TaskId, SubmitSave(c, id)
      PROVE  LifeInv' /\ Hidden
  <2>1. PICK rec \in NewTasks :
            /\ MemSave(id, rec)
            /\ client' = [client EXCEPT ![c] =
                    [IdleClient EXCEPT !.pc = "submitting", !.id = id, !.rec = rec]]
    BY <1>1 DEF SubmitSave
  <2>2. id \notin submitted /\ submitted' = submitted \cup {id}
    BY <1>1 DEF SubmitSave
  <2>3. tasks[id] = NoTask /\ id \notin unqueued /\ items[id] = 0
    BY <2>2 DEF LifeInv, TokenInv, CountInv, Free
  <2>4. rec \in TaskRecord /\ rec.status \in Queued /\ rec.retries = 0
    <3>1. \/ rec = [status |-> "pending", retries |-> 0, due |-> TRUE]
          \/ rec \in [status : {"delayed"}, retries : {0}, due : BOOLEAN]
      BY DEF NewTasks
    <3>2. 0 \in 0 .. RetryBound
      BY RetryBoundAssumption
    <3>3. CASE rec = [status |-> "pending", retries |-> 0, due |-> TRUE]
      BY <3>2, <3>3 DEF TaskRecord, TaskStatuses, Queued
    <3>4. CASE rec \in [status : {"delayed"}, retries : {0}, due : BOOLEAN]
      BY <3>2, <3>4 DEF TaskRecord, TaskStatuses, Queued
    <3> QED
      BY <3>1, <3>3, <3>4
  <2>5. Hidden
    BY <2>1, <2>3, <2>4, WritesShow
  <2>6. /\ \A d \in Client : d # c => client'[d] = client[d]
        /\ client'[c].pc = "submitting" /\ client'[c].id = id /\ client'[c].rec = rec
    BY <2>1 DEF EngineTypeOK, IdleClient
  <2>7. /\ tasks'[id] = rec /\ \A i \in TaskId : i # id => tasks'[i] = tasks[i]
        /\ unqueued' = unqueued \cup {id} /\ UNCHANGED items
    BY <2>1 DEF MemSave, MemTypeOK
  <2>8. /\ \A w \in Worker : ~Holds(w, id)
        /\ unqueued \subseteq TaskId
        /\ \A d \in Client : client[d].pc = "terminateWrite" => client[d].id \in TaskId \ {id}
    BY <2>2, <2>3 DEF TokenInv, CountInv, Free, MemTypeOK, LocalsOK, LifeInv, NoTask
  <2> QED
    BY <1>0, <2>2, <2>3, <2>4, <2>5, <2>6, <2>7, <2>8 DEF LifeInv
<1>2. CASE SubmitEnqueue(c)
  <2>1. PICK id \in TaskId : id = client[c].id /\ Submitting(c, id)
    BY <1>2 DEF SubmitEnqueue, Submitting, LocalsOK
  <2>2. PICK rec \in TaskRecord : rec = client[c].rec /\ rec.status \in Queued /\ rec.retries = 0
    BY <1>2 DEF SubmitEnqueue, LifeInv, LocalsOK, EngineTypeOK, ClientState
  <2>3. MemEnqueue(id, rec) /\ Return(c) /\ UNCHANGED submitted
    BY <1>2, <2>1, <2>2 DEF SubmitEnqueue
  <2>4. id \in unqueued /\ VisibleStatus[id] = "none" /\ VisibleRetries[id] = 0
    BY <1>2, <2>1 DEF SubmitEnqueue, LifeInv, VisibleStatus, VisibleRetries
  <2>5. Lifecycle!Next
    <3>1. Moves(id, rec.status, rec.retries)
      BY <2>3, WritesShow
    <3> QED
      BY <2>2, <2>4, <3>1, MovesAreSteps
  <2>6. /\ \A d \in Client : d # c => client'[d] = client[d]
        /\ client'[c].pc = "idle"
    BY <2>3 DEF Return, EngineTypeOK, IdleClient
  <2>7. /\ tasks'[id] = rec /\ \A i \in TaskId : i # id => tasks'[i] = tasks[i] /\ items'[i] = items[i]
        /\ unqueued' = unqueued \ {id}
    BY <2>3 DEF MemEnqueue, MemTypeOK
  <2>8. /\ \A w \in Worker : ~Holds(w, id)
        /\ id \in submitted /\ unqueued \subseteq TaskId
        /\ \A d \in Client : d # c /\ client[d].pc = "submitting" => client[d].id # id
        /\ \A d \in Client : client[d].pc = "terminateWrite" => client[d].id \in TaskId \ {id}
    BY <2>1, <2>4 DEF TokenInv, CountInv, Free, MemTypeOK, LocalsOK, LifeInv, Submitting
  <2> QED
    BY <1>0, <2>2, <2>3, <2>5, <2>6, <2>7, <2>8 DEF LifeInv
<1>3. CASE TerminateQueued(c)
  <2>1. PICK id \in TaskId : id = client[c].id /\ MemRemove(id) /\ Return(c) /\ UNCHANGED submitted
    BY <1>3 DEF TerminateQueued, LocalsOK
  <2>2. tasks[id].status \in Queued
    BY <2>1 DEF MemRemove, IsQueued
  <2>3. Lifecycle!Next \/ Hidden
    <3>1. CASE id \in unqueued
      BY <2>1, <3>1, WritesShow
    <3>2. CASE id \notin unqueued
      <4>1. Moves(id, "cancelled", VisibleRetries[id])
        BY <2>1, <3>2, WritesShow
      <4>2. VisibleStatus[id] \in Queued
        BY <2>2, <3>2 DEF VisibleStatus
      <4> QED
        BY <4>1, <4>2, MovesAreSteps
    <3> QED
      BY <3>1, <3>2
  <2>4. /\ \A d \in Client : d # c => client'[d] = client[d]
        /\ client'[c].pc = "idle"
    BY <2>1 DEF Return, EngineTypeOK, IdleClient
  <2>5. /\ tasks'[id].status = "cancelled"
        /\ \A i \in TaskId : i # id => tasks'[i] = tasks[i] /\ items'[i] = items[i]
        /\ items[id] = 0 => items'[id] = 0
        /\ UNCHANGED unqueued
    BY <2>1 DEF MemRemove, MemTypeOK, TaskRecord
  <2>6. /\ \A w \in Worker : ~Holds(w, id)
        /\ id \in submitted /\ unqueued \subseteq TaskId
        /\ \A d \in Client : client[d].pc = "terminateWrite" => client[d].id \in TaskId
    BY <2>2 DEF LifeInv, Queued, NoTask, MemTypeOK, LocalsOK
  <2> QED
    BY <1>0, <2>1, <2>3, <2>4, <2>5, <2>6 DEF LifeInv
<1>4. CASE TerminateWrite(c)
  <2>1. PICK id \in TaskId : /\ id = client[c].id /\ client[c].pc = "terminateWrite"
                             /\ MemUpdateStatus(id, "cancelled") /\ Return(c) /\ UNCHANGED submitted
    BY <1>4 DEF TerminateWrite, LocalsOK
  <2>2. id \notin unqueued /\ tasks[id].status \in {"paused", "failed", "cancelled"}
    BY <2>1 DEF LifeInv
  <2>3. Lifecycle!Next \/ Hidden
    <3>1. Moves(id, "cancelled", VisibleRetries[id])
      BY <2>1, <2>2, WritesShow DEF Stored
    <3>2. VisibleStatus[id] = tasks[id].status
      BY <2>2 DEF VisibleStatus
    <3>3. CASE tasks[id].status = "cancelled"
      BY <3>1, <3>2, <3>3 DEF Moves, Hidden, VisibleStatus, VisibleRetries
    <3> QED
      BY <2>2, <3>1, <3>2, <3>3, MovesAreSteps
  <2>4. /\ \A d \in Client : d # c => client'[d] = client[d]
        /\ client'[c].pc = "idle"
    BY <2>1 DEF Return, EngineTypeOK, IdleClient
  <2>5. /\ tasks'[id].status = "cancelled"
        /\ \A i \in TaskId : i # id => tasks'[i] = tasks[i]
        /\ UNCHANGED <<items, unqueued>>
    BY <2>1, <2>2 DEF MemUpdateStatus, MemTypeOK, TaskRecord, Stored
  <2>6. /\ \A w \in Worker : ~Holds(w, id)
        /\ id \in submitted /\ unqueued \subseteq TaskId
        /\ \A d \in Client : client[d].pc = "terminateWrite" => client[d].id \in TaskId
    BY <2>2 DEF LifeInv, NoTask, MemTypeOK, LocalsOK
  <2> QED
    BY <1>0, <2>1, <2>2, <2>3, <2>4, <2>5, <2>6 DEF LifeInv
<1>5. ASSUME UNCHANGED memVars, UNCHANGED submitted,
             \A d \in Client : d # c => client'[d] = client[d],
             client'[c].pc \notin {"submitting", "starting", "removing"},
             client'[c].pc = "terminateWrite" =>
                /\ client'[c].id \notin unqueued
                /\ tasks[client'[c].id].status \in {"paused", "failed", "cancelled"}
      PROVE  LifeInv' /\ Hidden
  BY <1>0, <1>5 DEF LifeInv, memVars, Hidden, VisibleStatus, VisibleRetries
<1>6. CASE TerminateGet(c)
  <2>1. PICK id \in TaskId : id = client[c].id
    BY <1>6 DEF TerminateGet, LocalsOK
  <2>2. CASE tasks[id].status \in {"paused", "failed"} /\ Proceed(c, "terminateWrite", id)
    <3>1. id \notin unqueued
      BY <2>2 DEF LifeInv, Queued
    <3>2. /\ \A d \in Client : d # c => client'[d] = client[d]
          /\ client'[c].pc = "terminateWrite" /\ client'[c].id = id
      BY <2>2 DEF Proceed, EngineTypeOK, ClientState
    <3> QED
      BY <1>5, <1>6, <2>2, <3>1, <3>2 DEF TerminateGet
  <2>3. CASE Return(c)
    <3>1. /\ \A d \in Client : d # c => client'[d] = client[d]
          /\ client'[c].pc = "idle"
      BY <2>3 DEF Return, EngineTypeOK, IdleClient
    <3> QED
      BY <1>5, <1>6, <3>1 DEF TerminateGet
  <2> QED
    BY <1>6, <2>1, <2>2, <2>3 DEF TerminateGet
<1>7. CASE PoolClose(c)
  <2>1. /\ \A d \in Client : d # c => client'[d] = client[d]
        /\ client'[c].pc = "idle"
    BY <1>7 DEF PoolClose, Return, EngineTypeOK, IdleClient
  <2>2. UNCHANGED <<tasks, items, unqueued, submitted>>
    BY <1>7 DEF PoolClose, MemClose
  <2> QED
    BY <1>0, <2>1, <2>2 DEF LifeInv, Hidden, VisibleStatus, VisibleRetries
<1>8. CASE \/ EnqueueRefused(c) \/ SendCancel(c) \/ TerminateNotQueued(c) \/ PoolStop(c)
           \/ \E id \in TaskId : StopTask(c, id) \/ TerminateRunning(c, id)
                              \/ TerminateUnregistered(c, id)
  <2>1. UNCHANGED memVars /\ UNCHANGED submitted
    BY <1>8 DEF EnqueueRefused, SendCancel, TerminateNotQueued, PoolStop, StopTask,
                TerminateRunning, Signal, TerminateUnregistered
  <2>2. /\ \A d \in Client : d # c => client'[d] = client[d]
        /\ client'[c].pc \in {"idle", "terminateGet", "stopping", "cancelling", "terminating"}
    <3> USE DEF EngineTypeOK, ClientState
    <3>1. CASE EnqueueRefused(c) \/ SendCancel(c)
      BY <3>1 DEF EnqueueRefused, SendCancel, Return, IdleClient
    <3>2. CASE TerminateNotQueued(c) \/ PoolStop(c)
      <4>1. \E pc \in {"terminateGet", "stopping"} : \E id : Proceed(c, pc, id)
        BY <3>2 DEF TerminateNotQueued, PoolStop
      <4> QED
        BY <4>1 DEF Proceed
    <3>3. ASSUME NEW id \in TaskId, NEW status, Signal(c, id, status)
          PROVE  /\ \A d \in Client : d # c => client'[d] = client[d]
                 /\ client'[c].pc = "cancelling"
      BY <3>3 DEF Signal, IdleClient
    <3>4. ASSUME NEW id \in TaskId, TerminateUnregistered(c, id)
          PROVE  /\ \A d \in Client : d # c => client'[d] = client[d]
                 /\ client'[c].pc = "terminating"
      BY <3>4 DEF TerminateUnregistered, Proceed
    <3> QED
      BY <1>8, <3>1, <3>2, <3>3, <3>4 DEF StopTask, TerminateRunning
  <2> QED
    BY <1>5, <2>1, <2>2
<1>9. /\ ~StartEnqueue(c) /\ ~RemoveDelete(c)
      /\ \A id \in TaskId : ~StartGet(c, id) /\ ~RemoveGet(c, id)
      /\ \A b \in Batch : ~CancelBatch(c, b)
  BY DEF StartEnqueue, RemoveDelete, StartGet, RemoveGet, CancelBatch, Calls, LifeInv, OnlyForward
<1> QED
  BY <1>1, <1>2, <1>3, <1>4, <1>6, <1>7, <1>8, <1>9 DEF ClientCall, ClientStep

\* A new pool is at the beginning of every life.
LEMMA InitLife == Init => LifeInv /\ Lifecycle!Init
  BY DEF Init, MemInit, FreshWorker, IdleClient, LifeInv, Holds, Lifecycle!Init, VisibleStatus,
         VisibleRetries, NoTask

\* A step keeps the invariant and shows as a step of the life cycle, or not at all.
LEMMA StepLife ==
  ASSUME OnlyForward, IInv, TokenInv, LifeInv, [Next]_vars
  PROVE  LifeInv' /\ (Lifecycle!Next \/ Hidden)
<1>1. ASSUME NEW id \in TaskId, BecomeDue(id)
      PROVE  LifeInv' /\ Hidden
  <2>1. Hidden
    BY <1>1, WritesShow DEF BecomeDue, IInv, MemInv
  <2>2. /\ \A i \in TaskId : /\ tasks'[i].status = tasks[i].status
                             /\ tasks'[i].retries = tasks[i].retries
                             /\ i # id => tasks'[i] = tasks[i]
        /\ id \in submitted
        /\ UNCHANGED <<items, unqueued, worker, client, submitted>>
        /\ unqueued \subseteq TaskId
    BY <1>1 DEF BecomeDue, MemBecomeDue, IInv, MemInv, MemTypeOK, TaskRecord, LifeInv, NoTask
  <2>3. \A c \in Client : client[c].pc = "terminateWrite" => client[c].id \in TaskId
    BY DEF IInv, LocalsOK
  <2> QED
    BY <2>1, <2>2, <2>3 DEF LifeInv, Holds
<1>2. CASE UNCHANGED vars
  BY <1>2 DEF vars, memVars, LifeInv, Holds, Hidden, VisibleStatus, VisibleRetries
<1> QED
  BY <1>1, <1>2, WorkerLives, ClientLives DEF Next, Quiescent

\* As long as nobody calls Start, Remove or CancelBatch, the pool implements
\* the life cycle: no interleaving of retries, signals, cancellations, full
\* queues and a shutdown takes a task along any other arrow.
THEOREM PoolFollowsLifecycle ==
  ASSUME OnlyForward
  PROVE  Spec => FollowsLifecycle
<1>1. IInv /\ TokenInv /\ [Next]_vars => TokenInv'
  BY StepTokens DEF OnlyForward, Disciplined
<1>2. IInv /\ TokenInv /\ LifeInv /\ [Next]_vars => LifeInv' /\ [Lifecycle!Next]_Lifecycle!vars
  BY StepLife DEF Hidden, Lifecycle!vars
<1> QED
  BY <1>1, <1>2, InitLife, InitTokens, AlwaysIInv, PTL DEF Spec, FollowsLifecycle, Lifecycle!Spec
=============================================================================
