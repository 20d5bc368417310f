--------------------------- MODULE TaskPoolProofs ---------------------------
(***************************************************************************)
(* What holds of the pool for every number of workers, clients and tasks   *)
(* and every mix of calls.                                                 *)
(*                                                                         *)
(* IInv is the base of every proof: the backend's own invariant, the types *)
(* of the engine's variables, and LocalsOK, which says that whoever is in  *)
(* the middle of an operation has a task and hands only pending or delayed *)
(* records to Enqueue.  The backend part is inherited: a step of the pool  *)
(* is a step of the backend's specification.                               *)
(***************************************************************************)
EXTENDS TaskPoolProperties, MemoryBackendProofs, FiniteSetTheorems

IInv == MemInv /\ EngineTypeOK /\ LocalsOK

\* A new pool satisfies the invariant.
LEMMA InitIInv == Init => IInv
<1> SUFFICES ASSUME Init PROVE IInv
  OBVIOUS
<1>1. MemInv
  BY MemInitInv DEF Init
<1>2. FreshWorker \in WorkerState /\ IdleClient \in ClientState
  BY NoTaskType, RetryBoundAssumption
  DEF FreshWorker, IdleClient, WorkerState, ClientState, WorkerPc, ClientPc
<1>3. EngineTypeOK
  BY <1>2 DEF Init, EngineTypeOK
<1>4. LocalsOK
  BY DEF Init, LocalsOK, FreshWorker, IdleClient
<1> QED
  BY <1>1, <1>3, <1>4 DEF IInv

\* The updates of a worker's record that its steps make keep its type.
LEMMA WorkerFields ==
  ASSUME NEW s \in WorkerState
  PROVE  /\ \A pc \in WorkerPc : [s EXCEPT !.pc = pc] \in WorkerState
         /\ \A outcome \in {"ok", "err", "interrupted"} :
                [s EXCEPT !.pc = "returned", !.outcome = outcome] \in WorkerState
         /\ \A desired \in {"none", "paused", "cancelled"} :
                [s EXCEPT !.pc = "settle", !.desired = desired] \in WorkerState
<1>1. \A pc \in WorkerPc : [s EXCEPT !.pc = pc] \in WorkerState
  BY DEF WorkerState
<1>2. ASSUME NEW outcome \in {"ok", "err", "interrupted"}
      PROVE  [s EXCEPT !.pc = "returned", !.outcome = outcome] \in WorkerState
  BY DEF WorkerState, WorkerPc
<1>3. ASSUME NEW desired \in {"none", "paused", "cancelled"}
      PROVE  [s EXCEPT !.pc = "settle", !.desired = desired] \in WorkerState
  BY DEF WorkerState, WorkerPc
<1> QED
  BY <1>1, <1>2, <1>3

\* A call that goes on keeps the type of its record.
LEMMA ClientFields ==
  ASSUME NEW s \in ClientState, NEW pc \in ClientPc, NEW id \in TaskId \cup {None}
  PROVE  [s EXCEPT !.pc = pc, !.id = id] \in ClientState
  BY DEF ClientState

\* A step of a worker keeps the types of the engine's variables, and no worker
\* is ever in the middle of a task without having one.
LEMMA WorkerStepLocals ==
  ASSUME IInv, NEW w \in Worker, WorkerStep(w)
  PROVE  EngineTypeOK' /\ LocalsOK'
<1> USE DEF IInv, EngineTypeOK, engineVars
<1>0. FreshWorker \in WorkerState
  BY RetryBoundAssumption DEF FreshWorker, WorkerState, WorkerPc
<1>1. CASE Park(w) \/ Exit(w)
  <2>1. PICK pc \in {"parked", "exited"} : GoTo(w, pc)
    BY <1>1 DEF Park, Exit
  <2>2. worker' \in [Worker -> WorkerState]
    BY <2>1, WorkerFields DEF GoTo, WorkerPc
  <2>3. LocalsOK'
    BY <1>1, <2>1 DEF Park, Exit, GoTo, LocalsOK, WorkerState
  <2> QED
    BY <1>1, <2>2, <2>3 DEF Park, Exit
<1>2. ASSUME NEW id \in TaskId, Dequeue(w, id)
      PROVE  EngineTypeOK' /\ LocalsOK'
  BY <1>2, <1>0
  DEF Dequeue, FreshWorker, MemInv, MemTypeOK, TaskRecord, LocalsOK, WorkerState, WorkerPc
<1>3. CASE BeginExecution(w)
  <2>1. worker' \in [Worker -> WorkerState] /\ LocalsOK'
    BY <1>3 DEF BeginExecution, GoTo, LocalsOK, WorkerState, WorkerPc
  <2>2. runningCancels' \in [TaskId -> Worker \cup {None}]
    BY <1>3 DEF BeginExecution
  <2>3. sem' \in [Type -> Nat]
    <3>1. TypeAt(w) \in Type
      BY <1>3, TypeOfAssumption DEF BeginExecution, LocalsOK, TypeAt
    <3>2. sem[TypeAt(w)] \in Nat
      BY <3>1
    <3> QED
      BY <1>3, <3>1, <3>2 DEF BeginExecution
  <2> QED
    BY <1>3, <2>1, <2>2, <2>3 DEF BeginExecution
<1>4. CASE Abandon(w)
  BY <1>4, <1>0 DEF Abandon, FreshWorker, LocalsOK
<1>5. CASE UnknownType(w) \/ Settle(w)
  <2>1. /\ worker[w].pc \in {"running", "settle", "refused"}
        /\ GoTo(w, "finishing") \/ GoTo(w, "refused")
        /\ UNCHANGED <<engineVars, client, submitted>>
    BY <1>5 DEF UnknownType, Settle, SettleIntervened, SettleCompleted, SettleRetry,
                SettleRetryRefused, FailRefusedRetry, SettleFailed, Failing
  <2>2. PICK pc \in {"finishing", "refused"} : GoTo(w, pc)
    BY <2>1
  <2>3. worker' \in [Worker -> WorkerState]
    <3>1. [worker[w] EXCEPT !.pc = pc] \in WorkerState
      BY WorkerFields DEF WorkerPc
    <3> QED
      BY <2>2, <3>1 DEF GoTo
  <2>4. LocalsOK'
    BY <2>1, <2>2 DEF GoTo, LocalsOK, WorkerState
  <2> QED
    BY <2>1, <2>3, <2>4
<1>6. CASE HandlerReturn(w)
  <2>1. PICK outcome \in {"ok", "err", "interrupted"} :
            worker' = [worker EXCEPT ![w] = [worker[w] EXCEPT !.pc = "returned",
                                                              !.outcome = outcome]]
    BY <1>6 DEF HandlerReturn
  <2>2. worker' \in [Worker -> WorkerState]
    BY <2>1, WorkerFields
  <2>3. LocalsOK'
    BY <1>6, <2>1 DEF HandlerReturn, LocalsOK, WorkerState
  <2> QED
    BY <1>6, <2>2, <2>3 DEF HandlerReturn
<1>7. CASE CheckSignal(w)
  <2>1. PICK desired \in {"none", "paused", "cancelled"} :
            worker' = [worker EXCEPT ![w] = [worker[w] EXCEPT !.pc = "settle",
                                                              !.desired = desired]]
    BY <1>7 DEF CheckSignal, LocalsOK
  <2>2. worker' \in [Worker -> WorkerState]
    BY <2>1, WorkerFields
  <2>3. LocalsOK'
    BY <1>7, <2>1 DEF CheckSignal, LocalsOK, WorkerState
  <2>4. stopSignals' \in [TaskId -> {"none", "paused", "cancelled"}]
    BY <1>7 DEF CheckSignal
  <2> QED
    BY <1>7, <2>2, <2>3, <2>4 DEF CheckSignal
<1>8. CASE Deregister(w)
  <2>1. worker' \in [Worker -> WorkerState]
    BY <1>8, <1>0 DEF Deregister
  <2>2. client' \in [Client -> ClientState]
    BY <1>8 DEF Deregister, ClientState
  <2>3. LocalsOK'
    BY <1>8 DEF Deregister, FreshWorker, ClientState, LocalsOK
  <2>4. runningCancels' \in [TaskId -> Worker \cup {None}]
    BY <1>8 DEF Deregister
  <2>5. sem' \in [Type -> Nat]
    <3>1. TypeAt(w) \in Type
      BY <1>8, TypeOfAssumption DEF Deregister, LocalsOK, TypeAt
    <3>2. sem[TypeAt(w)] \in Nat
      BY <3>1
    <3> QED
      BY <1>8, <3>1, <3>2 DEF Deregister
  <2> QED
    BY <1>8, <2>1, <2>2, <2>3, <2>4, <2>5 DEF Deregister
<1> QED
  BY <1>1, <1>2, <1>3, <1>4, <1>5, <1>6, <1>7, <1>8, WorkerStep(w) DEF WorkerStep

\* So does a step of a client.
LEMMA ClientLocals ==
  ASSUME IInv, NEW c \in Client, ClientCall(c) \/ ClientStep(c)
  PROVE  EngineTypeOK' /\ LocalsOK'
<1> USE DEF IInv, EngineTypeOK, LocalsOK, engineVars
<1>0. IdleClient \in ClientState /\ NoTask \in TaskRecord
  BY NoTaskType DEF IdleClient, ClientState, ClientPc
<1>1. ASSUME NEW id \in TaskId, SubmitSave(c, id)
      PROVE  EngineTypeOK' /\ LocalsOK'
  <2>1. PICK rec \in NewTasks : client' = [client EXCEPT ![c] =
                        [IdleClient EXCEPT !.pc = "submitting", !.id = id, !.rec = rec]]
    BY <1>1 DEF SubmitSave
  <2>2. rec \in TaskRecord /\ rec.status \in Queued
    <3>1. CASE rec = [status |-> "pending", retries |-> 0, due |-> TRUE]
      BY <3>1, RetryBoundAssumption DEF TaskRecord, TaskStatuses, Queued
    <3>2. CASE rec \in [status : {"delayed"}, retries : {0}, due : BOOLEAN]
      BY <3>2, RetryBoundAssumption DEF TaskRecord, TaskStatuses, Queued
    <3> QED
      BY <3>1, <3>2 DEF NewTasks
  <2>3. client' \in [Client -> ClientState] /\ LocalsOK'
    BY <1>1, <2>1, <2>2 DEF SubmitSave, IdleClient, ClientState, ClientPc
  <2> QED
    BY <1>1, <2>3 DEF SubmitSave
<1>2. ASSUME NEW id \in TaskId, StartGet(c, id)
      PROVE  EngineTypeOK' /\ LocalsOK'
  <2>1. PICK n \in 0 .. RetryBound : client' = [client EXCEPT ![c] =
                        [IdleClient EXCEPT !.pc = "starting", !.id = id,
                            !.rec = [status |-> "pending", retries |-> n, due |-> TRUE]]]
    <3>1. tasks[id].retries \in 0 .. RetryBound /\ 0 \in 0 .. RetryBound
      BY RetryBoundAssumption DEF MemInv, MemTypeOK, TaskRecord
    <3> QED
      BY <1>2, <3>1 DEF StartGet
  <2>2. [status |-> "pending", retries |-> n, due |-> TRUE] \in TaskRecord
    BY DEF TaskRecord, TaskStatuses
  <2>3. client' \in [Client -> ClientState]
    BY <1>0, <2>1, <2>2 DEF IdleClient, ClientState, ClientPc
  <2>4. LocalsOK'
    BY <1>2, <2>1 DEF StartGet, IdleClient, Queued
  <2> QED
    BY <1>2, <2>3, <2>4 DEF StartGet
<1>3. ASSUME NEW id \in TaskId, NEW status \in {"paused", "cancelled"}, Signal(c, id, status)
      PROVE  EngineTypeOK' /\ LocalsOK'
  <2>1. client' \in [Client -> ClientState] /\ LocalsOK'
    BY <1>3, <1>0 DEF Signal, IdleClient, ClientState, ClientPc
  <2>2. stopSignals' \in [TaskId -> {"none", "paused", "cancelled"}]
    BY <1>3 DEF Signal
  <2> QED
    BY <1>3, <2>1, <2>2 DEF Signal
<1>4. ASSUME NEW id \in TaskId, TerminateUnregistered(c, id) \/ RemoveGet(c, id)
      PROVE  EngineTypeOK' /\ LocalsOK'
  <2>1. PICK pc \in {"terminating", "removing"} :
            Proceed(c, pc, id) /\ UNCHANGED <<memVars, engineVars, worker, submitted>>
    BY <1>4 DEF TerminateUnregistered, RemoveGet
  <2>2. client' = [client EXCEPT ![c] = [client[c] EXCEPT !.pc = pc, !.id = id]]
    BY <2>1 DEF Proceed
  <2>3. client' \in [Client -> ClientState]
    <3>1. [client[c] EXCEPT !.pc = pc, !.id = id] \in ClientState
      BY ClientFields DEF ClientPc
    <3> QED
      BY <2>2, <3>1
  <2>4. LocalsOK'
    BY <2>1, <2>2
  <2> QED
    BY <2>1, <2>3, <2>4
<1>5. ASSUME NEW b \in Batch, CancelBatch(c, b)
      PROVE  EngineTypeOK' /\ LocalsOK'
  BY <1>5 DEF CancelBatch
<1>6. CASE PoolStop(c)
  <2>1. client' \in [Client -> ClientState]
    BY <1>6, ClientFields DEF PoolStop, Proceed, ClientPc
  <2>2. LocalsOK'
    BY <1>6 DEF PoolStop, Proceed, ClientState
  <2> QED
    BY <1>6, <2>1, <2>2 DEF PoolStop
<1>7. ASSUME Return(c), UNCHANGED <<engineVars, worker, submitted>>
      PROVE  EngineTypeOK' /\ LocalsOK'
  BY <1>7, <1>0 DEF Return, IdleClient
<1>8. CASE SubmitEnqueue(c) \/ StartEnqueue(c) \/ EnqueueRefused(c) \/ TerminateQueued(c)
           \/ TerminateWrite(c) \/ RemoveDelete(c) \/ PoolClose(c)
  BY <1>7, <1>8 DEF SubmitEnqueue, StartEnqueue, EnqueueRefused, TerminateQueued,
                    TerminateWrite, RemoveDelete, PoolClose
<1>9. CASE TerminateNotQueued(c)
  <2>1. client' \in [Client -> ClientState]
    BY <1>9, ClientFields DEF TerminateNotQueued, Proceed, ClientPc
  <2>2. LocalsOK'
    BY <1>9 DEF TerminateNotQueued, Proceed, ClientState
  <2> QED
    BY <1>9, <2>1, <2>2 DEF TerminateNotQueued
<1>10. CASE TerminateGet(c)
  <2>1. CASE Return(c)
    BY <1>7, <1>10, <2>1 DEF TerminateGet
  <2>2. CASE Proceed(c, "terminateWrite", client[c].id)
    BY <1>10, <2>2 DEF TerminateGet, Proceed, ClientState, ClientPc
  <2> QED
    BY <1>10, <2>1, <2>2 DEF TerminateGet
<1>11. CASE SendCancel(c)
  <2>1. worker' \in [Worker -> WorkerState]
    <3>1. client[c].target \in Worker \cup {None}
      BY DEF ClientState
    <3>2. ASSUME NEW v \in Worker, client[c].target = v
          PROVE  worker' \in [Worker -> WorkerState]
      <4>1. worker' = [worker EXCEPT ![v] = [worker[v] EXCEPT !.cancelled = TRUE]]
        BY <1>11, <3>2, NoneAssumption DEF SendCancel
      <4>2. [worker[v] EXCEPT !.cancelled = TRUE] \in WorkerState
        BY DEF WorkerState
      <4> QED
        BY <4>1, <4>2
    <3>3. CASE client[c].target = None
      BY <1>11, <3>3 DEF SendCancel
    <3> QED
      BY <3>1, <3>2, <3>3
  <2>2. client' \in [Client -> ClientState]
    BY <1>11, <1>0 DEF SendCancel, Return
  <2>3. LocalsOK'
    BY <1>11 DEF SendCancel, Return, IdleClient, WorkerState
  <2> QED
    BY <1>11, <2>1, <2>2, <2>3 DEF SendCancel
<1> QED
  BY <1>1, <1>2, <1>3, <1>4, <1>5, <1>6, <1>8, <1>9, <1>10, <1>11
  DEF ClientCall, ClientStep, StopTask, TerminateRunning

\* Every step keeps the types of the engine, and the locals of workers and
\* calls well formed.
LEMMA StepLocals == IInv /\ [Next]_vars => EngineTypeOK' /\ LocalsOK'
<1> SUFFICES ASSUME IInv, [Next]_vars PROVE EngineTypeOK' /\ LocalsOK'
  OBVIOUS
<1>1. CASE \E w \in Worker : WorkerStep(w)
  BY <1>1, WorkerStepLocals
<1>2. CASE \E c \in Client : ClientCall(c) \/ ClientStep(c)
  BY <1>2, ClientLocals
<1>3. CASE \E id \in TaskId : BecomeDue(id)
  BY <1>3 DEF BecomeDue, IInv, EngineTypeOK, LocalsOK, engineVars
<1>4. CASE UNCHANGED vars
  BY <1>4 DEF vars, IInv, EngineTypeOK, LocalsOK, engineVars
<1> QED
  BY <1>1, <1>2, <1>3, <1>4 DEF Next, Quiescent

\* What a step of the engine does to the backend is one of its methods, called
\* within its contract, or nothing.
LEMMA StepIsBackendStep ==
  ASSUME IInv, [Next]_vars
  PROVE  [MemWrite]_memVars \/ \E w \in Worker, id \in TaskId : Dequeue(w, id)
<1> USE DEF IInv, LocalsOK
<1>1. ASSUME NEW w \in Worker, WorkerStep(w)
      PROVE  [MemWrite]_memVars \/ \E id \in TaskId : Dequeue(w, id)
  <2>2. ASSUME worker[w].id \in TaskId, NEW status \in SettledStatuses,
               MemUpdateStatus(worker[w].id, status)
        PROVE  MemWrite
    BY <2>2 DEF MemWrite
  <2>3. CASE UnknownType(w) \/ SettleCompleted(w) \/ FailRefusedRetry(w) \/ SettleFailed(w)
    BY <2>2, <2>3 DEF UnknownType, SettleCompleted, FailRefusedRetry, SettleFailed, Failing,
                      SettledStatuses
  <2>4. CASE SettleIntervened(w)
    <3>1. worker[w].desired \in SettledStatuses
      BY <2>4 DEF SettleIntervened, EngineTypeOK, WorkerState, SettledStatuses
    <3> QED
      BY <2>2, <2>4, <3>1 DEF SettleIntervened
  <2>5. CASE SettleRetry(w)
    <3>1. worker[w].id \in TaskId
      BY <2>5 DEF SettleRetry, Failing
    <3>2. worker[w].retries + 1 \in 0 .. RetryBound
      BY <2>5, <3>1, MaxRetriesAssumption, RetryBoundAssumption
      DEF SettleRetry, CanRetry, EngineTypeOK, WorkerState
    <3>3. [status |-> "pending", retries |-> worker[w].retries + 1, due |-> TRUE] \in QueuedRecord
      BY <3>2 DEF QueuedRecord, Queued
    <3> QED
      BY <2>5, <3>1, <3>3 DEF SettleRetry, MemWrite
  <2>6. CASE Park(w) \/ Exit(w) \/ BeginExecution(w) \/ Abandon(w) \/ HandlerReturn(w)
             \/ CheckSignal(w) \/ SettleRetryRefused(w) \/ Deregister(w)
    BY <2>6 DEF Park, Exit, BeginExecution, Abandon, HandlerReturn, CheckSignal,
                SettleRetryRefused, Deregister
  <2> QED
    BY <1>1, <2>3, <2>4, <2>5, <2>6 DEF WorkerStep, Settle
<1>2. ASSUME NEW c \in Client, ClientCall(c)
      PROVE  [MemWrite]_memVars
  <2>1. ASSUME NEW id \in TaskId, SubmitSave(c, id)
        PROVE  MemWrite
    <3>1. PICK rec \in NewTasks : MemSave(id, rec)
      BY <2>1 DEF SubmitSave
    <3>2. CASE rec = [status |-> "pending", retries |-> 0, due |-> TRUE]
      <4>1. rec \in QueuedRecord
        BY <3>2, RetryBoundAssumption DEF QueuedRecord, Queued
      <4> QED
        BY <3>1, <4>1 DEF MemWrite
    <3>3. CASE rec \in [status : {"delayed"}, retries : {0}, due : BOOLEAN]
      <4>1. rec \in QueuedRecord
        BY <3>3, RetryBoundAssumption DEF QueuedRecord, Queued
      <4> QED
        BY <3>1, <4>1 DEF MemWrite
    <3> QED
      BY <3>2, <3>3 DEF NewTasks
  <2>2. ASSUME NEW b \in Batch, CancelBatch(c, b)
        PROVE  MemWrite
    BY <2>2 DEF CancelBatch, MemWrite
  <2>3. CASE \/ \E id \in TaskId : StartGet(c, id) \/ StopTask(c, id) \/ TerminateRunning(c, id)
             \/ \E id \in TaskId : TerminateUnregistered(c, id) \/ RemoveGet(c, id)
             \/ PoolStop(c)
    BY <2>3 DEF StartGet, StopTask, TerminateRunning, Signal, TerminateUnregistered, RemoveGet,
                PoolStop
  <2> QED
    BY <1>2, <2>1, <2>2, <2>3 DEF ClientCall
<1>3. ASSUME NEW c \in Client, ClientStep(c)
      PROVE  [MemWrite]_memVars
  <2>1. CASE SubmitEnqueue(c) \/ StartEnqueue(c)
    <3>1. client[c].id \in TaskId /\ client[c].rec.status \in Queued
      BY <2>1 DEF SubmitEnqueue, StartEnqueue
    <3>2. client[c].rec \in TaskRecord
      BY DEF EngineTypeOK, ClientState
    <3>3. \A rec \in TaskRecord : rec.status \in Queued => rec \in QueuedRecord
      BY DEF TaskRecord, QueuedRecord
    <3>4. client[c].rec \in QueuedRecord
      BY <3>1, <3>2, <3>3
    <3> QED
      BY <2>1, <3>1, <3>4 DEF SubmitEnqueue, StartEnqueue, MemWrite
  <2>2. CASE TerminateQueued(c) \/ RemoveDelete(c)
    BY <2>2 DEF TerminateQueued, RemoveDelete, MemWrite
  <2>3. CASE TerminateWrite(c)
    BY <2>3 DEF TerminateWrite, MemWrite, SettledStatuses
  <2>4. CASE PoolClose(c)
    BY <2>4 DEF PoolClose, MemWrite
  <2>5. CASE EnqueueRefused(c) \/ SendCancel(c) \/ TerminateNotQueued(c) \/ TerminateGet(c)
    BY <2>5 DEF EnqueueRefused, SendCancel, TerminateNotQueued, TerminateGet
  <2> QED
    BY <1>3, <2>1, <2>2, <2>3, <2>4, <2>5 DEF ClientStep
<1>4. ASSUME NEW id \in TaskId, BecomeDue(id)
      PROVE  MemWrite
  BY <1>4 DEF BecomeDue, MemWrite
<1>5. CASE UNCHANGED vars
  BY <1>5 DEF vars
<1> QED
  BY <1>1, <1>2, <1>3, <1>4, <1>5 DEF Next, Quiescent

\* Every step keeps the invariant: the backend's part because each step is one
\* of the backend's, the rest by StepLocals.
LEMMA StepIInv == IInv /\ [Next]_vars => IInv'
<1> SUFFICES ASSUME IInv, [Next]_vars PROVE IInv'
  OBVIOUS
<1>1. [MemNext]_memVars
  BY StepIsBackendStep DEF MemNext, Dequeue
<1> QED
  BY <1>1, StepLocals, MemStepInv DEF IInv

\* The invariant of the pool.
LEMMA AlwaysIInv == Spec => []IInv
  BY InitIInv, StepIInv, PTL DEF Spec

\* Every variable keeps its type; among the rest, no task is ever retried more
\* often than RetryBound.
THEOREM TypeCorrect == Spec => []TypeOK
<1>1. IInv => TypeOK
  BY DEF IInv, MemInv, TypeOK
<1> QED
  BY <1>1, AlwaysIInv, PTL

\* The engine uses the backend as its specification allows.
THEOREM PoolUsesBackend == Spec => MemSpec
<1>1. Init => MemInit
  BY DEF Init
<1>2. IInv /\ [Next]_vars => [MemNext]_memVars
  BY StepIsBackendStep DEF MemNext, Dequeue
<1> QED
  BY <1>1, <1>2, AlwaysIInv, PTL DEF Spec, MemSpec

\* Every pending or delayed task whose Enqueue has succeeded is in the heap,
\* through retries, restarts, removals and a full queue.
THEOREM NoTaskIsLost == Spec => []QueueCoverage
<1>1. IInv => QueueCoverage
  BY DEF IInv, MemInv
<1> QED
  BY <1>1, AlwaysIInv, PTL

\* inQueue names no task without an item, however retries, Remove and
\* CancelBatch follow one another: Enqueue may trust it.
THEOREM IndexIsBacked == Spec => []IndexBacked
<1>1. IInv => IndexBacked
  BY DEF IInv, MemInv
<1> QED
  BY <1>1, AlwaysIInv, PTL

-----------------------------------------------------------------------------
(* The registry *)

\* A worker's step other than its first and its last keeps the run and its task.
LEMMA RunGoesOn ==
  ASSUME IInv, NEW w \in Worker, WorkerStep(w)
  PROVE  /\ \A v \in Worker \ {w} : worker'[v] = worker[v]
         /\ Executing(w) /\ worker[w].pc # "finishing" =>
                Executing(w)' /\ worker'[w].id = worker[w].id
<1> USE DEF IInv, EngineTypeOK, Executing, GoTo
<1>1. \A v \in Worker \ {w} : worker'[v] = worker[v]
  BY WorkerStep(w)
  DEF WorkerStep, Settle, Park, Exit, Dequeue, BeginExecution, Abandon, UnknownType, HandlerReturn, CheckSignal,
      SettleIntervened, SettleCompleted, SettleRetry, SettleRetryRefused, FailRefusedRetry,
      SettleFailed, Deregister
<1>2. ASSUME Executing(w), worker[w].pc # "finishing"
      PROVE  Executing(w)' /\ worker'[w].id = worker[w].id
  <2>1. CASE Park(w) \/ Exit(w) \/ BeginExecution(w) \/ Abandon(w) \/ Deregister(w)
             \/ \E id \in TaskId : Dequeue(w, id)
    BY <1>2, <2>1 DEF Park, Exit, BeginExecution, Abandon, Deregister, Dequeue
  <2>2. CASE UnknownType(w) \/ Settle(w)
    BY <2>2 DEF UnknownType, Settle, SettleIntervened, SettleCompleted, SettleRetry,
                SettleRetryRefused, FailRefusedRetry, SettleFailed, WorkerState
  <2>3. CASE HandlerReturn(w)
    BY <2>3 DEF HandlerReturn, WorkerState
  <2>4. CASE CheckSignal(w)
    BY <2>4 DEF CheckSignal, WorkerState
  <2> QED
    BY <2>1, <2>2, <2>3, <2>4, WorkerStep(w) DEF WorkerStep
<1> QED
  BY <1>1, <1>2

\* A call of a client leaves every worker's program counter and task alone.
LEMMA ClientKeepsRuns ==
  ASSUME IInv, NEW c \in Client, ClientCall(c) \/ ClientStep(c)
  PROVE  /\ \A w \in Worker : /\ worker'[w].pc = worker[w].pc
                              /\ worker'[w].id = worker[w].id
                              /\ worker'[w].retries = worker[w].retries
                              /\ worker'[w].outcome = worker[w].outcome
                              /\ worker'[w].desired = worker[w].desired
         /\ UNCHANGED runningCancels
<1> USE DEF engineVars
<1>1. CASE SendCancel(c)
  BY <1>1 DEF SendCancel, IInv, EngineTypeOK, WorkerState
<1>2. CASE ~SendCancel(c)
  <2>1. UNCHANGED <<worker, runningCancels>>
    BY <1>2
    DEF ClientCall, SubmitSave, StartGet, StopTask, TerminateRunning, Signal,
        TerminateUnregistered, RemoveGet, CancelBatch, PoolStop,
        ClientStep, SubmitEnqueue, StartEnqueue, EnqueueRefused, TerminateQueued,
        TerminateNotQueued, TerminateGet, TerminateWrite, RemoveDelete, PoolClose
  <2> QED
    BY <2>1
<1> QED
  BY <1>1, <1>2

\* Only BeginExecution makes an entry, for the worker that begins, and a worker
\* leaves its run only through Deregister, which deletes the entry.
LEMMA StepRegistry == IInv /\ RegistrySound /\ [Next]_vars => RegistrySound'
<1> SUFFICES ASSUME IInv, RegistrySound, [Next]_vars PROVE RegistrySound'
  OBVIOUS
<1> USE DEF IInv, EngineTypeOK, RegistrySound, Executing
<1>1. ASSUME NEW w \in Worker, WorkerStep(w)
      PROVE  RegistrySound'
  <2>1. CASE Deregister(w)
    BY <2>1 DEF Deregister
  <2>2. CASE BeginExecution(w)
    BY <2>2, NoneAssumption DEF BeginExecution, GoTo, WorkerState, LocalsOK
  <2>3. CASE ~Deregister(w) /\ ~BeginExecution(w)
    <3>1. UNCHANGED runningCancels /\ worker[w].pc # "finishing"
      BY <1>1, <2>3
      DEF WorkerStep, Park, Exit, Dequeue, Abandon, UnknownType, HandlerReturn, CheckSignal,
          Settle, SettleIntervened, SettleCompleted, SettleRetry, SettleRetryRefused,
          FailRefusedRetry, SettleFailed, Failing, engineVars
    <3> QED
      BY <1>1, <3>1, RunGoesOn
  <2> QED
    BY <2>1, <2>2, <2>3
<1>2. ASSUME NEW c \in Client, ClientCall(c) \/ ClientStep(c)
      PROVE  RegistrySound'
  BY <1>2, ClientKeepsRuns
<1>3. CASE UNCHANGED <<worker, runningCancels>>
  BY <1>3
<1> QED
  BY <1>1, <1>2, <1>3 DEF Next, BecomeDue, Quiescent, vars, engineVars

\* StopTask and Terminate only ever reach a run of the task they name.
THEOREM RegistryIsSound == Spec => []RegistrySound
<1>1. Init => RegistrySound
  BY DEF Init, RegistrySound
<1>2. IInv /\ RegistrySound /\ [Next]_vars => RegistrySound'
  BY StepRegistry
<1> QED
  BY <1>1, <1>2, AlwaysIInv, PTL DEF Spec

-----------------------------------------------------------------------------
(* The owner of a running task *)

\* A worker gives up its task only by Abandon, or in the very step that stores
\* another status (or finds that the task has been removed).
LEMMA OwnerLetsGo ==
  ASSUME IInv, NEW w \in Worker, WorkerStep(w), NEW id \in TaskId, Holds(w, id)
  PROVE  \/ Holds(w, id)'
         \/ tasks'[id].status # "running"
         \/ poolDone' /\ Limit[TypeOf[id]] > 0
<1> USE DEF Holds, IInv, EngineTypeOK, MemInv, MemTypeOK, GoTo
<1>2. CASE Abandon(w)
  BY <1>2 DEF Abandon, TypeAt, engineVars
<1>3. CASE BeginExecution(w)
  BY <1>3 DEF BeginExecution, WorkerState
<1>4. CASE UnknownType(w) \/ SettleIntervened(w) \/ SettleCompleted(w) \/ FailRefusedRetry(w)
           \/ SettleFailed(w)
  BY <1>4 DEF UnknownType, SettleIntervened, SettleCompleted, FailRefusedRetry, SettleFailed,
              MemUpdateStatus, Stored, WorkerState, TaskRecord
<1>5. CASE SettleRetry(w)
  BY <1>5 DEF SettleRetry, MemEnqueue
<1>6. CASE SettleRetryRefused(w)
  BY <1>6, RunGoesOn DEF SettleRetryRefused, Failing, Executing, WorkerState
<1>7. CASE HandlerReturn(w)
  BY <1>7, RunGoesOn DEF HandlerReturn, Executing, WorkerState
<1>8. CASE CheckSignal(w)
  BY <1>8, RunGoesOn DEF CheckSignal, Executing, WorkerState
<1>9. CASE Park(w) \/ Exit(w) \/ Deregister(w) \/ \E i \in TaskId : Dequeue(w, i)
  BY <1>9 DEF Park, Exit, Dequeue, Deregister
<1> QED
  BY <1>2, <1>3, <1>4, <1>5, <1>6, <1>7, <1>8, <1>9, WorkerStep(w) DEF WorkerStep, Settle

\* Nothing revives the pool's context.
LEMMA ShutdownIsForGood == [Next]_vars /\ poolDone => poolDone'
<1> SUFFICES ASSUME [Next]_vars, poolDone PROVE poolDone'
  OBVIOUS
<1> USE DEF engineVars
<1>1. ASSUME NEW w \in Worker, WorkerStep(w)
      PROVE  poolDone'
  BY <1>1
  DEF WorkerStep, Park, Exit, Dequeue, BeginExecution, Abandon, UnknownType, HandlerReturn,
      CheckSignal, Settle, SettleIntervened, SettleCompleted, SettleRetry, SettleRetryRefused,
      FailRefusedRetry, SettleFailed, Deregister
<1>2. ASSUME NEW c \in Client, ClientCall(c)
      PROVE  poolDone'
  BY <1>2
  DEF ClientCall, SubmitSave, StartGet, StopTask, TerminateRunning, Signal,
      TerminateUnregistered, RemoveGet, CancelBatch, PoolStop
<1>3. ASSUME NEW c \in Client, ClientStep(c)
      PROVE  poolDone'
  BY <1>3
  DEF ClientStep, SubmitEnqueue, StartEnqueue, EnqueueRefused, SendCancel, TerminateQueued,
      TerminateNotQueued, TerminateGet, TerminateWrite, RemoveDelete, PoolClose
<1> QED
  BY <1>1, <1>2, <1>3 DEF Next, BecomeDue, Quiescent, vars

\* Only Dequeue makes a task running, and the worker that has claimed it gives
\* it up only with the write of another status or, at shutdown, by Abandon.
LEMMA StepOwner == IInv /\ RunningHasOwner /\ [Next]_vars => RunningHasOwner'
<1> SUFFICES ASSUME IInv, RunningHasOwner, [Next]_vars,
                    NEW id \in TaskId, tasks'[id].status = "running"
             PROVE  \/ \E v \in Worker : Holds(v, id)'
                    \/ poolDone' /\ Limit[TypeOf[id]] > 0
  BY DEF RunningHasOwner
<1>1. CASE \E w \in Worker : Dequeue(w, id)
  BY <1>1 DEF Dequeue, Holds, IInv, EngineTypeOK
<1>2. ASSUME ~ \E w \in Worker : Dequeue(w, id)
      PROVE  tasks[id].status = "running"
  <2>1. CASE [MemWrite]_memVars
    BY <2>1, MemWriteRunsNothing DEF IInv
  <2>2. ASSUME NEW w \in Worker, NEW i \in TaskId, Dequeue(w, i)
        PROVE  tasks[id].status = "running"
    BY <1>2, <2>2 DEF Dequeue, MemDequeue, IInv, MemInv, MemTypeOK
  <2> QED
    BY <2>1, <2>2, StepIsBackendStep
<1>3. poolDone => poolDone'
  BY ShutdownIsForGood
<1>4. ASSUME NEW v \in Worker, Holds(v, id)
      PROVE  \/ \E u \in Worker : Holds(u, id)'
             \/ poolDone' /\ Limit[TypeOf[id]] > 0
  <2>1. ASSUME WorkerStep(v)
        PROVE  \/ \E u \in Worker : Holds(u, id)'
               \/ poolDone' /\ Limit[TypeOf[id]] > 0
    BY <1>4, <2>1, OwnerLetsGo
  <2>2. ASSUME NEW w \in Worker \ {v}, WorkerStep(w)
        PROVE  Holds(v, id)'
    BY <1>4, <2>2, RunGoesOn DEF Holds
  <2>3. ASSUME NEW c \in Client, ClientCall(c) \/ ClientStep(c)
        PROVE  Holds(v, id)'
    BY <1>4, <2>3, ClientKeepsRuns DEF Holds
  <2>4. CASE UNCHANGED worker
    BY <1>4, <2>4 DEF Holds
  <2> QED
    BY <2>1, <2>2, <2>3, <2>4 DEF Next, BecomeDue, Quiescent, vars
<1> QED
  BY <1>1, <1>2, <1>3, <1>4 DEF RunningHasOwner

\* A task stored as running never lacks the worker that will end it, unless a
\* shutdown has cut short a wait for the semaphore.
THEOREM RunningIsOwned == Spec => []RunningHasOwner
<1>1. Init => RunningHasOwner
  BY DEF Init, MemInit, NoTask, RunningHasOwner
<1>2. IInv /\ RunningHasOwner /\ [Next]_vars => RunningHasOwner'
  BY StepOwner
<1> QED
  BY <1>1, <1>2, AlwaysIInv, PTL DEF Spec

-----------------------------------------------------------------------------
(***************************************************************************)
(* The semaphores: the channel of a limited type holds exactly one token   *)
(* for each run of that type.  Nothing needs strengthening: a run appears  *)
(* in the step that puts its token in, disappears in the step that takes   *)
(* it out, and keeps its task, and so its type, in between.                *)
(***************************************************************************)
Runs(t) == {w \in Worker : Executing(w) /\ TypeAt(w) = t}

\* The runs of a type are finitely many.
LEMMA RunsAreCounted ==
  ASSUME NEW t PROVE IsFiniteSet(Runs(t)) /\ Cardinality(Runs(t)) \in Nat
<1>1. Runs(t) \in SUBSET Worker
  BY DEF Runs
<1> QED
  BY <1>1, WorkerAssumption, FS_Subset, FS_CardinalityType

\* Nobody's run begins or ends where every worker stays in its run or out of it.
LEMMA SameRuns ==
  ASSUME NEW t,
         \A w \in Worker : Executing(w) <=> Executing(w)',
         \A w \in Worker : Executing(w) => worker'[w].id = worker[w].id
  PROVE  Runs(t)' = Runs(t)
  BY DEF Runs, TypeAt

\* The property, type by type.
Slots(t) == Limit[t] > 0 => /\ sem[t] = Cardinality(Runs(t))
                            /\ Cardinality(Runs(t)) <= Limit[t]

\* SemaphoreExact speaks of all types at once.
LEMMA SlotsOfTypes == (\A t \in Type : Slots(t)) <=> SemaphoreExact
  BY DEF Slots, Runs, SemaphoreExact

\* BeginExecution adds its worker to the runs of one type, with one token.
LEMMA BeginSlots ==
  ASSUME IInv, \A t \in Type : Slots(t), NEW w \in Worker, BeginExecution(w), NEW t \in Type
  PROVE  Slots(t)'
<1>1. /\ \A v \in Worker \ {w} : worker'[v] = worker[v]
      /\ worker'[w].id = worker[w].id
      /\ ~Executing(w) /\ Executing(w)'
  BY DEF BeginExecution, GoTo, IInv, EngineTypeOK, WorkerState, Executing
<1>2. CASE t # TypeAt(w)
  <2>1. Runs(t)' = Runs(t)
    BY <1>1, <1>2 DEF Runs, TypeAt, Executing
  <2>2. sem'[t] = sem[t]
    BY <1>2 DEF BeginExecution, IInv, EngineTypeOK
  <2> QED
    BY <2>1, <2>2 DEF Slots
<1>3. CASE t = TypeAt(w)
  <2>1. Runs(t)' = Runs(t) \cup {w} /\ w \notin Runs(t)
    BY <1>1, <1>3 DEF Runs, TypeAt, Executing
  <2>2. Cardinality(Runs(t)') = Cardinality(Runs(t)) + 1
    BY <2>1, RunsAreCounted, FS_AddElement
  <2>3. Limit[t] > 0 => sem'[t] = sem[t] + 1 /\ sem[t] < Limit[t]
    BY <1>3 DEF BeginExecution, IInv, EngineTypeOK
  <2> QED
    BY <2>2, <2>3, RunsAreCounted, LimitAssumption DEF Slots
<1> QED
  BY <1>2, <1>3

\* Deregister takes its worker out of the runs of one type, with one token.
LEMMA EndSlots ==
  ASSUME IInv, \A t \in Type : Slots(t), NEW w \in Worker, Deregister(w), NEW t \in Type
  PROVE  Slots(t)'
<1>1. /\ \A v \in Worker \ {w} : worker'[v] = worker[v]
      /\ Executing(w) /\ ~Executing(w)'
  BY DEF Deregister, FreshWorker, IInv, EngineTypeOK, Executing
<1>2. CASE t # TypeAt(w)
  <2>1. Runs(t)' = Runs(t)
    BY <1>1, <1>2 DEF Runs, TypeAt, Executing
  <2>2. sem'[t] = sem[t]
    BY <1>2 DEF Deregister, IInv, EngineTypeOK
  <2> QED
    BY <2>1, <2>2 DEF Slots
<1>3. CASE t = TypeAt(w)
  <2>1. Runs(t)' = Runs(t) \ {w} /\ w \in Runs(t)
    BY <1>1, <1>3 DEF Runs, TypeAt, Executing
  <2>2. Cardinality(Runs(t)') = Cardinality(Runs(t)) - 1
    BY <2>1, RunsAreCounted, FS_RemoveElement
  <2>3. Limit[t] > 0 => sem'[t] = sem[t] - 1
    BY <1>3 DEF Deregister, IInv, EngineTypeOK
  <2> QED
    BY <2>2, <2>3, RunsAreCounted, LimitAssumption DEF Slots
<1> QED
  BY <1>2, <1>3

\* No other step of a worker begins a run or moves a token.
LEMMA SlotsKept ==
  ASSUME IInv, \A t \in Type : Slots(t), NEW w \in Worker, WorkerStep(w),
         ~BeginExecution(w), ~Deregister(w), NEW t \in Type
  PROVE  Slots(t)'
<1>1. UNCHANGED sem /\ worker[w].pc # "finishing"
  BY DEF WorkerStep, Park, Exit, Dequeue, Abandon, UnknownType, HandlerReturn, CheckSignal,
         Settle, SettleIntervened, SettleCompleted, SettleRetry, SettleRetryRefused,
         FailRefusedRetry, SettleFailed, Failing, engineVars
<1>2. ASSUME ~Executing(w) PROVE ~Executing(w)'
  <2>1. Park(w) \/ Exit(w) \/ Abandon(w) \/ \E id \in TaskId : Dequeue(w, id)
    BY <1>2
    DEF WorkerStep, UnknownType, HandlerReturn, CheckSignal, Settle, SettleIntervened,
        SettleCompleted, SettleRetry, SettleRetryRefused, FailRefusedRetry, SettleFailed,
        Failing, Executing
  <2>2. worker[w] \in WorkerState
    BY DEF IInv, EngineTypeOK
  <2>3. CASE Park(w) \/ Exit(w) \/ Abandon(w)
    BY <2>2, <2>3
    DEF Park, Exit, Abandon, GoTo, FreshWorker, IInv, EngineTypeOK, WorkerState, Executing
  <2>4. ASSUME NEW id \in TaskId, Dequeue(w, id) PROVE ~Executing(w)'
    BY <2>4 DEF Dequeue, FreshWorker, IInv, EngineTypeOK, Executing
  <2> QED
    BY <2>1, <2>3, <2>4
<1>3. /\ \A v \in Worker : Executing(v) <=> Executing(v)'
      /\ \A v \in Worker : Executing(v) => worker'[v].id = worker[v].id
  BY <1>1, <1>2, RunGoesOn DEF Executing
<1>4. Runs(t)' = Runs(t)
  BY <1>3, SameRuns
<1> QED
  BY <1>1, <1>4 DEF Slots

\* Every step keeps the slots of every type exact.
LEMMA StepSlots ==
  ASSUME IInv, \A t \in Type : Slots(t), [Next]_vars, NEW t \in Type
  PROVE  Slots(t)'
<1>1. ASSUME NEW w \in Worker, WorkerStep(w)
      PROVE  Slots(t)'
  BY <1>1, BeginSlots, EndSlots, SlotsKept
<1>2. ASSUME NEW c \in Client, ClientCall(c) \/ ClientStep(c)
      PROVE  Slots(t)'
  <2>1. UNCHANGED sem
    BY <1>2
    DEF ClientCall, SubmitSave, StartGet, StopTask, TerminateRunning, Signal,
        TerminateUnregistered, RemoveGet, CancelBatch, PoolStop,
        ClientStep, SubmitEnqueue, StartEnqueue, EnqueueRefused, SendCancel, TerminateQueued,
        TerminateNotQueued, TerminateGet, TerminateWrite, RemoveDelete, PoolClose, engineVars
  <2>2. Runs(t)' = Runs(t)
    BY <1>2, ClientKeepsRuns, SameRuns DEF Executing
  <2> QED
    BY <2>1, <2>2 DEF Slots
<1>3. CASE UNCHANGED <<worker, sem>>
  BY <1>3 DEF Slots, Runs, Executing, TypeAt
<1> QED
  BY <1>1, <1>2, <1>3 DEF Next, BecomeDue, Quiescent, vars, engineVars

\* Slots are exact: whichever way executeTask is left, and whatever the callers
\* do meanwhile, no slot leaks and the limit of a type is kept.
THEOREM SlotsAreExact == Spec => []SemaphoreExact
<1>1. Init => SemaphoreExact
  <2> SUFFICES ASSUME Init, NEW t \in Type PROVE Slots(t)
    BY SlotsOfTypes
  <2>1. Runs(t) = {}
    BY DEF Init, FreshWorker, Runs, Executing
  <2>2. Cardinality(Runs(t)) = 0
    BY <2>1, FS_EmptySet
  <2> QED
    BY <2>2, LimitAssumption DEF Init, Slots
<1>2. IInv /\ SemaphoreExact /\ [Next]_vars => SemaphoreExact'
  <2> SUFFICES ASSUME IInv, SemaphoreExact, [Next]_vars PROVE SemaphoreExact'
    OBVIOUS
  <2>1. \A t \in Type : Slots(t)'
    BY SlotsOfTypes, StepSlots
  <2> QED
    BY <2>1 DEF Slots, Runs, SemaphoreExact
<1> QED
  BY <1>1, <1>2, AlwaysIInv, PTL DEF Spec
=============================================================================
