------------------------------ MODULE TaskPool ------------------------------
(***************************************************************************)
(* The engine (engine.go) over the in-memory backend: MaxWorkers worker    *)
(* goroutines, any number of goroutines calling the API, and the registry  *)
(* through which StopTask and Terminate reach a running handler.           *)
(*                                                                         *)
(* A step is what the code does under one lock (p.controlMu, the backend's *)
(* mutex, one channel operation); everything an API call or a worker keeps *)
(* in local variables between two such steps is part of its record.        *)
(*                                                                         *)
(* Callbacks, metrics, progress and batch counters observe the tasks and   *)
(* never feed back into the steps below; they are not part of this module. *)
(***************************************************************************)
EXTENDS MemoryBackend, FiniteSets

CONSTANTS
    Worker,     \* the worker goroutines
    Client,     \* the goroutines that call the pool's API
    Type,       \* task types
    TypeOf,     \* the type each task is submitted with
    Handled,    \* the types a handler is registered for
    Limit,      \* WithConcurrency of each type; 0 is no limit
    MaxRetries, \* the retry limit each task is submitted with
    Ops,        \* the API calls the clients make
    Delays,     \* whether clients submit delayed tasks
    StartAlone, \* whether the program takes care that nothing overlaps a Start
    None

AllOps == {"submit", "start", "stop", "terminate", "remove", "cancelBatch", "shutdown"}

ASSUME WorkerAssumption == IsFiniteSet(Worker)
ASSUME TypeOfAssumption == TypeOf \in [TaskId -> Type]
ASSUME HandledAssumption == Handled \subseteq Type
ASSUME LimitAssumption == Limit \in [Type -> Nat]
ASSUME MaxRetriesAssumption == MaxRetries \in [TaskId -> 0 .. RetryBound]
ASSUME OpsAssumption == Ops \subseteq AllOps /\ Delays \in BOOLEAN /\ StartAlone \in BOOLEAN
ASSUME NoneAssumption == None \notin TaskId /\ None \notin Worker

VARIABLES
    runningCancels, \* id -> the worker run whose cancel() is registered
    stopSignals,    \* id -> the status StopTask or Terminate asked for
    sem,            \* type -> slots taken in handlerSemaphores
    poolDone,       \* p.ctx is cancelled
    worker,         \* per worker: program counter and locals of executeTask
    client,         \* per client: program counter and locals of the call
    submitted       \* ids used so far; ids are UUIDs and never reused

engineVars == <<runningCancels, stopSignals, sem, poolDone>>
vars == <<memVars, engineVars, worker, client, submitted>>

WorkerPc == {"idle", "parked", "claimed", "running", "returned", "settle",
             "refused", "finishing", "exited"}

ClientPc == {"idle", "submitting", "starting", "cancelling", "terminating",
             "terminateGet", "terminateWrite", "removing", "stopping"}

\* id, retries: of the worker's private clone; cancelled: its task context was
\* cancelled by an API call; outcome: how the handler returned; desired: the
\* signal read after the handler returned.
WorkerState ==
    [pc        : WorkerPc,
     id        : TaskId \cup {None},
     retries   : 0 .. RetryBound,
     cancelled : BOOLEAN,
     outcome   : {"none", "ok", "err", "interrupted"},
     desired   : {"none", "paused", "cancelled"}]

\* rec: the task record the call is about to enqueue; target: the run whose
\* cancel() the call has taken from the registry.
ClientState ==
    [pc     : ClientPc,
     id     : TaskId \cup {None},
     rec    : TaskRecord,
     target : Worker \cup {None}]

EngineTypeOK ==
    /\ runningCancels \in [TaskId -> Worker \cup {None}]
    /\ stopSignals \in [TaskId -> {"none", "paused", "cancelled"}]
    /\ sem \in [Type -> Nat]
    /\ poolDone \in BOOLEAN
    /\ worker \in [Worker -> WorkerState]
    /\ client \in [Client -> ClientState]
    /\ submitted \in SUBSET TaskId

TypeOK == MemTypeOK /\ EngineTypeOK

FreshWorker == [pc |-> "idle", id |-> None, retries |-> 0, cancelled |-> FALSE,
                outcome |-> "none", desired |-> "none"]

IdleClient == [pc |-> "idle", id |-> None, rec |-> NoTask, target |-> None]

Init ==
    /\ MemInit
    /\ runningCancels = [id \in TaskId |-> None]
    /\ stopSignals = [id \in TaskId |-> "none"]
    /\ sem = [t \in Type |-> 0]
    /\ poolDone = FALSE
    /\ worker = [w \in Worker |-> FreshWorker]
    /\ client = [c \in Client |-> IdleClient]
    /\ submitted = {}

-----------------------------------------------------------------------------
(* Workers *)

TypeAt(w) == TypeOf[worker[w].id]

\* The worker holds a slot of its type's semaphore and has registered its run.
Executing(w) == worker[w].pc \in {"running", "returned", "settle", "refused", "finishing"}

GoTo(w, pc) == worker' = [worker EXCEPT ![w].pc = pc]

Park(w) ==
    /\ worker[w].pc = "idle"
    /\ ~AnyReady
    /\ GoTo(w, "parked")
    /\ UNCHANGED <<memVars, engineVars, client, submitted>>

Dequeue(w, id) ==
    /\ worker[w].pc \in {"idle", "parked"}
    /\ MemDequeue(id)
    /\ worker' = [worker EXCEPT ![w] = [FreshWorker EXCEPT
                    !.pc = "claimed", !.id = id, !.retries = tasks[id].retries]]
    /\ UNCHANGED <<engineVars, client, submitted>>

\* Mutant: a worker leaves only when no task is waiting in the store.
ExitWhenDrained(w) ==
    /\ worker[w].pc = "parked"
    /\ poolDone /\ \A id \in TaskId : ~IsQueued(id)
    /\ GoTo(w, "exited")
    /\ UNCHANGED <<memVars, engineVars, client, submitted>>

\* The select of dequeue sees ctx.Done(); before that the worker has scanned
\* the heap once, without looking at ctx, and found nothing ready.
Exit(w) ==
    /\ worker[w].pc = "parked"
    /\ poolDone
    /\ GoTo(w, "exited")
    /\ UNCHANGED <<memVars, engineVars, client, submitted>>

BeginExecution(w) ==
    LET id == worker[w].id
        t  == TypeAt(w)
    IN  /\ worker[w].pc = "claimed"
        /\ Limit[t] > 0 => sem[t] < Limit[t]
        /\ sem' = IF Limit[t] > 0 THEN [sem EXCEPT ![t] = @ + 1] ELSE sem
        /\ runningCancels' = [runningCancels EXCEPT ![id] = w]
        /\ GoTo(w, "running")
        /\ UNCHANGED <<memVars, stopSignals, poolDone, client, submitted>>

\* Waiting for the semaphore, the worker sees p.ctx.Done() and drops the task,
\* which stays "running" in the store.
Abandon(w) ==
    /\ worker[w].pc = "claimed"
    /\ Limit[TypeAt(w)] > 0
    /\ poolDone
    /\ worker' = [worker EXCEPT ![w] = FreshWorker]
    /\ UNCHANGED <<memVars, engineVars, client, submitted>>

UnknownType(w) ==
    /\ worker[w].pc = "running"
    /\ TypeAt(w) \notin Handled
    /\ MemUpdateStatus(worker[w].id, "failed")
    /\ GoTo(w, "finishing")
    /\ UNCHANGED <<engineVars, client, submitted>>

\* The handler returns what it likes ("err" covers a panic and a timeout); it
\* returns because of StopTask or Terminate only if its context was cancelled.
HandlerReturn(w) ==
    /\ worker[w].pc = "running"
    /\ TypeAt(w) \in Handled
    /\ \E outcome \in {"ok", "err", "interrupted"} :
        /\ outcome = "interrupted" => worker[w].cancelled
        /\ worker' = [worker EXCEPT ![w] = [@ EXCEPT !.pc = "returned", !.outcome = outcome]]
    /\ UNCHANGED <<memVars, engineVars, client, submitted>>

\* The intervention check: take the signal, if there is one.
CheckSignal(w) ==
    LET id == worker[w].id
    IN  /\ worker[w].pc = "returned"
        /\ worker' = [worker EXCEPT ![w] = [@ EXCEPT !.pc = "settle", !.desired = stopSignals[id]]]
        /\ stopSignals' = [stopSignals EXCEPT ![id] = "none"]
        /\ UNCHANGED <<memVars, runningCancels, sem, poolDone, client, submitted>>

SettleIntervened(w) ==
    /\ worker[w].pc = "settle"
    /\ worker[w].desired # "none"
    /\ MemUpdateStatus(worker[w].id, worker[w].desired)
    /\ GoTo(w, "finishing")
    /\ UNCHANGED <<engineVars, client, submitted>>

SettleCompleted(w) ==
    /\ worker[w].pc = "settle"
    /\ worker[w].desired = "none" /\ worker[w].outcome = "ok"
    /\ MemUpdateStatus(worker[w].id, "completed")
    /\ GoTo(w, "finishing")
    /\ UNCHANGED <<engineVars, client, submitted>>

Failing(w) ==
    /\ worker[w].pc = "settle"
    /\ worker[w].desired = "none" /\ worker[w].outcome # "ok"

\* Mutant: one retry too many.
CanRetryOffByOne(w) == worker[w].retries <= MaxRetries[worker[w].id]

CanRetry(w) == worker[w].retries < MaxRetries[worker[w].id]

\* Mutant: the retry is written to the store but not put into the queue.
RetryByStatus(w) ==
    /\ Failing(w) /\ CanRetry(w)
    /\ MemUpdateStatus(worker[w].id, "pending")
    /\ GoTo(w, "finishing")
    /\ UNCHANGED <<engineVars, client, submitted>>

\* The whole clone is enqueued: the stored record is overwritten, and brought
\* back if the task was removed meanwhile.
SettleRetry(w) ==
    /\ Failing(w) /\ CanRetry(w)
    /\ MemEnqueue(worker[w].id,
                  [status |-> "pending", retries |-> worker[w].retries + 1, due |-> TRUE])
    /\ GoTo(w, "finishing")
    /\ UNCHANGED <<engineVars, client, submitted>>

SettleRetryRefused(w) ==
    /\ Failing(w) /\ CanRetry(w)
    /\ ~MemAccepts
    /\ GoTo(w, "refused")
    /\ UNCHANGED <<memVars, engineVars, client, submitted>>

\* Mutant: the refused retry is not recorded as a failure.
RefusedRetryForgotten(w) ==
    /\ worker[w].pc = "refused"
    /\ GoTo(w, "finishing")
    /\ UNCHANGED <<memVars, engineVars, client, submitted>>

\* UpdateStatus after the refused Enqueue.
FailRefusedRetry(w) ==
    /\ worker[w].pc = "refused"
    /\ MemUpdateStatus(worker[w].id, "failed")
    /\ GoTo(w, "finishing")
    /\ UNCHANGED <<engineVars, client, submitted>>

SettleFailed(w) ==
    /\ Failing(w) /\ ~CanRetry(w)
    /\ MemUpdateStatus(worker[w].id, "failed")
    /\ GoTo(w, "finishing")
    /\ UNCHANGED <<engineVars, client, submitted>>

\* Mutant: the deferred release of the semaphore is missing.
DeregisterKeepsSlot(w) ==
    /\ worker[w].pc = "finishing"
    /\ runningCancels' = [runningCancels EXCEPT ![worker[w].id] = None]
    /\ client' = [c \in Client |-> IF client[c].target = w
                                   THEN [client[c] EXCEPT !.target = None]
                                   ELSE client[c]]
    /\ worker' = [worker EXCEPT ![w] = FreshWorker]
    /\ UNCHANGED <<memVars, stopSignals, sem, poolDone, submitted>>

\* Mutant: the registry entry survives the run.
DeregisterKeepsEntry(w) ==
    LET t == TypeAt(w)
    IN  /\ worker[w].pc = "finishing"
        /\ sem' = IF Limit[t] > 0 THEN [sem EXCEPT ![t] = @ - 1] ELSE sem
        /\ worker' = [worker EXCEPT ![w] = FreshWorker]
        /\ UNCHANGED <<memVars, runningCancels, stopSignals, poolDone, client, submitted>>

\* The deferred calls: the registry entry is deleted whoever owns it, the task
\* context is cancelled (a pending cancel() of a client has become a no-op),
\* and the semaphore slot is released.
Deregister(w) ==
    LET id == worker[w].id
        t  == TypeAt(w)
    IN  /\ worker[w].pc = "finishing"
        /\ runningCancels' = [runningCancels EXCEPT ![id] = None]
        /\ Limit[t] > 0 => sem[t] > 0      \* a receive from an empty channel blocks
        /\ sem' = IF Limit[t] > 0 THEN [sem EXCEPT ![t] = @ - 1] ELSE sem
        /\ client' = [c \in Client |-> IF client[c].target = w
                                       THEN [client[c] EXCEPT !.target = None]
                                       ELSE client[c]]
        /\ worker' = [worker EXCEPT ![w] = FreshWorker]
        /\ UNCHANGED <<memVars, stopSignals, poolDone, submitted>>

Settle(w) ==
    \/ SettleIntervened(w) \/ SettleCompleted(w) \/ SettleRetry(w)
    \/ SettleRetryRefused(w) \/ FailRefusedRetry(w) \/ SettleFailed(w)

WorkerStep(w) ==
    \/ Park(w) \/ Exit(w) \/ \E id \in TaskId : Dequeue(w, id)
    \/ BeginExecution(w) \/ Abandon(w) \/ UnknownType(w)
    \/ HandlerReturn(w) \/ CheckSignal(w) \/ Settle(w) \/ Deregister(w)

-----------------------------------------------------------------------------
(* API calls *)

Calls(c, op) ==
    /\ op \in Ops /\ client[c].pc = "idle"
    /\ StartAlone => \A other \in Client :
            client[other].pc # "starting" /\ (op = "start" => client[other].pc = "idle")

\* The call of c goes on at pc, about task id.
Proceed(c, pc, id) == client' = [client EXCEPT ![c] = [@ EXCEPT !.pc = pc, !.id = id]]

Return(c) == client' = [client EXCEPT ![c] = IdleClient]

\* Submit and SubmitTask: a new task is pending, or delayed when it has a
\* schedule (which may already have passed).
NewTasks ==
    {[status |-> "pending", retries |-> 0, due |-> TRUE]} \cup
    (IF Delays THEN [status : {"delayed"}, retries : {0}, due : BOOLEAN] ELSE {})

SubmitSave(c, id) ==
    /\ Calls(c, "submit")
    /\ id \notin submitted
    /\ \E rec \in NewTasks :
        /\ MemSave(id, rec)
        /\ client' = [client EXCEPT ![c] =
                        [IdleClient EXCEPT !.pc = "submitting", !.id = id, !.rec = rec]]
    /\ submitted' = submitted \cup {id}
    /\ UNCHANGED <<engineVars, worker>>

SubmitEnqueue(c) ==
    /\ client[c].pc = "submitting"
    /\ MemEnqueue(client[c].id, client[c].rec)
    /\ Return(c)
    /\ UNCHANGED <<engineVars, worker, submitted>>

\* Mutant: Start does not look at the status.
StartGetUnchecked(c, id) ==
    /\ Calls(c, "start")
    /\ Stored(id)
    /\ client' = [client EXCEPT ![c] = [IdleClient EXCEPT !.pc = "starting", !.id = id,
                    !.rec = [status |-> "pending", retries |-> 0, due |-> TRUE]]]
    /\ UNCHANGED <<memVars, engineVars, worker, submitted>>

\* Start and Continue.
StartGet(c, id) ==
    /\ Calls(c, "start")
    /\ tasks[id].status \in Startable
    /\ client' = [client EXCEPT ![c] = [IdleClient EXCEPT !.pc = "starting", !.id = id,
                    !.rec = [status  |-> "pending",
                             retries |-> IF tasks[id].status = "paused" THEN tasks[id].retries ELSE 0,
                             due     |-> TRUE]]]
    /\ UNCHANGED <<memVars, engineVars, worker, submitted>>

StartEnqueue(c) ==
    /\ client[c].pc = "starting"
    /\ MemEnqueue(client[c].id, client[c].rec)
    /\ Return(c)
    /\ UNCHANGED <<engineVars, worker, submitted>>

\* Submit or Start returns the error of Enqueue; a task Submit has saved stays
\* in the store.
EnqueueRefused(c) ==
    /\ client[c].pc \in {"submitting", "starting"}
    /\ ~MemAccepts
    /\ Return(c)
    /\ UNCHANGED <<memVars, engineVars, worker, submitted>>

\* Mutant: cancel() without the signal.
SignalUnrecorded(c, id, status) ==
    /\ runningCancels[id] # None
    /\ client' = [client EXCEPT ![c] = [IdleClient EXCEPT !.pc = "cancelling", !.id = id,
                                                          !.target = runningCancels[id]]]
    /\ UNCHANGED <<memVars, engineVars, worker, submitted>>

\* StopTask, or Terminate of a registered task: the signal is recorded under
\* controlMu, cancel() is called after it is released.
Signal(c, id, status) ==
    /\ runningCancels[id] # None
    /\ stopSignals' = [stopSignals EXCEPT ![id] = status]
    /\ client' = [client EXCEPT ![c] = [IdleClient EXCEPT !.pc = "cancelling", !.id = id,
                                                          !.target = runningCancels[id]]]
    /\ UNCHANGED <<memVars, runningCancels, sem, poolDone, worker, submitted>>

StopTask(c, id) == Calls(c, "stop") /\ Signal(c, id, "paused")

TerminateRunning(c, id) == Calls(c, "terminate") /\ Signal(c, id, "cancelled")

SendCancel(c) ==
    /\ client[c].pc = "cancelling"
    /\ worker' = IF client[c].target = None THEN worker
                 ELSE [worker EXCEPT ![client[c].target].cancelled = TRUE]
    /\ Return(c)
    /\ UNCHANGED <<memVars, engineVars, submitted>>

\* Terminate of a task that is not registered (Cancel is Terminate).
TerminateUnregistered(c, id) ==
    /\ Calls(c, "terminate")
    /\ Stored(id) /\ runningCancels[id] = None
    /\ Proceed(c, "terminating", id)
    /\ UNCHANGED <<memVars, engineVars, worker, submitted>>

TerminateQueued(c) ==
    /\ client[c].pc = "terminating"
    /\ MemRemove(client[c].id)
    /\ Return(c)
    /\ UNCHANGED <<engineVars, worker, submitted>>

TerminateNotQueued(c) ==
    /\ client[c].pc = "terminating"
    /\ ~IsQueued(client[c].id)
    /\ Proceed(c, "terminateGet", client[c].id)
    /\ UNCHANGED <<memVars, engineVars, worker, submitted>>

\* Mutant: Terminate does not look at the status it has read.
TerminateGetUnchecked(c) ==
    /\ client[c].pc = "terminateGet"
    /\ Proceed(c, "terminateWrite", client[c].id)
    /\ UNCHANGED <<memVars, engineVars, worker, submitted>>

TerminateGet(c) ==
    /\ client[c].pc = "terminateGet"
    /\ IF tasks[client[c].id].status \in {"paused", "failed"}
       THEN Proceed(c, "terminateWrite", client[c].id)
       ELSE Return(c)
    /\ UNCHANGED <<memVars, engineVars, worker, submitted>>

\* The status read before is not looked at again.
TerminateWrite(c) ==
    /\ client[c].pc = "terminateWrite"
    /\ MemUpdateStatus(client[c].id, "cancelled")
    /\ Return(c)
    /\ UNCHANGED <<engineVars, worker, submitted>>

\* Remove (and DeleteTask): only the Get looks at the status.
RemoveGet(c, id) ==
    /\ Calls(c, "remove")
    /\ Stored(id) /\ tasks[id].status # "running"
    /\ Proceed(c, "removing", id)
    /\ UNCHANGED <<memVars, engineVars, worker, submitted>>

RemoveDelete(c) ==
    /\ client[c].pc = "removing"
    /\ MemDelete(client[c].id)
    /\ Return(c)
    /\ UNCHANGED <<engineVars, worker, submitted>>

CancelBatch(c, b) ==
    /\ Calls(c, "cancelBatch")
    /\ MemCancelBatch(b)
    /\ UNCHANGED <<engineVars, worker, client, submitted>>

\* Stop, called once: a second call would close the wait channel twice.
PoolStop(c) ==
    /\ Calls(c, "shutdown")
    /\ ~poolDone
    /\ poolDone' = TRUE
    /\ Proceed(c, "stopping", None)
    /\ UNCHANGED <<memVars, runningCancels, stopSignals, sem, worker, submitted>>

\* wg.Wait() returns.
PoolClose(c) ==
    /\ client[c].pc = "stopping"
    /\ \A w \in Worker : worker[w].pc = "exited"
    /\ MemClose
    /\ Return(c)
    /\ UNCHANGED <<engineVars, worker, submitted>>

\* A call begins (and may be over at once).
ClientCall(c) ==
    \/ \E id \in TaskId : SubmitSave(c, id) \/ StartGet(c, id) \/ StopTask(c, id)
    \/ \E id \in TaskId : TerminateRunning(c, id) \/ TerminateUnregistered(c, id) \/ RemoveGet(c, id)
    \/ \E b \in Batch : CancelBatch(c, b)
    \/ PoolStop(c)

\* A call goes on.
ClientStep(c) ==
    \/ SubmitEnqueue(c) \/ StartEnqueue(c) \/ EnqueueRefused(c) \/ SendCancel(c)
    \/ TerminateQueued(c) \/ TerminateNotQueued(c) \/ TerminateGet(c) \/ TerminateWrite(c)
    \/ RemoveDelete(c) \/ PoolClose(c)

BecomeDue(id) ==
    /\ MemBecomeDue(id)
    /\ UNCHANGED <<engineVars, worker, client, submitted>>

\* Nothing left to do until somebody calls: every worker polls an empty queue
\* or has exited, and no call is under way.
Quiescent ==
    /\ \A w \in Worker : worker[w].pc \in {"parked", "exited"}
    /\ \A c \in Client : client[c].pc = "idle"
    /\ UNCHANGED vars

Next ==
    \/ \E w \in Worker : WorkerStep(w)
    \/ \E c \in Client : ClientCall(c) \/ ClientStep(c)
    \/ \E id \in TaskId : BecomeDue(id)
    \/ Quiescent

Spec == Init /\ [][Next]_vars

\* The Go scheduler runs every goroutine that can run, time passes, and
\* handlers return.  Nobody is obliged to call the API.
Fairness ==
    /\ \A w \in Worker : WF_vars(WorkerStep(w))
    /\ \A c \in Client : WF_vars(ClientStep(c))
    /\ \A id \in TaskId : WF_vars(BecomeDue(id))

FairSpec == Spec /\ Fairness
=============================================================================
