------------------------------ MODULE SqlPool ------------------------------
(***************************************************************************)
(* Task pools over an SQL backend: several processes, each with its worker *)
(* goroutines and its callers, share one table.  Processes crash and boot  *)
(* again, statements fail.  What matters here is the order of the          *)
(* statements; what the engine does between them in one process (registry, *)
(* signals, semaphores) is the subject of TaskPool, so a run simply ends   *)
(* with any of the statuses executeTask may choose.                        *)
(*                                                                         *)
(* Workers and callers are actors with the same record, because both call  *)
(* Enqueue: executeTask to retry, Submit and Start to queue.               *)
(***************************************************************************)
EXTENDS SqlBackend

CONSTANTS
    Process,    \* operating system processes, each with one pool
    Worker,     \* the worker goroutines of all pools
    Client,     \* the goroutines that call the pools' APIs
    Home,       \* the process of each worker and client
    MaxRetries, \* the retry limit each task is submitted with
    Limited,    \* the tasks whose handler has a semaphore
    Ops,        \* the API calls the clients make
    Stopping,   \* the processes whose program calls Stop
    Delays,     \* whether clients submit delayed tasks
    Leftover,   \* what an earlier life of the processes may have left of each task
    FaultBound, \* how many crashes and failed statements happen
    CallBound,  \* how many API calls are made
    None

SqlOps == {"submit", "start", "terminate", "remove", "cancelBatch"}

Actor == Worker \cup Client

ASSUME ActorAssumption == Worker \cap Client = {} /\ Home \in [Actor -> Process]
ASSUME SqlRetryAssumption == MaxRetries \in [TaskId -> 0 .. RetryBound]
ASSUME SqlOpsAssumption == Ops \subseteq SqlOps /\ Delays \in BOOLEAN /\ Stopping \subseteq Process
ASSUME LimitedAssumption == Limited \subseteq TaskId
ASSUME BoundAssumption == FaultBound \in Nat /\ CallBound \in Nat
ASSUME LeftoverAssumption == Leftover \in [TaskId -> SUBSET TaskRecord]
ASSUME SqlNoneAssumption == None \notin TaskId

VARIABLES
    process,    \* the state of each process
    actor,      \* per worker and client: program counter and locals
    submitted,  \* ids used so far; ids are UUIDs and never reused
    faults, calls,  \* how many of the bounded events have happened
    overruled,  \* history: tasks put back to pending while a worker held them
    orphaned,   \* history: tasks whose worker's process has crashed
    dropped     \* history: tasks whose worker went on without recording the end

poolVars == <<process, submitted, faults, calls, overruled, orphaned, dropped>>
vars == <<dialect, rows, actor, poolVars>>

\* booted: New has returned and the workers run, but the program has not called
\* Handle yet.
ProcessState == {"down", "booted", "up", "stopping", "stopped"}

\* selected: the id is read, not yet claimed; claimed: the row is marked
\* running, not yet read; executing: the handler runs, or waits for a slot of
\* its semaphore; failing: no handler was found, or a retry was refused;
\* enqueue, update, insert: inside Enqueue.
HoldingPc == {"claimed", "executing", "enqueue", "update", "insert", "failing"}
ActorPc == {"idle", "waiting", "exited", "selected", "terminateGet", "terminateWrite",
            "deleting"} \cup HoldingPc

ActorState == [pc : ActorPc, id : TaskId \cup {None}, rec : TaskRecord]

TypeOK ==
    /\ dialect \in {"sqlite", "mysql"}
    /\ rows \in [TaskId -> TaskRecord]
    /\ process \in [Process -> ProcessState]
    /\ actor \in [Actor -> ActorState]
    /\ submitted \in SUBSET TaskId
    /\ faults \in 0 .. FaultBound /\ calls \in 0 .. CallBound
    /\ overruled \in SUBSET TaskId
    /\ orphaned \in SUBSET TaskId
    /\ dropped \in SUBSET TaskId

At(pc) == [pc |-> pc, id |-> None, rec |-> NoTask]

Init ==
    /\ dialect \in {"sqlite", "mysql"}
    /\ rows \in [TaskId -> TaskRecord] /\ \A id \in TaskId : rows[id] \in Leftover[id]
    /\ process = [p \in Process |-> "down"]
    /\ actor = [a \in Actor |-> At(IF a \in Worker THEN "exited" ELSE "idle")]
    /\ submitted = {id \in TaskId : HasRow(id)}
    /\ faults = 0 /\ calls = 0
    /\ overruled = {}
    /\ orphaned = RunningRows
    /\ dropped = {}

Holds(w, id) == w \in Worker /\ actor[w].id = id /\ actor[w].pc \in HoldingPc

HeldBesides(a) == {id \in TaskId : \E w \in Worker \ {a} : Holds(w, id)}

Running(a) == process[Home[a]] \in {"booted", "up", "stopping"}

Become(a, state) == actor' = [actor EXCEPT ![a] = state]

GoTo(a, pc) == Become(a, [actor[a] EXCEPT !.pc = pc])

-----------------------------------------------------------------------------
(* Dequeue *)

\* The claim finds no row.
FindNothing(w) ==
    /\ actor[w].pc = "idle" /\ Running(w)
    /\ \A id \in TaskId : ~Claimable(id)
    /\ Become(w, At("waiting"))
    /\ UNCHANGED <<dialect, rows, poolVars>>

SqliteSelect(w, id) ==
    /\ dialect = "sqlite"
    /\ actor[w].pc = "idle" /\ Running(w)
    /\ FirstClaimable(id)
    /\ Become(w, [At("selected") EXCEPT !.id = id])
    /\ UNCHANGED <<dialect, rows, poolVars>>

\* Mutant: the UPDATE of the claim does not ask for status 0 again.
SqliteClaimUnconditionally(w) ==
    LET id == actor[w].id
    IN  /\ actor[w].pc = "selected"
        /\ IF HasRow(id)
           THEN MarkRunning(id) /\ GoTo(w, "claimed")
           ELSE UNCHANGED rows /\ Become(w, At("waiting"))
        /\ UNCHANGED <<dialect, poolVars>>

\* UPDATE ... AND status = 0: with no row affected the claim answers that
\* there is nothing to do.
SqliteClaim(w) ==
    LET id == actor[w].id
    IN  /\ actor[w].pc = "selected"
        /\ IF rows[id].status = "pending"
           THEN MarkRunning(id) /\ GoTo(w, "claimed")
           ELSE UNCHANGED rows /\ Become(w, At("waiting"))
        /\ UNCHANGED <<dialect, poolVars>>

\* executeTask looks the handler up first; a task of an unknown type fails,
\* retries or not.
TakeUp(w, id) ==
    [pc |-> IF process[Home[w]] = "booted" THEN "failing" ELSE "executing",
     id |-> id, rec |-> rows[id]]

\* The Get that ends the claim; a row deleted meanwhile is an error, and the
\* worker loop tries again.
SqliteRead(w) ==
    LET id == actor[w].id
    IN  /\ actor[w].pc = "claimed"
        /\ Become(w, IF HasRow(id) THEN TakeUp(w, id) ELSE At("idle"))
        /\ UNCHANGED <<dialect, rows, poolVars>>

\* SELECT ... FOR UPDATE SKIP LOCKED and UPDATE in one transaction.
MysqlClaim(w, id) ==
    /\ dialect = "mysql"
    /\ actor[w].pc = "idle" /\ Running(w)
    /\ FirstClaimable(id)
    /\ MarkRunning(id)
    /\ Become(w, TakeUp(w, id))
    /\ UNCHANGED <<dialect, poolVars>>

\* Commit reports an error for a transaction the server has committed.
MysqlCommitLost(w, id) ==
    /\ dialect = "mysql"
    /\ actor[w].pc = "idle" /\ Running(w)
    /\ faults < FaultBound
    /\ FirstClaimable(id)
    /\ MarkRunning(id)
    /\ faults' = faults + 1
    /\ dropped' = dropped \cup {id}
    /\ UNCHANGED <<dialect, actor, process, submitted, calls, overruled, orphaned>>

\* The poll interval is over.  A notification of an Enqueue in this process
\* only makes it sooner, so the channel b.notify is left out.
Wake(w) ==
    /\ actor[w].pc = "waiting"
    /\ Become(w, At("idle"))
    /\ UNCHANGED <<dialect, rows, poolVars>>

Exit(w) ==
    /\ actor[w].pc = "waiting"
    /\ process[Home[w]] = "stopping"
    /\ Become(w, At("exited"))
    /\ UNCHANGED <<dialect, rows, poolVars>>

-----------------------------------------------------------------------------
(* The end of a run *)

\* Mutant: one retry too many.
MayRetryOffByOne(w) == actor[w].rec.retries <= MaxRetries[actor[w].id]

\* The handler failed and may be tried again.
MayRetry(w) == actor[w].rec.retries < MaxRetries[actor[w].id]

Settle(w) ==
    /\ actor[w].pc = "executing"
    /\ \E status \in SettledStatuses :
        /\ status = "failed" => ~MayRetry(w)
        /\ UpdateStatus(actor[w].id, status)
    /\ Become(w, At("idle"))
    /\ UNCHANGED <<dialect, poolVars>>

\* Stop finds the run waiting for a slot of its handler: nothing is recorded.
LeaveUnrun(w) ==
    /\ actor[w].pc = "executing" /\ actor[w].id \in Limited
    /\ process[Home[w]] = "stopping"
    /\ Become(w, At("idle"))
    /\ dropped' = dropped \cup {actor[w].id}
    /\ UNCHANGED <<dialect, rows, process, submitted, faults, calls, overruled, orphaned>>

Retry(w) ==
    /\ actor[w].pc = "executing" /\ MayRetry(w)
    /\ Become(w, [actor[w] EXCEPT !.pc = "enqueue",
                    !.rec = [status |-> "pending", retries |-> @.retries + 1, due |-> TRUE]])
    /\ UNCHANGED <<dialect, rows, poolVars>>

RecordFailure(w) ==
    /\ actor[w].pc = "failing"
    /\ UpdateStatus(actor[w].id, "failed")
    /\ Become(w, At("idle"))
    /\ UNCHANGED <<dialect, poolVars>>

-----------------------------------------------------------------------------
(* Enqueue *)

EnqueueGet(a) ==
    /\ actor[a].pc = "enqueue" /\ Running(a)
    /\ GoTo(a, IF HasRow(actor[a].id) THEN "update" ELSE "insert")
    /\ UNCHANGED <<dialect, rows, poolVars>>

\* The row is written, its worker overruled if it has one.
Enqueued(a) ==
    /\ overruled' = overruled \cup ({actor[a].id} \cap HeldBesides(a))
    /\ Become(a, At("idle"))
    /\ UNCHANGED <<dialect, process, submitted, faults, calls, orphaned, dropped>>

EnqueueUpdate(a) ==
    /\ actor[a].pc = "update" /\ Running(a)
    /\ OverwriteRow(actor[a].id, actor[a].rec)
    /\ Enqueued(a)

\* Mutant: the refused retry is not recorded as a failure.
EnqueueFailsUnrecorded(a) == Become(a, At("idle"))

\* A caller returns the error; a worker records the failed retry.
EnqueueFails(a) == IF a \in Worker THEN GoTo(a, "failing") ELSE Become(a, At("idle"))

EnqueueInsert(a) ==
    /\ actor[a].pc = "insert" /\ Running(a)
    /\ \/ InsertRow(actor[a].id, actor[a].rec) /\ Enqueued(a)
       \/ HasRow(actor[a].id) /\ EnqueueFails(a) /\ UNCHANGED <<dialect, rows, poolVars>>

-----------------------------------------------------------------------------
(* API calls *)

Calls(c, op) ==
    /\ op \in Ops /\ actor[c].pc = "idle" /\ process[Home[c]] \in {"up", "stopping"}
    /\ calls < CallBound
    /\ calls' = calls + 1

NewTasks ==
    {[status |-> "pending", retries |-> 0, due |-> TRUE]} \cup
    (IF Delays THEN {[status |-> "delayed", retries |-> 0, due |-> FALSE]} ELSE {})

\* Submit: Save, then Enqueue.
SubmitSave(c, id) ==
    /\ Calls(c, "submit")
    /\ id \notin submitted
    /\ submitted' = submitted \cup {id}
    /\ \E rec \in NewTasks :
        /\ InsertRow(id, rec)
        /\ Become(c, [pc |-> "enqueue", id |-> id, rec |-> rec])
    /\ UNCHANGED <<dialect, process, faults, overruled, orphaned, dropped>>

StartGet(c, id) ==
    /\ Calls(c, "start")
    /\ rows[id].status \in Startable
    /\ Become(c, [pc |-> "enqueue", id |-> id,
                  rec |-> [status  |-> "pending",
                           retries |-> IF rows[id].status = "paused" THEN rows[id].retries ELSE 0,
                           due     |-> TRUE]])
    /\ UNCHANGED <<dialect, rows, process, submitted, faults, overruled, orphaned, dropped>>

\* Terminate of a task this process has not registered: Remove, then Get and
\* UpdateStatus when it was not queued.
Terminate(c, id) ==
    /\ Calls(c, "terminate")
    /\ CancelQueuedIn({id})
    /\ IF rows[id].status \in Queued THEN UNCHANGED actor
                                     ELSE Become(c, [At("terminateGet") EXCEPT !.id = id])
    /\ UNCHANGED <<dialect, process, submitted, faults, overruled, orphaned, dropped>>

TerminateGet(c) ==
    /\ actor[c].pc = "terminateGet" /\ Running(c)
    /\ IF rows[actor[c].id].status \in {"paused", "failed"}
       THEN GoTo(c, "terminateWrite") ELSE Become(c, At("idle"))
    /\ UNCHANGED <<dialect, rows, poolVars>>

TerminateWrite(c) ==
    /\ actor[c].pc = "terminateWrite" /\ Running(c)
    /\ UpdateStatus(actor[c].id, "cancelled")
    /\ Become(c, At("idle"))
    /\ UNCHANGED <<dialect, poolVars>>

RemoveGet(c, id) ==
    /\ Calls(c, "remove")
    /\ HasRow(id) /\ rows[id].status # "running"
    /\ Become(c, [At("deleting") EXCEPT !.id = id])
    /\ UNCHANGED <<dialect, rows, process, submitted, faults, overruled, orphaned, dropped>>

RemoveDelete(c) ==
    /\ actor[c].pc = "deleting" /\ Running(c)
    /\ DeleteRow(actor[c].id)
    /\ Become(c, At("idle"))
    /\ UNCHANGED <<dialect, poolVars>>

CancelBatch(c, b) ==
    /\ Calls(c, "cancelBatch")
    /\ CancelQueuedIn({id \in TaskId : BatchOf[id] = b})
    /\ UNCHANGED <<dialect, actor, process, submitted, faults, overruled, orphaned, dropped>>

\* Stop: the context is cancelled; the database is closed when the workers
\* have left, whoever still calls. Nothing boots a stopped process again.
PoolStop(p) ==
    /\ p \in Stopping
    /\ process[p] = "up"
    /\ process' = [process EXCEPT ![p] = "stopping"]
    /\ UNCHANGED <<dialect, rows, actor, submitted, faults, calls, overruled, orphaned, dropped>>

PoolClose(p) ==
    /\ process[p] = "stopping"
    /\ \A w \in Worker : Home[w] = p => actor[w].pc = "exited"
    /\ process' = [process EXCEPT ![p] = "stopped"]
    /\ UNCHANGED <<dialect, rows, actor, submitted, faults, calls, overruled, orphaned, dropped>>

\* A call that outlives its pool finds the database closed.
DatabaseClosed(c) ==
    /\ actor[c].pc # "idle" /\ process[Home[c]] = "stopped"
    /\ Become(c, At("idle"))
    /\ UNCHANGED <<dialect, rows, poolVars>>

-----------------------------------------------------------------------------
(* Crashes and errors *)

\* New: Init, Recover, then the workers.
Boot(p) ==
    /\ process[p] = "down"
    /\ process' = [process EXCEPT ![p] = "booted"]
    /\ RecoverRows
    /\ overruled' = overruled \cup {id \in RunningRows : \E w \in Worker : Holds(w, id)}
    /\ orphaned' = {} /\ dropped' = {}
    /\ actor' = [a \in Actor |-> IF Home[a] = p THEN At("idle") ELSE actor[a]]
    /\ UNCHANGED <<dialect, submitted, faults, calls>>

\* The program's calls of Handle, after New.
Handle(p) ==
    /\ process[p] = "booted"
    /\ process' = [process EXCEPT ![p] = "up"]
    /\ UNCHANGED <<dialect, rows, actor, submitted, faults, calls, overruled, orphaned, dropped>>

Crash(p) ==
    /\ process[p] \in {"booted", "up", "stopping"}
    /\ faults < FaultBound
    /\ faults' = faults + 1
    /\ process' = [process EXCEPT ![p] = "down"]
    /\ orphaned' = orphaned \cup {id \in TaskId : \E w \in Worker : Home[w] = p /\ Holds(w, id)}
    /\ actor' = [a \in Actor |-> IF Home[a] # p THEN actor[a]
                                 ELSE At(IF a \in Worker THEN "exited" ELSE "idle")]
    /\ UNCHANGED <<dialect, rows, submitted, calls, overruled, dropped>>

\* A statement fails and has no effect: the read that ends a claim, or the
\* UpdateStatus of a finished run (executeTask ignores its error), leave the
\* row running; an Enqueue gives up; a caller returns the error.
StatementFails(a) ==
    LET abandons == a \in Worker /\ actor[a].pc \in {"claimed", "executing", "failing"}
    IN  /\ faults < FaultBound
        /\ faults' = faults + 1
        /\ actor[a].pc \notin {"idle", "waiting", "exited"} /\ Running(a)
        /\ IF actor[a].pc \in {"enqueue", "update", "insert"}
           THEN EnqueueFails(a) ELSE Become(a, At("idle"))
        /\ dropped' = IF abandons THEN dropped \cup {actor[a].id} ELSE dropped
        /\ UNCHANGED <<dialect, rows, process, submitted, calls, overruled, orphaned>>

-----------------------------------------------------------------------------
EnqueueStep(a) == EnqueueGet(a) \/ EnqueueUpdate(a) \/ EnqueueInsert(a)

WorkerStep(w) ==
    \/ FindNothing(w) \/ Wake(w) \/ Exit(w)
    \/ \E id \in TaskId : SqliteSelect(w, id) \/ MysqlClaim(w, id)
    \/ SqliteClaim(w) \/ SqliteRead(w)
    \/ Settle(w) \/ LeaveUnrun(w) \/ Retry(w) \/ RecordFailure(w) \/ EnqueueStep(w)

ClientStep(c) ==
    EnqueueStep(c) \/ TerminateGet(c) \/ TerminateWrite(c) \/ RemoveDelete(c) \/ DatabaseClosed(c)

ClientCall(c) ==
    \/ \E id \in TaskId : SubmitSave(c, id) \/ StartGet(c, id) \/ Terminate(c, id) \/ RemoveGet(c, id)
    \/ \E b \in Batch : CancelBatch(c, b)

\* What no scheduler owes anybody.
Misfortune ==
    \/ \E p \in Process : Crash(p)
    \/ \E a \in Actor : StatementFails(a)
    \/ \E w \in Worker, id \in TaskId : MysqlCommitLost(w, id)

TimePasses(id) == BecomeDue(id) /\ UNCHANGED <<dialect, actor, poolVars>>

Next ==
    \/ \E w \in Worker : WorkerStep(w)
    \/ \E c \in Client : ClientCall(c) \/ ClientStep(c)
    \/ \E p \in Process : Boot(p) \/ Handle(p) \/ PoolStop(p) \/ PoolClose(p)
    \/ \E id \in TaskId : TimePasses(id)
    \/ Misfortune

Spec == Init /\ [][Next]_vars

\* Goroutines that can run do run, time passes, and somebody boots a process
\* that is down and registers its handlers.
Fairness ==
    /\ \A w \in Worker : WF_vars(WorkerStep(w))
    /\ \A c \in Client : WF_vars(ClientStep(c))
    /\ \A p \in Process : WF_vars(Boot(p) \/ Handle(p))
    /\ \A id \in TaskId : WF_vars(TimePasses(id))

FairSpec == Spec /\ Fairness

-----------------------------------------------------------------------------
(* Properties *)

\* Two workers, of one process or of two, have the same task only if a write
\* put its row back to pending behind the first one's back: the UPDATE of an
\* Enqueue, which does not ask for the status, or the Recover of a process
\* that boots beside a living one. The claims themselves never hand a row out
\* twice, in either dialect and however their statements interleave.
SharedOnlyIfOverruled ==
    \A id \in TaskId, v, w \in Worker :
        Holds(v, id) /\ Holds(w, id) /\ v # w => id \in overruled

\* A running row has a worker that will record its end, unless its process has
\* crashed, a statement has failed or Stop has come since: then only a booting process will
\* put it back.
RunningHasHolder ==
    \A id \in RunningRows : id \in orphaned \cup dropped \/ \E w \in Worker : Holds(w, id)

\* A submitted task that is pending or running ends, through crashes, boots,
\* and retries, unless a failed statement or a Stop keeps its row running or
\* every process is stopped.
SurvivesCrashes ==
    \A id \in TaskId :
        rows[id].status \in {"pending", "running"} ~>
            \/ rows[id].status \in SettledStatuses \cup {"none"}
            \/ id \in dropped
            \/ \A p \in Process : process[p] \in {"stopping", "stopped"}

\* A task with retries left is not marked failed: what waited for a process to
\* boot (backend.go:15, "tasks left running by the last crash are reset to
\* pending") gets its handler called. The step that marks it failed is that of a
\* worker which was started before the program could call Handle.
FailsOnlyWhenExhausted ==
    [][\A id \in TaskId :
        rows[id].status = "running" /\ rows'[id].status = "failed"
            => rows[id].retries >= MaxRetries[id]]_vars

\* A delayed task runs when its time has come ("Dequeue checks pending and
\* delayed", memory_backend.go:157; WithDelay, README): it does not stay delayed.
DelayedRuns ==
    \A id \in TaskId : rows[id].status = "delayed" /\ rows[id].due ~> rows[id].status # "delayed"
=============================================================================
