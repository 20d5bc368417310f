------------------------- MODULE TaskPoolProperties -------------------------
(***************************************************************************)
(* What the engine should guarantee, and what its documentation says it    *)
(* does.  The README tells under which calls each property is checked.     *)
(***************************************************************************)
EXTENDS TaskPool

\* The worker owns an activation of id: it has claimed the task and has not
\* yet written how the activation ended.
Holds(w, id) ==
    /\ worker[w].id = id
    /\ worker[w].pc \in {"claimed", "running", "returned", "settle", "refused"}

InHandler(w, id) == worker[w].id = id /\ worker[w].pc = "running" /\ TypeOf[id] \in Handled

\* A worker or a call that is in the middle of something has a task, and what
\* a call is about to enqueue is pending or delayed.
LocalsOK ==
    /\ \A w \in Worker :
        worker[w].pc \notin {"idle", "parked", "exited"} => worker[w].id \in TaskId
    /\ \A c \in Client :
        /\ client[c].pc \notin {"idle", "stopping"} => client[c].id \in TaskId
        /\ client[c].pc \in {"submitting", "starting"} => client[c].rec.status \in Queued

-----------------------------------------------------------------------------
(* Invariants *)

\* A cancel() in the registry belongs to a run of that very task which has not
\* been torn down: StopTask and Terminate never report success for, nor
\* cancel, a run that is over or that executes another task.
RegistrySound ==
    \A id \in TaskId : runningCancels[id] # None =>
        Executing(runningCancels[id]) /\ worker[runningCancels[id]].id = id

\* The slots taken in a type's semaphore are those of the runs in progress,
\* through every early return of executeTask: none leaks, none is given back
\* twice, and the limit of WithConcurrency holds for the handlers.
SemaphoreExact ==
    \A t \in Type : LET runs == {w \in Worker : Executing(w) /\ TypeAt(w) = t}
                    IN  /\ Limit[t] > 0 => sem[t] = Cardinality(runs)
                        /\ Limit[t] > 0 => Cardinality(runs) <= Limit[t]

\* A task recorded as running is owned by a worker that will record its end:
\* no path of executeTask forgets to. Start, StopTask and Remove all refuse a
\* task that is stuck in this status. Only a shutdown that interrupts the wait
\* for a semaphore leaves one behind.
RunningHasOwner ==
    \A id \in TaskId : tasks[id].status = "running" =>
        \/ \E w \in Worker : Holds(w, id)
        \/ poolDone /\ Limit[TypeOf[id]] > 0

\* No task is executed by two workers at once.
ExclusiveExecution ==
    \A id \in TaskId, v, w \in Worker : Holds(v, id) /\ Holds(w, id) => v = w

\* A handler that returned because StopTask or Terminate cancelled its context
\* is settled with the status they asked for, and is neither retried nor
\* failed: the signal is recorded before cancel() and read after the return.
InterruptedIsHonoured ==
    \A w \in Worker : worker[w].pc = "settle" /\ worker[w].outcome = "interrupted" =>
        worker[w].desired # "none"

-----------------------------------------------------------------------------
(* Action properties *)

\* A completed task is immutable: it can only be removed.
CompletedIsFinal ==
    [][\A id \in TaskId : tasks[id].status = "completed" =>
            tasks'[id].status \in {"completed", "none"}]_vars

-----------------------------------------------------------------------------
(* The life cycle *)

\* A task exists for its users from the moment Enqueue has accepted it: until
\* then Submit has not returned, and may still fail.
VisibleStatus == [id \in TaskId |-> IF id \in unqueued THEN "none" ELSE tasks[id].status]
VisibleRetries == [id \in TaskId |-> IF id \in unqueued THEN 0 ELSE tasks[id].retries]

Lifecycle == INSTANCE TaskLifecycle WITH status <- VisibleStatus, retries <- VisibleRetries

\* Without Start, Remove and CancelBatch, the pool implements the life cycle:
\* every interleaving of workers and calls is, for each task, one walk through
\* the documented statuses, taken by one run at a time, with each retry counted.
FollowsLifecycle == Lifecycle!Spec

-----------------------------------------------------------------------------
(* Liveness *)

Settled(id) == tasks[id].status \in SettledStatuses \cup {"none"}

\* Every task a worker has taken, or that Submit has put into the queue, ends,
\* unless the pool is stopped before: its retries are exhausted at the latest,
\* also behind a full semaphore and whatever StopTask and Terminate do meanwhile.
EventuallySettles ==
    \A id \in TaskId : (IsQueued(id) /\ items[id] > 0) \/ tasks[id].status = "running" ~>
        Settled(id) \/ poolDone

\* Stop returns: every worker leaves its loop and the backend is closed.
StopReturns == poolDone ~> closed

-----------------------------------------------------------------------------
(* What the documentation promises and the code does not keep *)

\* While a handler runs, StopTask and Terminate find its cancel(): it is
\* registered when the run starts and leaves when that run ends (engine.go:64,
\* design document 4.1).
RunningIsStoppable ==
    \A id \in TaskId, w \in Worker : InHandler(w, id) => runningCancels[id] # None

\* CancelBatch concerns the waiting tasks of the given batch (engine.go:463):
\* the queue entries of other batches stay.
CancelBatchIsLocal ==
    [][\A c \in Client, b \in Batch : CancelBatch(c, b) =>
        \A id \in TaskId : BatchOf[id] # b /\ IsQueued(id) => items'[id] = items[id]]_vars
=============================================================================
