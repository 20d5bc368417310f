--------------------------- MODULE MemoryBackend ---------------------------
(***************************************************************************)
(* The in-memory backend (memory_backend.go): a map of tasks and a heap of *)
(* queue items that name them.  Every exported method runs under m.mu, so  *)
(* one method is one action.  The two structures are only loosely tied: an *)
(* item does not own its task, Delete leaves the item behind, and Enqueue  *)
(* trusts the inQueue index instead of looking into the heap.              *)
(*                                                                         *)
(* The heap is a bag of ids: which of the ready tasks Dequeue hands out is *)
(* left open, because the scan of dequeue follows the array order of the   *)
(* heap and not the priorities.                                            *)
(***************************************************************************)
EXTENDS Integers, FiniteSets, TaskStatus

CONSTANTS
    TaskId,     \* task ids
    Batch,      \* batch ids
    BatchOf,    \* the batch each task was submitted with
    QueueCap    \* m.cap, MaxQueueSize

ASSUME BatchOfAssumption == BatchOf \in [TaskId -> Batch]
ASSUME QueueCapAssumption == QueueCap \in Nat \ {0}

VARIABLES
    tasks,      \* m.tasks: the stored record of every id
    items,      \* m.items: how many heap items name each id
    inQueue,    \* m.inQueue: ids believed to be in the heap
    closed,     \* m.closed
    unqueued    \* history: stored ids whose record no Enqueue has accepted
                \* since it was saved, or whose item CancelBatch discarded

memVars == <<tasks, items, inQueue, closed, unqueued>>

MemTypeOK ==
    /\ tasks \in [TaskId -> TaskRecord]
    /\ items \in [TaskId -> Nat]
    /\ inQueue \in SUBSET TaskId
    /\ closed \in BOOLEAN
    /\ unqueued \in SUBSET TaskId

MemInit ==
    /\ tasks = [id \in TaskId |-> NoTask]
    /\ items = [id \in TaskId |-> 0]
    /\ inQueue = {}
    /\ closed = FALSE
    /\ unqueued = {}

Stored(id) == tasks[id].status # "none"

IsQueued(id) == tasks[id].status \in Queued

\* The items one by one: the first, second, ... of every id.
Entries == UNION {{id} \X (1 .. items[id]) : id \in TaskId}

\* len(m.items)
QueueLen == Cardinality(Entries)

\* What the scan of dequeue looks for: a heap item whose task is still
\* there, still pending or delayed, and due.
Ready(id) == items[id] > 0 /\ IsQueued(id) /\ tasks[id].due

AnyReady == \E id \in TaskId : Ready(id)

-----------------------------------------------------------------------------
MemSave(id, rec) ==
    /\ tasks' = [tasks EXCEPT ![id] = rec]
    /\ unqueued' = unqueued \cup {id}
    /\ UNCHANGED <<items, inQueue, closed>>

\* Enqueue answers ErrQueueClosed or ErrQueueFull and changes nothing
\* exactly when this is false.
MemAccepts == ~closed /\ QueueLen < QueueCap

MemEnqueue(id, rec) ==
    /\ MemAccepts
    /\ tasks' = [tasks EXCEPT ![id] = rec]
    /\ items' = IF id \in inQueue THEN items ELSE [items EXCEPT ![id] = @ + 1]
    /\ inQueue' = inQueue \cup {id}
    /\ unqueued' = unqueued \ {id}
    /\ UNCHANGED closed

\* Mutant: the id stays in the index when its item leaves the heap.
MemDequeueKeepsIndex(id) ==
    /\ Ready(id)
    /\ tasks' = [tasks EXCEPT ![id].status = "running"]
    /\ items' = [items EXCEPT ![id] = @ - 1]
    /\ UNCHANGED <<inQueue, closed, unqueued>>

MemDequeue(id) ==
    /\ Ready(id)
    /\ tasks' = [tasks EXCEPT ![id].status = "running"]
    /\ items' = [items EXCEPT ![id] = @ - 1]
    /\ inQueue' = inQueue \ {id}
    /\ UNCHANGED <<closed, unqueued>>

\* Remove gives up with FALSE, changing nothing, unless the task is queued.
MemRemove(id) ==
    /\ IsQueued(id)
    /\ tasks' = [tasks EXCEPT ![id].status = "cancelled"]
    /\ items' = [items EXCEPT ![id] = IF @ > 0 THEN @ - 1 ELSE 0]
    /\ inQueue' = inQueue \ {id}
    /\ UNCHANGED <<closed, unqueued>>

\* Delete forgets the task and its index entry but not its heap item.
MemDelete(id) ==
    /\ tasks' = [tasks EXCEPT ![id] = NoTask]
    /\ inQueue' = inQueue \ {id}
    /\ UNCHANGED <<items, closed, unqueued>>

\* ErrTaskNotFound when the task is gone; every caller ignores the error.
MemUpdateStatus(id, status) ==
    /\ tasks' = IF Stored(id) THEN [tasks EXCEPT ![id].status = status] ELSE tasks
    /\ UNCHANGED <<items, inQueue, closed, unqueued>>

\* The clean-up loop skips (`continue`) the items of queued tasks and keeps
\* the others, so it discards what it should keep, whatever the batch.
MemCancelBatch(b) ==
    LET cancelled == {id \in TaskId : BatchOf[id] = b /\ IsQueued(id)}
        dropped   == {id \in TaskId : ~Stored(id) \/ (IsQueued(id) /\ id \notin cancelled)}
    IN  /\ tasks' = [id \in TaskId |->
                        IF id \in cancelled THEN [tasks[id] EXCEPT !.status = "cancelled"]
                                            ELSE tasks[id]]
        /\ items' = [id \in TaskId |-> IF id \in dropped THEN 0 ELSE items[id]]
        /\ inQueue' = {id \in TaskId : id \notin dropped /\ items[id] > 0}
        /\ unqueued' = unqueued \cup {id \in dropped : IsQueued(id)}
        /\ UNCHANGED closed

MemClose ==
    /\ closed' = TRUE
    /\ UNCHANGED <<tasks, items, inQueue, unqueued>>

\* Time reaches ScheduledAt.
MemBecomeDue(id) ==
    /\ tasks[id].status = "delayed" /\ ~tasks[id].due
    /\ tasks' = [tasks EXCEPT ![id].due = TRUE]
    /\ UNCHANGED <<items, inQueue, closed, unqueued>>

-----------------------------------------------------------------------------
(***************************************************************************)
(* The backend by itself, under any caller that respects its contract:     *)
(* only Save and Enqueue make a task pending or delayed, and the statuses  *)
(* handed to UpdateStatus are the settled ones.                            *)
(***************************************************************************)
QueuedRecord == [status : Queued, retries : 0 .. RetryBound, due : BOOLEAN]

\* Every method but Dequeue.
MemWrite ==
    \/ \E id \in TaskId, rec \in QueuedRecord : MemSave(id, rec) \/ MemEnqueue(id, rec)
    \/ \E id \in TaskId : MemRemove(id) \/ MemDelete(id) \/ MemBecomeDue(id)
    \/ \E id \in TaskId, status \in SettledStatuses : MemUpdateStatus(id, status)
    \/ \E b \in Batch : MemCancelBatch(b)
    \/ MemClose

MemNext == MemWrite \/ \E id \in TaskId : MemDequeue(id)

MemSpec == MemInit /\ [][MemNext]_memVars

-----------------------------------------------------------------------------
\* The index never claims an item that is not there: otherwise Enqueue would
\* skip the push and the task would wait forever.
IndexBacked == \A id \in inQueue : items[id] > 0

\* A stored task that waits for execution is named by a heap item, unless no
\* Enqueue has accepted it yet or CancelBatch threw its item away: a worker
\* can find every task that the pool has promised to run.
QueueCoverage ==
    \A id \in TaskId : IsQueued(id) => items[id] > 0 \/ id \in unqueued
=============================================================================
