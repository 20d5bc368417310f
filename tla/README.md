# A TLA+ model of the `pool` task pool

This directory models the Go package `pool` (version 0.4.0): a pool of worker
goroutines that executes stored tasks, with an API to submit, start, stop,
terminate and remove them while they are waiting or running. It contains the
specifications, the TLC configurations that check them on small instances, and
proofs, checked by TLAPS, that hold for every instance.

## 1. Inventory

| Component | Source | State | Operations | What makes it correct |
|---|---|---|---|---|
| Task records | `task.go` | status, retries, limits, schedule, batch, data | status names, submit options | statuses follow the documented life cycle |
| Memory backend | `memory_backend.go` | `tasks` map, heap `items`, `inQueue`, `closed`, `wait` | Save, Get, Delete, Enqueue, Dequeue, Remove, UpdateStatus, UpdateProgress, CancelBatch, Close, lists | the three structures agree, the array is a heap: no accepted task is lost or queued twice |
| Engine: workers | `engine.go` 573-813 | worker loop, `handlerSemaphores`, locals of `executeTask` | dequeue, wait for a slot, register, run the handler, settle, retry, deregister | one worker per task, exact slots, every activation ends with a status |
| Engine: control | `engine.go` 211-478 | `runningCancels`, `stopSignals`, `ctx` | Submit, SubmitTask, Start, Continue, StopTask, Terminate, Cancel, Remove, DeleteTask, CancelBatch, Stop | a call acts on the task and run it names, Stop returns |
| Batch counters | `engine.go` 298-311, 817-870 | `batchCounters` | trackBatchSubmit, checkBatchCompletion | the callback comes once, when all tasks have ended |
| SQL backends | `sqlite_backend.go`, `mysql_backend.go` | one table, shared by processes | the same interface; Recover after a crash | one claim per task, nothing lost by a crash |
| Progress | `progress.go` | cache and last flush per task | SetProgress, Progress | a paused task keeps what it reported |
| Metrics | `metrics.go` | per-type counters | increments, Snapshot | no lost increment |
| Configuration | `config.go` | - | applyConfig | user values override the defaults, sequential means one worker |
| Rest | `backend.go`, `idgen.go`, `logger.go`, `errors.go`, `pool.go` | - | registry of backends, ids, logging | - |

API calls run in the callers' goroutines and reach the workers in two ways
only: through the backend (every method under `m.mu`, or one SQL statement) and
through the registry (`runningCancels` and `stopSignals` under `controlMu`).
Workers reach each other through the backend and the semaphores, processes
through the database. No lock is held across two backend calls, so every call
of more than one step can interleave with every other. The difficult behaviour:

- check-then-act in Start, Remove, Submit and Terminate, and in the SQL claim;
- the order of signal, cancel, handler return, signal check and deregistration;
- a retry that is in the queue before its run has been deregistered;
- refusals of a full or closed queue, and failed statements, inside a call;
- shutdown against semaphores, waiting tasks and late calls;
- crashes, and boots beside a living process;
- counters and caches that are updated after the lock of what they count.

`PROJECT.json` lists every hazard at its line under `hazards`, with the
properties that cover it, or the reason why none does.

## 2. Modules

| Module | Models |
|---|---|
| `TaskStatus` | the record of a task as far as control flow reads it |
| `TaskLifecycle` | abstract: the life of a task that nobody restarts or removes |
| `MemoryBackend` | the memory backend over a bag of queue items, and its specification `MemSpec` under any caller |
| `MemHeap` | the same methods over the array, each followed by the loops of `container/heap` that order it, one comparison a step; implements `MemoryBackend` |
| `TaskPool` | engine and memory backend: workers, API calls, registry, semaphores, shutdown; implements `MemSpec` and, without Start, Remove and CancelBatch, `TaskLifecycle` |
| `TaskPoolProperties` | invariants, action properties, liveness, refinements, and the promises the code breaks |
| `BatchPool` | `TaskPool` composed with the batch counters |
| `SqlBackend` | the table of the SQL backends, one operator per statement |
| `SqlPool` | pools of several processes on one table: workers, callers, boots, crashes, failed statements |
| `Progress` | SetProgress, its throttle and flush, pauses, retries, Start and crashes |
| `MCTaskPool`, `MCMemHeap`, `MCBatchPool`, `MCSqlPool`, `MCProgress` | constants for TLC |
| `MemoryBackendProofs`, `TaskPoolProofs`, `ExclusionProofs`, `LifecycleProofs`, `BatchProofs` | theorems about the backend, the pool and the batch counters, each module extending an earlier one |
| `HeapProofs` | theorems about the array heap |
| `SqlProofs`, `ProgressProofs` | theorems about the SQL pools and about progress |

Operators whose comment starts with "Mutant:" are faulty variants of the
definition that follows them. Nothing uses them; substituting one must make the
property it is paired with in `PROJECT.json` fail.

### The pool (`TaskPool`, `MemoryBackend`)

| Model | Code |
|---|---|
| `tasks[id]` | `m.tasks[id]`; status "none" means that the id is absent |
| `items[id]` | how many entries of `m.items` name id |
| `inQueue`, `closed` | the fields of the same name |
| `unqueued` | history: saved but not (yet) accepted by Enqueue, or thrown out by CancelBatch |
| `runningCancels[id]` | the worker whose current run owns the registered `cancel` |
| `stopSignals`, `sem` | the signal map; tokens in each type's channel |
| `poolDone` | `p.ctx` is cancelled |
| `worker[w]` | where the goroutine is in `workerLoop`/`executeTask`, and its locals: task id, the retries of its private clone, whether its context was cancelled by an API call, the handler's outcome, the signal it has read |
| `client[c]` | where an API call is, with the record or `cancel` function it holds |
| `due` | `ScheduledAt` is zero or has passed |

A step is what the code does under one lock or in one channel operation. Some
neighbouring operations are one step because nothing can tell them apart:
`BeginExecution` takes the slot and registers the run; `Deregister` deletes the
registry entry, cancels the context and returns the slot (delaying the return
only delays others); `SettleCompleted` and `SettleIntervened` write result or
progress and then the status, and only the status is modelled; `Dequeue` of a
parked worker includes waking up (it is also woken continuously, because
`time.After(sleepDuration)` is zero when no delayed task waits).

Worker states (`pc`): idle (before a scan), parked (the scan found nothing; the
`select` waits), claimed (dequeued, up to the registration), running
(registered; handler), returned (before the intervention check), settle (after
it), refused (the retry's Enqueue has failed), finishing (status written,
deferred calls outstanding), exited. A handler returns "ok", "err" (error,
panic, timeout, or the pool's shutdown) or "interrupted" (it returned because
StopTask or Terminate cancelled its context); it may ignore its context.

### The array heap (`MemHeap`)

Positions count from 1, so the children of i are 2i and 2i+1. An item is the id
of its task: priority and creation time never change, so `Rank` gives the place
of each task. `Items(heap)` maps the array to the bag of `MemoryBackend`.

The code calls `container/heap` from inside its methods, under `m.mu`: `Push`
from Enqueue, `Remove` from dequeue and Remove, `Init` from CancelBatch. A
method (`Method`) is one step, which writes the array and leaves the loop to
run in `sift`; each turn of a loop (`Up`, `Down`: one comparison of an item with its
parent or its smaller child) is a step too, and the next method
begins when `sift` is `Resting`, that is, when `m.mu` is free. `Delete` drops the
last position at once where the library does it after its loop, which does not
look at that position. Written this way the loops need no recursion, and what
they preserve can be proved step by step.

| Model | Code |
|---|---|
| `heap` | the ids of `m.items` |
| `sift` | which loop runs: `way` "up", "down" (of Remove, followed by up if the item has not moved) or "init"; `at`, the position of the item it moves; `from`, where down began and how far Init has come |
| `Less`, `Swap`, `Push`, `Delete`, `Filter` | `memHeapItems` and the loop of CancelBatch |

### The batch counters (`BatchPool`)

Every step of the pool is a step here, with the counters beside it: a Submit
whose Enqueue was accepted has one more step to take, `TrackSubmit`; a run that
has recorded its end takes `CountDone` and perhaps `CallBack` before its
deferred calls. Two history variables name what the counters miss: `early` has
the batches of which a run ended before all tasks were counted, `silent` the
tasks that ended where `checkBatchCompletion` is not called.

### The SQL backends (`SqlBackend`, `SqlPool`)

One SQL statement is one step (in autocommit mode each is atomic), and the
MySQL claim, being one transaction, is one step too. `dialect` chooses the
claim; everything else is the same text in both files. Workers and callers have
the same record (`actor`), because both call Enqueue. `HoldingPc` are the states
in which a worker has a row that it will settle.

| Model | Code |
|---|---|
| `rows[id]` | the row; "none" where there is none |
| `actor[a]` | where the goroutine is: selected and claimed are inside `claimNextTask`, executing is the handler or the wait for its slot, enqueue, update and insert are inside Enqueue, failing is before the UpdateStatus of a task without a handler or with a refused retry |
| `process[p]` | down, booted (New has returned, Handle has not been called), up, stopping, stopped |
| `overruled`, `orphaned`, `dropped` | histories: put back to pending behind a worker's back; the worker's process has crashed; the worker went on without recording an end |

What the engine does inside one process between two statements is the subject
of `TaskPool`; here a run ends with any status `executeTask` may choose. Times
at which a wake-up arrives are irrelevant, since workers poll anyway.

### Progress (`Progress`)

A value is the serial number of its report. `Report` is SetProgress under its
lock, `Flush` its write afterwards; between the two any other goroutine may
run. `PauseFlush` and `Pause` are the two writes of a paused run. `sql` chooses
between an Enqueue that overwrites stored progress with the caller's copy
(memory) and one that leaves the columns alone.

### Assumptions about callers

Ids are fresh (UUIDs) and a task is submitted once, as pending or delayed;
`TypeOf`, `BatchOf` and `MaxRetries` never change for a task. In `TaskPool`
handlers are registered once and before the first submission; in `SqlPool` they
are registered some time after the workers have started. Callbacks do not call
the pool. `Stop` is called once per process. A handler may report progress from
several goroutines and waits for them before it returns. In `Progress` a task
has one Start under way at a time, and backend writes succeed.

## 3. Runs

| Run | Instance | Shows |
|---|---|---|
| `AnyCalls` | 1 task of a type limited to one run, 2 workers, 2 callers, all calls, queue of 2, nothing scheduled; nothing overlaps a Start | `TypeOK`, `RegistrySound`, `ExclusiveExecution`, `CompletedIsFinal`; `IndexBacked` and `QueueCoverage` in the composed system; `MemSpec`: the engine uses the backend as its specification allows |
| `TwoTasks` | 2 tasks of one limited type, 2 workers, 2 callers, no Start or Remove, queue of 1 | `SemaphoreExact`, `InterruptedIsHonoured`, `RunningHasOwner` with a queue full enough to refuse retries; `FollowsLifecycle`: the pool implements `TaskLifecycle` |
| `Settling` | 2 tasks, one of a type limited to one run, one of an unknown type, delays, queue of 1, 1 caller stopping, terminating and shutting down, fair | `EventuallySettles`, `StopReturns` |
| `Heap` | 3 tasks of three priorities in 2 batches, queue of 3, any caller | `HeapOrdered`, `ImplementsBackend`, `FirstOfReady` |
| `Batch` | 1 batch of 2 tasks of one limited type, one of them retried, delays, 2 workers, 1 caller, fair | `CallbackAfterAll`, `CallbackOnce`, `BatchCompletes`, `BatchTypeOK` |
| `SqlStore` | 1 task of a limited type, new or waiting since the last boot, 2 processes with a worker each, one of which may be stopped, 2 calls, 2 faults, both dialects, fair | `SharedOnlyIfOverruled`, `RunningHasHolder`, `SurvivesCrashes`, `TypeOK` |
| `Progress` | 1 task, 2 reporting goroutines, 4 reports, 2 crashes, throttle, both kinds of backend | `PauseKeepsProgress`, `GoesBackOnlyTwoWays` |

Five more runs each check one sentence of the documentation or of a comment,
and TLC finds it violated; `PROJECT.json` quotes the sentence under `findings`.

| Run | Promise | What happens |
|---|---|---|
| `RetryRegistry` | a running handler is in the registry | the old run's deferred delete removes the retry's entry |
| `DoubleStart` | Start may be called repeatedly | two overlapping calls run the task twice at once |
| `CancelBatchOther` | CancelBatch concerns its batch | waiting tasks of other batches lose their queue entries |
| `SqlDelayed` | a delayed task runs when its time has come | no claim of an SQL backend looks at delayed rows |
| `SqlBoot` | a task left by a crash gets its handler called | a worker claims it before the program can call Handle, and marks it failed with retries left |

### Divergences without a run of their own

The modules contain these as well; each can be followed in the actions named.

- StopTask promises that the run ends paused (engine.go:384). A signal that
  arrives between `CheckSignal` and `Deregister` is recorded, reported as
  success, and has no effect on this run; it stays in `stopSignals` and acts on
  the next activation of the task.
- Remove promises deletion for good (engine.go:439). The `SettleRetry` of a run
  that is dequeued between `RemoveGet` and `RemoveDelete` writes the task back;
  Remove also deletes tasks that have begun to run in between.
- A smaller number is a higher priority (task.go:59). The scan of `dequeue`
  follows the array of the heap: with a delayed or stale item at the root, a
  child may be handed out before its smaller sibling. `FirstOfReady` therefore
  asks that all items are ready.
- A Start that has read the status early reopens a task that has completed
  since (engine.go:406-424); Submit's Enqueue overwrites a cancellation that
  came after its Save (267-275).
- Start of a delayed task is meant to run it now instead of later
  (engine.go:401). If its time comes between Get and Enqueue, a worker claims it
  there and Enqueue queues it again: it runs twice at once, with one caller and
  no other call under way. `AnyCalls` has no delayed tasks for this reason.
- After Stop the workers drain the waiting tasks before they look at the
  context (memory_backend.go:147-210; engine.go:314 says otherwise).
- A value that the throttle holds back is written only by a later report or a
  pause (progress.go:32); a run that just ends loses it, though config.go:53
  speaks of the last value of an interval.
- The batch callback may come before the batch has been submitted completely,
  and again later (`early`), and never if a task of the batch is cancelled
  while it waits or has its retry refused (`silent`); config.go:47 promises it
  when all tasks have ended. It cannot be disabled, because applyConfig does
  not copy `BatchCompleteCallback`; `OnError` is copied and never read.
- The retry of the memory backend stores the worker's clone, so progress and
  metadata written during the run are lost (engine.go:756, memory_backend.go:107).
- On an SQL backend, the UPDATE of Enqueue and the Recover of a process that
  boots beside a living one put a running row back to pending (`overruled`);
  the task then runs twice.

These decide what the passing properties can say: where one needs callers that
do not overlap a Start, or exempts `overruled` or `early`, it says so.

### Bounds

Two workers are the smallest number for every race between activations, two
callers for every race between calls; one task is enough for the properties of
a single task, two for those of a semaphore and the queue limit, three for a
heap with two children (only the move up inside `Delete` needs more, six, to
change anything). One retry (`MaxRetries`, `RetryBound` 1) reaches first
failure, retry and final failure. A queue of 1 makes refusals frequent; a queue
of 2 is needed for Enqueue of an id that is already queued, and for two items
of one id. In `SqlStore` the statements of different tasks touch
different rows and its properties are about one task, so one is enough;
`FaultBound` and `CallBound` allow two faults and two calls. Together with the
boots of both processes this reaches a claim that is overruled by a Recover, a
Save that is claimed before its Enqueue, a retry whose row is removed between
Get and UPDATE, a lost Commit followed by a crash, and a crash in each state of
a worker. `CallbackBound` caps the count of
callbacks at two, enough to see a second one. `ReportBound` 4 lets two reports
overtake each other in two runs; `CrashBound` 2 lets one crash follow another.

State spaces are finite without further constraints: ids are not reused,
`items` is bounded by the capacity, `retries` by the limit. Workers and callers,
or reporters, are symmetric in the safety runs; the liveness runs use no
symmetry.

### Fairness

Weak fairness on each worker's step, on each started call, and on the arrival
of a scheduled time. The Go scheduler runs every runnable goroutine, and
handlers are assumed to return (the pool cannot guarantee more: its
cancellation is cooperative). No call is ever obliged to begin. Weak fairness
of a worker blocked at a semaphore is enough in the instances checked: the
worker in front of it leaves "finishing" and, with the other worker waiting for
the slot, returns to the queue only for retries, of which there are finitely
many. Go serves the senders of a channel in the order in which they wait, so
the code gives more than is assumed here.

`SqlPool` adds that somebody boots a process that is down and that its program
goes on to call Handle (`Boot`, `Handle`); nobody owes crashes, failed
statements or calls. `BatchPool` asks the same of its steps as `TaskPool`.

Deadlock is checked in every run. In the pool, `Quiescent` is the only step of a
state whose workers all wait at an empty queue or have exited and whose calls
are over; any other state without a step is an error. The other modules always
have a step: workers of `SqlPool` poll, and a stopped pool leaves the other
process running.

## 4. Proofs

All theorems are for arbitrary sets of tasks, workers, callers, processes and
reporters, for arrays of any length, and use the named assumptions on the
constants only. Slots and batches are counted, so the former need finitely many workers
(`WorkerAssumption`) and the latter finitely many ids (`TaskIdAssumption`; an id
is a UUID of 128 bits).

Backend and array:

- `BackendConsistent`: `MemSpec => []MemInv`. `QueueCoverage` is not inductive
  alone: Enqueue of an id that `inQueue` names pushes nothing, so the index must
  be known to be backed by an item (`IndexBacked`). `MemInv` is the conjunction
  with the types.
- `ArrayIsHeap`: `HeapInv` says what is in order while a loop runs. During up,
  every item but the moving one is not smaller than its parent, and the children
  of the moving one are not smaller than its parent either (`UpOrdered`); without
  the second part the exchange with the parent could spoil a child. During down
  the same holds with parent and children exchanged, from position `low` on
  (`DownOrdered`): 1 for Remove, and for Init the position it has reached. An
  item put in the place of a removed one may also be smaller than its
  parent until it has moved down; that is why Remove goes on with up.
- `TasksInOrder`: at rest nothing in the array is smaller than its front. This
  would be an induction along the path to the front. The proof takes the least
  position with a smaller item instead (`WFMin` of the library): its parent is a
  smaller position with a smaller item.
- `ArrayImplementsBag`: Items(heap) is a refinement mapping. Every method is the
  method of `MemoryBackend` of the same name, and the loops change nothing in
  the bag. The lemmas count: an exchange keeps the number of each id, Push adds
  one, Delete takes one, the filter takes all items of a task or none, and the
  numbers of all ids add up to the length of the array (`ItemsAddUp`), which is
  what Enqueue compares with the capacity. So `BackendConsistent` speaks of the
  array too.

Pool:

- `TypeCorrect`, `PoolUsesBackend`, `NoTaskIsLost`, `IndexIsBacked`: `IInv` is `MemInv` with the
  engine's types and `LocalsOK` (a worker or call in the middle of something
  has a task; what a call is about to enqueue is pending or delayed). With
  `LocalsOK` every engine step is a step of `MemSpec` (`StepIsBackendStep`), so
  the backend's invariant carries over instead of being proved again.
- `RegistryIsSound`: an entry names a worker that is executing that task. Only
  `BeginExecution` makes one, and only `Deregister` ends an execution.
- `SlotsAreExact`: inductive as it stands. A run begins in the step that puts its
  token into the channel, ends in the step that takes it out, and keeps its task.
- `RunningIsOwned`: only Dequeue writes "running"; a holder gives up only by
  writing another status, or by abandoning the wait for a semaphore at shutdown.
- `OneWorkerPerTask`: the right to execute a task is a token, held by
  the Submit call about to enqueue it, by its heap item, or by the worker that
  has dequeued it. `TokenInv` says there is at most one token per task, and what
  each status says about it: a paused, failed or cancelled task has no token but
  perhaps an item that Enqueue will find in the index. The theorem is about callers that are
  `Disciplined`: nobody calls Start, or nothing overlaps a Start and nothing is
  scheduled. Without either it is false (`DoubleStart`, and the divergence about
  delayed tasks above).
- `CompletedStaysCompleted` (same callers): whoever is about to write a status,
  a retry, a Terminate or a Start, holds the token, or has read a status that
  still stands; a completed task has no token.
- `InterruptsAreHonoured` (same callers): `InterruptInv` says that while a handler
  runs or has just returned, a cancelled context, or a caller still holding its
  `cancel`, implies a recorded signal. This needs `TokenInv`: a second worker on
  the same task would consume the signal.
- `PoolFollowsLifecycle` (`OnlyForward`: submit, stop, terminate and shutdown only): every step
  maps to a step of `TaskLifecycle` or a stutter. The invariant ties each
  worker's clone to the stored record (a run that is not yet settled belongs to
  a running task with the retries of its clone) and each Terminate in progress
  to a task that can no longer be queued.

Batches:

- `CountersOnlyObserve`: every step of `BatchPool` is a step of `TaskPool` or a
  stutter, so every theorem about the pool holds of it.
- `BatchTypesHold`, `CallbackComesAfterAll`, `CallbackComesOnce` (`OnlyForward`; a
  task that is started or removed after it has been counted is counted again, or
  not at all): `TrackInv` says that each task is counted in `total` at most once,
  `CheckInv` that a task is on at most one worker's way to `batchMu`, and
  `DoneInv` that `done` is never more than the number of tasks that have ended
  and are not on such a way. That an ended task never runs again comes from
  `PoolFollowsLifecycle`. A worker that finds nothing left has therefore counted
  the last task, and no other can find that after it.

SQL and progress:

- `SqlTypeCorrect`, `ClaimsAreExclusive`, `RunningRowsAreHeld`: the invariant
  says that a worker holding a row that nobody overruled finds it running, and
  is the only one to hold it. A claim requires status 0 at the moment of its
  UPDATE, so the SELECT before it proves nothing and is not needed.
- `PausesKeepProgress`, `ProgressGoesBackOnlyTwoWays`: a value under way belongs
  to a handler that has not returned and is at most the cached one
  (`FlushesAreLive`); the store is at most the cache while there is one and is
  the cache when a pause is recorded (`StoreFollows`).

Every invariant and action property that a passing run checks is a theorem. The
runs `AnyCalls`, `TwoTasks` and `Batch` satisfy the hypotheses of the theorems
about their properties. Model-checked only: the liveness properties
(`EventuallySettles`, `StopReturns`, `BatchCompletes`, `SurvivesCrashes`), which
need fairness and ENABLED; and that `container/heap` ends its loops, which no
property asks for and the positions of `Up` and `Down` show.

## 5. What is not modelled

- Metrics: counters that nothing reads back. The increments read a map outside
  the lock under which others insert into it (metrics.go:42), a data race that
  the Go runtime treats as fatal; it needs no model to be seen.
- Configuration: a merge of two records without state.
- A second `Stop` (it panics on the closed channel) and a second `Handle` of a
  type (it replaces a semaphore that runs hold).
- `UpdateResult`, `UpdateMetadata`, payloads and error texts are data; list and
  statistics calls read and change nothing. `dequeue` of the memory backend
  clones after it has unlocked; no field that control flow reads is written in
  place, so the race is about data.
- How SQLite compares times: as RFC 3339 text in the local zone, whose fraction
  has no fixed length. `Claimable` says "has passed" and leaves it there.
- `Recover` of the memory backend, which finds an empty map; the wake-up
  channels, because every wait also ends by itself.
- The logger, the ids, the error values and the registry of backends have no
  behaviour to model.

## 6. Plan

Built, in this order: `TaskStatus`, `MemoryBackend`, `TaskPool` and its
properties; `SqlBackend` and `SqlPool`; `TaskLifecycle`; `MemHeap`; `BatchPool`;
`Progress`; each with its runs, and with its theorems where the prover reaches.
What is left:

1. `PoolFollowsLifecycle` with Start: `TaskLifecycle` would get the arrows back
   from paused, failed and cancelled, for disciplined callers; the batch
   theorems cannot follow, because a task started again is counted again.
2. Semaphores as objects, so that a second `Handle` can be modelled; a second
   `Stop`.
