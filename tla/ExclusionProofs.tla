-------------------------- MODULE ExclusionProofs --------------------------
(***************************************************************************)
(* No task is executed by two workers at once, for any number of workers,  *)
(* clients and tasks, if either nobody calls Start (or Continue), or       *)
(* nothing overlaps a Start and nothing is scheduled.                      *)
(*                                                                         *)
(* The argument counts tokens.  A task's right to be executed is held by   *)
(* the Submit call that is about to enqueue it, by its heap item, or by    *)
(* the worker that has dequeued it.  Submit creates the first token, the   *)
(* steps SubmitEnqueue, Dequeue and SettleRetry hand it on, and Start may  *)
(* make a new one because the status it has read shows that there is none: *)
(* a paused, failed or cancelled task has at most an item that Enqueue     *)
(* will find in the index.  That takes the status to be still the same     *)
(* when Start enqueues.  Another call may change it, and so may a worker   *)
(* if the task is delayed and its time comes.                              *)
(***************************************************************************)
EXTENDS TaskPoolProofs

Disciplined == "start" \notin Ops \/ (StartAlone /\ ~Delays)

Submitting(c, id) == client[c].pc = "submitting" /\ client[c].id = id
Starting(c, id) == client[c].pc = "starting" /\ client[c].id = id
Cancelling(c, id) == client[c].pc = "terminateWrite" /\ client[c].id = id

\* Neither a worker nor a Submit call has the token.
Free(id) ==
    /\ \A w \in Worker : ~Holds(w, id)
    /\ \A c \in Client : ~Submitting(c, id)

\* There is at most one token.
CountInv ==
    \A id \in TaskId :
        /\ items[id] \in {0, 1}
        /\ items[id] = 1 => Free(id)
        /\ \A v, w \in Worker : Holds(v, id) /\ Holds(w, id) => v = w
        /\ \A c, d \in Client : Submitting(c, id) /\ Submitting(d, id) => c = d
        /\ \A w \in Worker, c \in Client : ~(Holds(w, id) /\ Submitting(c, id))
        /\ id \notin submitted => items[id] = 0 /\ Free(id)

\* What a status says about the tokens, and what a call that is about to write
\* can rely on.  A task is "none" to whoever has it when Remove has deleted it.
Reads(id) ==
    /\ id \notin submitted => ~Stored(id)
    /\ items[id] = 1 => /\ tasks[id].status \in Queued \cup {"cancelled", "none"}
                        /\ Stored(id) => id \in inQueue
    /\ \A w \in Worker : Holds(w, id) => tasks[id].status \in {"running", "none"}
    /\ \A c \in Client : Submitting(c, id) => tasks[id].status \in Queued \cup {"cancelled", "none"}
    /\ \A c \in Client : Starting(c, id) => tasks[id].status \in {"paused", "failed", "cancelled"}
    /\ \A c \in Client : Cancelling(c, id) =>
        /\ tasks[id].status \in {"paused", "failed", "cancelled", "none"}
        /\ items[id] = 0 /\ Free(id) /\ id \in submitted

\* Callers are disciplined: see Disciplined.
Discipline ==
    /\ \A c, d \in Client : client[c].pc = "starting" =>
        "start" \in Ops /\ (c # d => client[d].pc = "idle")
    /\ "start" \in Ops => /\ \A id \in TaskId : tasks[id].status # "delayed"
                          /\ \A c \in Client : client[c].rec.status # "delayed"

TokenInv == CountInv /\ Discipline /\ \A id \in TaskId : Reads(id)

\* No token appears anywhere.
NoNewToken ==
    /\ \A id \in TaskId : items'[id] <= items[id] /\ items'[id] \in Nat
    /\ \A id \in TaskId, w \in Worker : Holds(w, id)' => Holds(w, id)
    /\ \A id \in TaskId, c \in Client : Submitting(c, id)' => Submitting(c, id)
    /\ submitted \subseteq submitted'

\* A step after which no task has more tokens than before keeps the invariant.
LEMMA NoNewTokenKeeps ==
  ASSUME CountInv, NoNewToken
  PROVE  CountInv'
  BY DEF CountInv, Free, NoNewToken

\* The backend methods that never put an item into the heap.
MemShrink == \A id \in TaskId : items'[id] <= items[id] /\ items'[id] \in Nat

\* One token of a task may go, or turn into another of the same task.
LEMMA Shrinks ==
  ASSUME MemInv, NEW id \in TaskId
  PROVE  /\ MemDequeue(id) => MemShrink
         /\ MemRemove(id) => MemShrink
         /\ MemDelete(id) => MemShrink
         /\ \A status : MemUpdateStatus(id, status) => MemShrink
         /\ \A b : MemCancelBatch(b) => MemShrink
         /\ MemClose => MemShrink
         /\ MemBecomeDue(id) => MemShrink
         /\ UNCHANGED memVars => MemShrink
  BY DEF MemInv, MemTypeOK, MemShrink, MemDequeue, Ready, MemRemove, MemDelete, MemUpdateStatus,
         MemCancelBatch, MemClose, MemBecomeDue, memVars

\* A worker that does not dequeue gains no task.
LEMMA WorkerGainsNothing ==
  ASSUME IInv, NEW w \in Worker, WorkerStep(w), ~ \E id \in TaskId : Dequeue(w, id)
  PROVE  \A id \in TaskId, v \in Worker : Holds(v, id)' => Holds(v, id)
<1> USE DEF Holds, IInv, EngineTypeOK, GoTo, WorkerState
<1>1. CASE Park(w) \/ Exit(w) \/ BeginExecution(w) \/ Abandon(w) \/ UnknownType(w) \/ Deregister(w)
  BY <1>1 DEF Park, Exit, BeginExecution, Abandon, UnknownType, Deregister, FreshWorker
<1>2. CASE HandlerReturn(w)
  BY <1>2 DEF HandlerReturn
<1>3. CASE CheckSignal(w)
  BY <1>3 DEF CheckSignal
<1>4. CASE Settle(w)
  BY <1>4 DEF Settle, SettleIntervened, SettleCompleted, SettleRetry, SettleRetryRefused,
              FailRefusedRetry, SettleFailed, Failing
<1> QED
  BY <1>1, <1>2, <1>3, <1>4, WorkerStep(w) DEF WorkerStep

\* A step of a worker leaves the Submit calls alone.
LEMMA WorkerKeepsCalls ==
  ASSUME IInv, NEW w \in Worker, WorkerStep(w)
  PROVE  /\ \A c \in Client : client'[c].pc = client[c].pc /\ client'[c].id = client[c].id
         /\ UNCHANGED submitted
<1>1. CASE Deregister(w)
  BY <1>1 DEF Deregister, IInv, EngineTypeOK, ClientState
<1>2. CASE ~Deregister(w)
  BY <1>2, WorkerStep(w)
  DEF WorkerStep, Park, Exit, Dequeue, BeginExecution, Abandon, UnknownType, HandlerReturn,
      CheckSignal, Settle, SettleIntervened, SettleCompleted, SettleRetry, SettleRetryRefused,
      FailRefusedRetry, SettleFailed
<1> QED
  BY <1>1, <1>2

\* A worker's step hands the token of its task on: the item becomes a claim,
\* and the claim ends or becomes the item of the retry.
LEMMA WorkerTokens ==
  ASSUME IInv, CountInv, NEW w \in Worker, WorkerStep(w)
  PROVE  CountInv'
<1> USE DEF IInv
<1>1. ASSUME NEW id \in TaskId, Dequeue(w, id)
      PROVE  CountInv'
  <2>1. items[id] = 1 /\ items' = [items EXCEPT ![id] = 0]
    <3>1. items[id] = 1
      BY <1>1 DEF Dequeue, MemDequeue, Ready, CountInv
    <3>2. items' = [items EXCEPT ![id] = items[id] - 1]
      BY <1>1 DEF Dequeue, MemDequeue
    <3> QED
      BY <3>1, <3>2
  <2>2. /\ \A v \in Worker, i \in TaskId : Holds(v, i)' <=> Holds(v, i) \/ (v = w /\ i = id)
        /\ UNCHANGED <<client, submitted>>
    BY <1>1 DEF Dequeue, Holds, EngineTypeOK
  <2> QED
    <3>1. ASSUME NEW v \in Worker PROVE ~Holds(v, id)
      BY <2>1 DEF CountInv, Free
    <3>2. ASSUME NEW c \in Client PROVE ~Submitting(c, id)
      BY <2>1 DEF CountInv, Free
    <3>3. id \in submitted
      BY <2>1 DEF CountInv, Free
    <3>4. items' \in [TaskId -> Nat] /\ items'[id] = 0 /\ \A i \in TaskId \ {id} : items'[i] = items[i]
      BY <2>1 DEF MemInv, MemTypeOK
    <3> QED
      BY <2>2, <3>1, <3>2, <3>3, <3>4 DEF CountInv, Free, Submitting
<1>2. CASE SettleRetry(w)
  <2> DEFINE id == worker[w].id
  <2>1. id \in TaskId /\ Holds(w, id)
    BY <1>2 DEF SettleRetry, Failing, Holds, LocalsOK
  <2>2. \A v \in Worker, i \in TaskId : Holds(v, i)' <=> Holds(v, i) /\ v # w
    BY <1>2 DEF SettleRetry, Failing, Holds, GoTo, EngineTypeOK, WorkerState
  <2>3. items[id] = 0 /\ id \notin inQueue /\ id \in submitted
    BY <2>1 DEF CountInv, Free, MemInv, IndexBacked
  <2>4. items' = [items EXCEPT ![id] = 1] /\ UNCHANGED <<client, submitted>>
    BY <1>2, <2>3 DEF SettleRetry, MemEnqueue
  <2> HIDE DEF id
  <2> QED
    BY <2>1, <2>2, <2>3, <2>4 DEF CountInv, Free, Submitting, MemInv, MemTypeOK
<1>3. ASSUME ~ \E id \in TaskId : Dequeue(w, id), ~SettleRetry(w)
      PROVE  NoNewToken
  <2>1. MemShrink
    <3>1. CASE UNCHANGED memVars
      BY <3>1 DEF MemShrink, MemInv, MemTypeOK, memVars
    <3>2. ASSUME NEW status, MemUpdateStatus(worker[w].id, status)
          PROVE  MemShrink
      BY <3>2 DEF MemUpdateStatus, MemShrink, MemInv, MemTypeOK
    <3> QED
      BY <1>3, <3>1, <3>2, WorkerStep(w)
      DEF WorkerStep, Park, Exit, BeginExecution, Abandon, UnknownType, HandlerReturn,
          CheckSignal, Settle, SettleIntervened, SettleCompleted, SettleRetryRefused,
          FailRefusedRetry, SettleFailed, Deregister
  <2> QED
    BY <1>3, <2>1, WorkerGainsNothing, WorkerKeepsCalls
    DEF NoNewToken, MemShrink, Submitting
<1> QED
  BY <1>1, <1>2, <1>3, NoNewTokenKeeps

\* What a call may have come to after its step: it has returned, or goes on
\* where only one step of it leads.
ClientMoves(c) ==
    /\ \A d \in Client \ {c} : client'[d] = client[d]
    /\ \/ UNCHANGED client
       \/ client'[c].pc \in {"idle", "cancelling", "terminating", "terminateGet", "removing",
                            "stopping"}
       \/ client'[c].pc = "submitting" /\ \E id \in TaskId : SubmitSave(c, id) /\ client'[c].id = id
       \/ client'[c].pc = "starting" /\ \E id \in TaskId : StartGet(c, id) /\ client'[c].id = id
       \/ client'[c].pc = "terminateWrite" /\ TerminateGet(c) /\ client'[c].id = client[c].id
    /\ \/ client'[c].rec \in {client[c].rec, NoTask} \cup NewTasks
       \/ client'[c].rec.status = "pending"

LEMMA CallRecords ==
  ASSUME EngineTypeOK, NEW c \in Client, ClientCall(c) \/ ClientStep(c)
  PROVE  ClientMoves(c)
<1> USE DEF EngineTypeOK, ClientMoves
<1>1. ASSUME Return(c)
      PROVE  ClientMoves(c)
  BY <1>1 DEF Return, IdleClient
<1>2. ASSUME NEW pc \in {"terminating", "terminateGet", "removing", "stopping"}, NEW id,
             Proceed(c, pc, id)
      PROVE  ClientMoves(c)
  BY <1>2 DEF Proceed, ClientState
<1>3. ASSUME NEW id, NEW status, Signal(c, id, status)
      PROVE  ClientMoves(c)
  BY <1>3 DEF Signal, IdleClient
<1>4. ASSUME NEW id \in TaskId, SubmitSave(c, id)
      PROVE  ClientMoves(c)
  BY <1>4 DEF SubmitSave, IdleClient
<1>5. ASSUME NEW id \in TaskId, StartGet(c, id)
      PROVE  ClientMoves(c)
  BY <1>5 DEF StartGet, IdleClient
<1>6. CASE TerminateGet(c)
  <2>1. CASE Proceed(c, "terminateWrite", client[c].id)
    BY <1>6, <2>1 DEF Proceed, ClientState
  <2> QED
    BY <1>1, <1>6, <2>1 DEF TerminateGet
<1>7. CASE \E b \in Batch : CancelBatch(c, b)
  BY <1>7 DEF CancelBatch
<1>8. CASE ClientCall(c)
  BY <1>2, <1>3, <1>4, <1>5, <1>7, <1>8
  DEF ClientCall, StopTask, TerminateRunning, TerminateUnregistered, RemoveGet, PoolStop
<1>9. CASE ClientStep(c)
  BY <1>1, <1>2, <1>6, <1>9
  DEF ClientStep, SubmitEnqueue, StartEnqueue, EnqueueRefused, SendCancel, TerminateQueued,
      TerminateNotQueued, TerminateWrite, RemoveDelete, PoolClose
<1> QED
  BY <1>8, <1>9

\* Two calls make a token: Submit of a fresh id, and Start of a task that has
\* none.
LEMMA ClientTokens ==
  ASSUME IInv, TokenInv, NEW c \in Client, ClientCall(c) \/ ClientStep(c)
  PROVE  CountInv'
<1> USE DEF IInv
<1>0. \A id \in TaskId, w \in Worker : Holds(w, id)' <=> Holds(w, id)
  BY ClientKeepsRuns DEF Holds
<1>1. ASSUME NEW id \in TaskId, SubmitSave(c, id)
      PROVE  CountInv'
  <2>1. \A d \in Client, i \in TaskId :
            Submitting(d, i)' <=> (d # c /\ Submitting(d, i)) \/ (d = c /\ i = id)
    BY <1>1 DEF SubmitSave, Submitting, EngineTypeOK, IdleClient
  <2>2. UNCHANGED items /\ submitted' = submitted \cup {id} /\ id \notin submitted
    BY <1>1 DEF SubmitSave, MemSave
  <2> QED
    BY <1>0, <2>1, <2>2 DEF TokenInv, CountInv, Free
<1>2. ASSUME NEW id \in TaskId, SubmitEnqueue(c), id = client[c].id
      PROVE  CountInv'
  <2>1. Submitting(c, id)
    BY <1>2 DEF SubmitEnqueue, Submitting
  <2>2. \A d \in Client, i \in TaskId : Submitting(d, i)' <=> Submitting(d, i) /\ d # c
    BY <1>2 DEF SubmitEnqueue, Submitting, Return, IdleClient, EngineTypeOK
  <2>3. items[id] = 0 /\ id \notin inQueue /\ id \in submitted
    BY <2>1 DEF TokenInv, CountInv, Free, MemInv, IndexBacked
  <2>4. items' = [items EXCEPT ![id] = 1] /\ UNCHANGED submitted
    BY <1>2, <2>3 DEF SubmitEnqueue, MemEnqueue
  <2> QED
    BY <1>0, <2>1, <2>2, <2>3, <2>4 DEF TokenInv, CountInv, Free, MemInv, MemTypeOK
<1>3. ASSUME NEW id \in TaskId, StartEnqueue(c), id = client[c].id
      PROVE  CountInv'
  <2>1. Starting(c, id)
    BY <1>3 DEF StartEnqueue, Starting
  <2>2. \A d \in Client, i \in TaskId : ~Submitting(d, i) /\ ~Submitting(d, i)'
    BY <1>3, <2>1 DEF TokenInv, Discipline, Starting, Submitting, StartEnqueue, Return,
                      IdleClient, EngineTypeOK
  <2>3. Stored(id) /\ \A w \in Worker : ~Holds(w, id)
    BY <2>1 DEF TokenInv, Reads, Stored
  <2>4. id \in submitted /\ (items[id] = 1 => id \in inQueue) /\ items[id] \in {0, 1}
    BY <2>3 DEF TokenInv, CountInv, Reads
  <2>5. /\ items' = [items EXCEPT ![id] = 1]
        /\ UNCHANGED submitted
    <3>1. items \in [TaskId -> Nat] /\ (id \in inQueue => items[id] = 1)
      BY <2>4 DEF MemInv, MemTypeOK, IndexBacked
    <3>2. items' = IF id \in inQueue THEN items ELSE [items EXCEPT ![id] = items[id] + 1]
      BY <1>3 DEF StartEnqueue, MemEnqueue
    <3>3. UNCHANGED submitted
      BY <1>3 DEF StartEnqueue
    <3>4. CASE id \in inQueue
      BY <3>1, <3>2, <3>3, <3>4
    <3>5. CASE id \notin inQueue
      <4>1. items[id] = 0
        BY <2>3, <2>4, <3>5
      <4>2. items[id] + 1 = 1
        BY <4>1
      <4> QED
        BY <3>2, <3>3, <3>5, <4>2
    <3> QED
      BY <3>4, <3>5
  <2> QED
    BY <1>0, <2>2, <2>3, <2>4, <2>5 DEF TokenInv, CountInv, Free, MemInv, MemTypeOK
<1>4. ASSUME ~SubmitEnqueue(c), ~StartEnqueue(c), ~ \E id \in TaskId : SubmitSave(c, id)
      PROVE  NoNewToken
  <2>1. MemShrink
    <3>1. ASSUME client[c].id \in TaskId, ClientStep(c)
          PROVE  MemShrink
      BY <1>4, <3>1, Shrinks
      DEF ClientStep, EnqueueRefused, SendCancel, TerminateQueued, TerminateNotQueued,
          TerminateGet, TerminateWrite, RemoveDelete, PoolClose
    <3>2. CASE PoolClose(c)
      BY <3>2 DEF PoolClose, MemClose, MemShrink, MemInv, MemTypeOK
    <3>3. CASE ClientCall(c)
      <4>1. CASE UNCHANGED memVars
        BY <4>1 DEF MemShrink, MemInv, MemTypeOK, memVars
      <4>2. ASSUME NEW b \in Batch, MemCancelBatch(b)
            PROVE  MemShrink
        BY <4>2 DEF MemCancelBatch, MemShrink, MemInv, MemTypeOK
      <4> QED
        BY <1>4, <3>3, <4>1, <4>2
        DEF ClientCall, StartGet, StopTask, TerminateRunning, Signal, TerminateUnregistered,
            RemoveGet, CancelBatch, PoolStop
    <3>4. ASSUME ClientStep(c), ~PoolClose(c)
          PROVE  client[c].id \in TaskId
      BY <3>4
      DEF LocalsOK, ClientStep, SubmitEnqueue, StartEnqueue, EnqueueRefused, SendCancel,
          TerminateQueued, TerminateNotQueued, TerminateGet, TerminateWrite, RemoveDelete
    <3> QED
      BY <3>1, <3>2, <3>3, <3>4
  <2>2. /\ \A d \in Client \ {c} : client'[d] = client[d]
        /\ client'[c].pc = "submitting" => UNCHANGED client
    BY <1>4, CallRecords DEF ClientMoves
  <2>3. UNCHANGED submitted
    BY <1>4
    DEF ClientCall, StartGet, StopTask, TerminateRunning, Signal, TerminateUnregistered,
        RemoveGet, CancelBatch, PoolStop, ClientStep, EnqueueRefused, SendCancel,
        TerminateQueued, TerminateNotQueued, TerminateGet, TerminateWrite, RemoveDelete, PoolClose
  <2> QED
    BY <1>0, <2>1, <2>2, <2>3 DEF NoNewToken, MemShrink, Submitting
<1>5. SubmitEnqueue(c) \/ StartEnqueue(c) => client[c].id \in TaskId
  BY DEF SubmitEnqueue, StartEnqueue, LocalsOK
<1> QED
  BY <1>1, <1>2, <1>3, <1>4, <1>5, NoNewTokenKeeps DEF TokenInv

\* Nobody takes a new interest in the task.
Quieter(id) ==
    /\ \A w \in Worker : Holds(w, id)' => Holds(w, id)
    /\ \A c \in Client : /\ Submitting(c, id)' => Submitting(c, id)
                         /\ Starting(c, id)' => Starting(c, id)
                         /\ Cancelling(c, id)' => Cancelling(c, id)
    /\ submitted \subseteq submitted'

\* Then what is known of it stays true as long as its record stays, too.
LEMMA Untouched ==
  ASSUME NEW id \in TaskId, Reads(id), Quieter(id),
         tasks'[id].status = tasks[id].status,
         items'[id] = items[id],
         id \in inQueue => id \in inQueue'
  PROVE  Reads(id)'
  BY DEF Reads, Free, Stored, Quieter

\* It also stays true if the task is cancelled or deleted, unless Start is about.
LEMMA Ended ==
  ASSUME NEW id \in TaskId, Reads(id), Quieter(id),
         items'[id] \in {0, items[id]},
         \/ tasks'[id].status = "none"
         \/ /\ tasks'[id].status = "cancelled" /\ items'[id] = 0 /\ id \in submitted
            /\ \A w \in Worker : ~Holds(w, id),
         \A c \in Client : ~Starting(c, id)'
  PROVE  Reads(id)'
  BY DEF Reads, Free, Stored, Quieter

\* Whoever holds a task has all there is to it.
LEMMA SoleOwner ==
  ASSUME IInv, TokenInv, NEW w \in Worker, NEW id \in TaskId, Holds(w, id)
  PROVE  /\ items[id] = 0 /\ id \notin inQueue /\ id \in submitted
         /\ \A v \in Worker : Holds(v, id) => v = w
         /\ \A c \in Client : ~Submitting(c, id) /\ ~Starting(c, id) /\ ~Cancelling(c, id)
<1>1. items[id] = 0 /\ id \in submitted
  BY DEF TokenInv, CountInv, Free
<1>2. id \notin inQueue
  BY <1>1 DEF IInv, MemInv, IndexBacked
<1>3. \A v \in Worker : Holds(v, id) => v = w
  BY DEF TokenInv, CountInv
<1>4. \A c \in Client : ~Submitting(c, id) /\ ~Starting(c, id) /\ ~Cancelling(c, id)
  BY DEF TokenInv, CountInv, Reads, Free
<1> QED
  BY <1>1, <1>2, <1>3, <1>4

\* A worker's step changes what is known only of the task it takes or holds.
LEMMA WorkerReads ==
  ASSUME IInv, TokenInv, NEW w \in Worker, WorkerStep(w), NEW id \in TaskId
  PROVE  Reads(id)'
<1> USE DEF IInv
<1>0. /\ \A c \in Client : /\ Submitting(c, id)' <=> Submitting(c, id)
                           /\ Starting(c, id)' <=> Starting(c, id)
                           /\ Cancelling(c, id)' <=> Cancelling(c, id)
      /\ UNCHANGED submitted
      /\ Reads(id)
  BY WorkerKeepsCalls DEF Submitting, Starting, Cancelling, TokenInv
<1>1. ASSUME NEW i \in TaskId, Dequeue(w, i)
      PROVE  Reads(id)'
  <2>1. \A v \in Worker, j \in TaskId : Holds(v, j)' <=> Holds(v, j) \/ (v = w /\ j = i)
    BY <1>1 DEF Dequeue, Holds, EngineTypeOK
  <2>2. CASE id # i
    <3>1. tasks'[id] = tasks[id] /\ items'[id] = items[id] /\ (id \in inQueue => id \in inQueue')
      BY <1>1, <2>2 DEF Dequeue, MemDequeue, MemInv, MemTypeOK
    <3> QED
      BY <1>0, <2>1, <2>2, <3>1, Untouched DEF Quieter
  <2>3. CASE id = i
    <3>1. items[id] = 1 /\ tasks[id].status \in Queued
      BY <1>1, <2>3 DEF Dequeue, MemDequeue, Ready, IsQueued, TokenInv, CountInv
    <3>2. tasks'[id].status = "running" /\ items'[id] = 0
      BY <1>1, <2>3, <3>1 DEF Dequeue, MemDequeue, MemInv, MemTypeOK, TaskRecord
    <3>3. /\ \A c \in Client : ~Submitting(c, id) /\ ~Starting(c, id) /\ ~Cancelling(c, id)
          /\ id \in submitted
      BY <1>0, <3>1 DEF TokenInv, CountInv, Free, Reads, Queued
    <3> QED
      BY <1>0, <3>2, <3>3 DEF Reads
  <2> QED
    BY <2>2, <2>3
<1>2. CASE SettleRetry(w)
  <2>1. /\ worker[w].id \in TaskId /\ Holds(w, worker[w].id)
        /\ MemEnqueue(worker[w].id,
                      [status |-> "pending", retries |-> worker[w].retries + 1, due |-> TRUE])
    BY <1>2 DEF SettleRetry, Failing, Holds, LocalsOK
  <2>2. \A v \in Worker, j \in TaskId : Holds(v, j)' <=> Holds(v, j) /\ v # w
    BY <1>2 DEF SettleRetry, Failing, Holds, GoTo, EngineTypeOK, WorkerState
  <2>3. CASE id # worker[w].id
    <3>1. tasks'[id] = tasks[id] /\ items'[id] = items[id] /\ (id \in inQueue => id \in inQueue')
      BY <2>1, <2>3 DEF MemEnqueue, MemInv, MemTypeOK
    <3> QED
      BY <1>0, <2>2, <3>1, Untouched DEF Quieter
  <2>4. CASE id = worker[w].id
    <3>1. tasks'[id].status = "pending" /\ id \in inQueue'
      BY <2>1, <2>4 DEF MemEnqueue, MemInv, MemTypeOK
    <3>2. /\ \A c \in Client : ~Submitting(c, id) /\ ~Starting(c, id) /\ ~Cancelling(c, id)
          /\ \A v \in Worker : ~Holds(v, id)'
          /\ id \in submitted
      BY <2>1, <2>2, <2>4, SoleOwner
    <3> QED
      BY <1>0, <3>1, <3>2 DEF Reads, Queued
  <2> QED
    BY <2>3, <2>4
<1>3. ASSUME NEW status, MemUpdateStatus(worker[w].id, status), GoTo(w, "finishing"),
             worker[w].pc \in {"running", "settle", "refused"}
      PROVE  Reads(id)'
  <2>1. worker[w].id \in TaskId /\ Holds(w, worker[w].id)
    BY <1>3 DEF Holds, LocalsOK
  <2>2. \A v \in Worker, j \in TaskId : Holds(v, j)' <=> Holds(v, j) /\ v # w
    BY <1>3 DEF Holds, GoTo, EngineTypeOK, WorkerState
  <2>3. CASE id # worker[w].id
    <3>1. tasks'[id] = tasks[id] /\ items'[id] = items[id] /\ (id \in inQueue => id \in inQueue')
      BY <1>3, <2>3 DEF MemUpdateStatus, MemInv, MemTypeOK
    <3> QED
      BY <1>0, <2>2, <3>1, Untouched DEF Quieter
  <2>4. CASE id = worker[w].id
    <3>1. /\ \A c \in Client : ~Submitting(c, id) /\ ~Starting(c, id) /\ ~Cancelling(c, id)
          /\ \A v \in Worker : ~Holds(v, id)'
          /\ id \in submitted /\ items'[id] = 0
      BY <1>3, <2>1, <2>2, <2>4, SoleOwner DEF MemUpdateStatus
    <3> QED
      BY <1>0, <3>1 DEF Reads
  <2> QED
    BY <2>3, <2>4
<1>4. CASE UnknownType(w) \/ SettleIntervened(w) \/ SettleCompleted(w) \/ FailRefusedRetry(w)
           \/ SettleFailed(w)
  BY <1>3, <1>4 DEF UnknownType, SettleIntervened, SettleCompleted, FailRefusedRetry,
                    SettleFailed, Failing
<1>5. ASSUME ~ \E i \in TaskId : Dequeue(w, i), UNCHANGED memVars
      PROVE  Reads(id)'
  BY <1>0, <1>5, WorkerGainsNothing, Untouched DEF Quieter, memVars
<1> QED
  BY <1>1, <1>2, <1>4, <1>5, WorkerStep(w)
  DEF WorkerStep, Park, Exit, BeginExecution, Abandon, HandlerReturn, CheckSignal, Settle,
      SettleRetryRefused, Deregister

\* Only three steps of a call are about a task that it was not about before.
LEMMA QuietCalls ==
  ASSUME IInv, NEW c \in Client, ClientCall(c) \/ ClientStep(c), NEW id \in TaskId,
         ~SubmitSave(c, id), ~StartGet(c, id), ~(TerminateGet(c) /\ client[c].id = id)
  PROVE  Quieter(id)
<1>1. \A w \in Worker : Holds(w, id)' => Holds(w, id)
  BY ClientKeepsRuns DEF Holds
<1>2. ClientMoves(c)
  BY CallRecords DEF IInv
<1>3. \A d \in Client : /\ Submitting(d, id)' => Submitting(d, id)
                        /\ Starting(d, id)' => Starting(d, id)
                        /\ Cancelling(d, id)' => Cancelling(d, id)
  BY <1>2 DEF ClientMoves, Submitting, Starting, Cancelling
<1>4. submitted \subseteq submitted'
  BY DEF ClientCall, SubmitSave, StartGet, StopTask, TerminateRunning, Signal,
         TerminateUnregistered, RemoveGet, CancelBatch, PoolStop, ClientStep, SubmitEnqueue,
         StartEnqueue, EnqueueRefused, SendCancel, TerminateQueued, TerminateNotQueued,
         TerminateGet, TerminateWrite, RemoveDelete, PoolClose
<1> QED
  BY <1>1, <1>3, <1>4 DEF Quieter

\* A step of a call keeps what is known of the tasks. Only Start has to fear
\* the other calls, and those keep away from it.
LEMMA ClientReads ==
  ASSUME Disciplined, IInv, TokenInv, NEW c \in Client, ClientCall(c) \/ ClientStep(c),
         NEW id \in TaskId
  PROVE  Reads(id)'
<1> USE DEF IInv
<1>0. Reads(id) /\ items[id] \in {0, 1}
  BY DEF TokenInv, CountInv
<1>1. /\ \A d \in Client \ {c} : client'[d] = client[d]
      /\ \A w \in Worker : Holds(w, id)' <=> Holds(w, id)
  BY CallRecords, ClientKeepsRuns DEF ClientMoves, Holds
<1>2. client[c].pc # "idle" => \A d \in Client \ {c} : ~Starting(d, id) /\ ~Starting(d, id)'
  BY <1>1 DEF TokenInv, Discipline, Starting
<1>quiet. client[c].pc \notin {"idle", "terminateGet"} => Quieter(id)
  BY QuietCalls DEF SubmitSave, StartGet, TerminateGet, Calls
<1>3. ASSUME NEW i \in TaskId, SubmitSave(c, i)
      PROVE  Reads(id)'
  <2>1. client'[c].pc = "submitting" /\ client'[c].id = i /\ i \notin submitted
    BY <1>3 DEF SubmitSave, IdleClient, EngineTypeOK
  <2>2. /\ tasks'[i].status \in Queued /\ \A j \in TaskId \ {i} : tasks'[j] = tasks[j]
        /\ UNCHANGED <<items, inQueue>> /\ submitted' = submitted \cup {i}
    BY <1>3 DEF SubmitSave, MemSave, NewTasks, Queued, MemInv, MemTypeOK
  <2>3. CASE id # i
    <3>1. ~SubmitSave(c, id) /\ ~StartGet(c, id) /\ ~TerminateGet(c)
      BY <1>3, <2>1, <2>2, <2>3 DEF StartGet, TerminateGet, SubmitSave
    <3> QED
      BY <1>0, <2>2, <2>3, <3>1, QuietCalls, Untouched
  <2>4. CASE id = i
    <3>1. items[id] = 0 /\ Free(id) /\ tasks[id].status = "none"
      BY <2>1, <2>4 DEF TokenInv, CountInv, Reads, Stored
    <3>2. \A d \in Client : ~Starting(d, id)' /\ ~Cancelling(d, id)'
      BY <1>0, <1>1, <2>1, <2>4, <3>1 DEF Reads, Starting, Cancelling
    <3> QED
      BY <1>0, <1>1, <2>2, <2>4, <3>1, <3>2 DEF Reads, Free
  <2> QED
    BY <2>3, <2>4
<1>4. ASSUME NEW i \in TaskId, SubmitEnqueue(c) \/ StartEnqueue(c), i = client[c].id
      PROVE  Reads(id)'
  <2>1. MemEnqueue(i, client[c].rec) /\ client'[c].pc = "idle" /\ UNCHANGED submitted
    BY <1>4 DEF SubmitEnqueue, StartEnqueue, Return, IdleClient, EngineTypeOK
  <2>2. client[c].rec.status \in Queued /\ client[c].pc \in {"submitting", "starting"}
    BY <1>4 DEF SubmitEnqueue, StartEnqueue, LocalsOK
  <2>3. /\ tasks'[i] = client[c].rec /\ i \in inQueue'
        /\ \A j \in TaskId \ {i} : /\ tasks'[j] = tasks[j] /\ items'[j] = items[j]
                                   /\ j \in inQueue => j \in inQueue'
    BY <2>1 DEF MemEnqueue, MemInv, MemTypeOK
  <2>4. CASE id # i
    BY <1>0, <1>quiet, <2>2, <2>3, <2>4, Untouched
  <2>5. CASE id = i
    <3>1. Submitting(c, id) \/ Starting(c, id)
      BY <1>4, <2>2, <2>5 DEF Submitting, Starting
    <3>2. id \in submitted /\ \A w \in Worker : ~Holds(w, id)
      BY <1>0, <3>1 DEF TokenInv, CountInv, Free, Reads, Stored
    <3>3. \A d \in Client : ~Starting(d, id)'
      BY <1>2, <2>1, <2>2 DEF Starting
    <3>4. ASSUME NEW d \in Client PROVE ~Cancelling(d, id)'
      <4>1. CASE d = c
        BY <2>1, <4>1 DEF Cancelling
      <4>2. CASE d # c /\ Submitting(c, id)
        BY <1>0, <1>1, <4>2 DEF Cancelling, Reads, Free
      <4>3. CASE d # c /\ Starting(c, id)
        BY <1>1, <4>3 DEF Cancelling, Starting, TokenInv, Discipline
      <4> QED
        BY <3>1, <4>1, <4>2, <4>3
    <3> QED
      BY <1>1, <2>1, <2>2, <2>3, <2>5, <3>2, <3>3, <3>4 DEF Reads
  <2> QED
    BY <2>4, <2>5
<1>5. ASSUME NEW i \in TaskId, TerminateQueued(c), i = client[c].id
      PROVE  Reads(id)'
  <2>1. MemRemove(i) /\ client'[c].pc = "idle" /\ client[c].pc = "terminating"
    BY <1>5 DEF TerminateQueued, Return, IdleClient, EngineTypeOK
  <2>2. CASE id # i
    BY <1>0, <1>quiet, <2>1, <2>2, Untouched DEF MemRemove, MemInv, MemTypeOK
  <2>3. CASE id = i
    <3>1. tasks[id].status \in Queued /\ tasks'[id].status = "cancelled"
      BY <2>1, <2>3 DEF MemRemove, IsQueued, MemInv, MemTypeOK, TaskRecord
    <3>2. items'[id] = 0
      BY <1>0, <2>1, <2>3 DEF MemRemove, MemInv, MemTypeOK
    <3>3. id \in submitted /\ \A w \in Worker : ~Holds(w, id)
      BY <1>0, <3>1 DEF Reads, Queued, Stored
    <3>4. \A d \in Client : ~Starting(d, id)'
      BY <1>2, <2>1 DEF Starting
    <3> QED
      BY <1>0, <1>quiet, <2>1, <3>1, <3>2, <3>3, <3>4, Ended
  <2> QED
    BY <2>2, <2>3
<1>6. ASSUME NEW i \in TaskId, TerminateWrite(c) \/ RemoveDelete(c), i = client[c].id
      PROVE  Reads(id)'
  <2>1. /\ client'[c].pc = "idle" /\ client[c].pc \in {"terminateWrite", "removing"}
        /\ UNCHANGED items
        /\ \A j \in TaskId \ {i} : tasks'[j] = tasks[j] /\ (j \in inQueue => j \in inQueue')
    BY <1>6 DEF TerminateWrite, RemoveDelete, MemUpdateStatus, MemDelete, Return, IdleClient,
                EngineTypeOK, MemInv, MemTypeOK
  <2>2. CASE id # i
    BY <1>0, <1>quiet, <2>1, <2>2, Untouched
  <2>3. \A d \in Client : ~Starting(d, id)'
    BY <1>2, <2>1 DEF Starting
  <2>4. CASE id = i /\ TerminateWrite(c)
    <3>1. items[id] = 0 /\ Free(id) /\ id \in submitted
      BY <1>0, <1>6, <2>4 DEF Reads, TerminateWrite, Cancelling
    <3>2. tasks'[id].status \in {"cancelled", "none"}
      BY <1>6, <2>4 DEF TerminateWrite, MemUpdateStatus, Stored, MemInv, MemTypeOK, TaskRecord
    <3> QED
      BY <1>0, <1>quiet, <2>1, <2>3, <3>1, <3>2, Ended DEF Free
  <2>5. CASE id = i /\ RemoveDelete(c)
    <3>1. tasks'[id].status = "none"
      BY <1>6, <2>5 DEF RemoveDelete, MemDelete, MemInv, MemTypeOK, NoTask
    <3> QED
      BY <1>0, <1>quiet, <2>1, <2>3, <3>1, Ended
  <2> QED
    BY <1>6, <2>2, <2>4, <2>5
<1>7. ASSUME NEW b \in Batch, CancelBatch(c, b)
      PROVE  Reads(id)'
  <2>1. UNCHANGED <<client, submitted>> /\ MemCancelBatch(b)
    BY <1>7 DEF CancelBatch
  <2>2. \A d \in Client : ~Starting(d, id)'
    BY <1>7, <2>1 DEF CancelBatch, Calls, Disciplined, TokenInv, Discipline, Starting
  <2>3. /\ tasks'[id].status = tasks[id].status \/ (IsQueued(id) /\ tasks'[id].status = "cancelled")
        /\ items'[id] \in {0, items[id]}
        /\ items'[id] = 1 /\ Stored(id) => id \in inQueue'
    BY <1>0, <2>1 DEF MemCancelBatch, MemInv, MemTypeOK, TaskRecord
  <2>4. /\ \A d \in Client : Submitting(d, id)' <=> Submitting(d, id)
        /\ \A d \in Client : Cancelling(d, id)' <=> Cancelling(d, id)
    BY <2>1 DEF Submitting, Cancelling
  <2>5. CASE tasks'[id].status = tasks[id].status
    BY <1>0, <1>1, <2>1, <2>2, <2>3, <2>4, <2>5 DEF Reads, Free, Stored
  <2>6. CASE IsQueued(id) /\ tasks'[id].status = "cancelled"
    BY <1>0, <1>1, <2>1, <2>2, <2>3, <2>4, <2>6 DEF Reads, Free, Stored, IsQueued, Queued
  <2> QED
    BY <2>3, <2>5, <2>6
<1>8. ASSUME NEW i \in TaskId, StartGet(c, i)
      PROVE  Reads(id)'
  <2>1. UNCHANGED <<memVars, submitted>> /\ client'[c].pc = "starting" /\ client'[c].id = i
    BY <1>8 DEF StartGet, IdleClient, EngineTypeOK
  <2>2. tasks[i].status \in {"paused", "failed", "cancelled"}
    BY <1>8 DEF StartGet, Calls, Startable, TokenInv, Discipline
  <2>3. \A d \in Client : /\ Submitting(d, id)' => Submitting(d, id)
                          /\ Cancelling(d, id)' => Cancelling(d, id)
                          /\ Starting(d, id)' => Starting(d, id) \/ id = i
    BY <1>1, <2>1 DEF Submitting, Starting, Cancelling
  <2>4. UNCHANGED <<tasks, items, inQueue, submitted>>
    BY <2>1 DEF memVars
  <2> QED
    BY <1>0, <1>1, <2>2, <2>3, <2>4 DEF Reads, Free, Stored
<1>9. CASE TerminateGet(c)
  <2>1. UNCHANGED <<tasks, items, inQueue, submitted>> /\ client[c].pc = "terminateGet"
    BY <1>9 DEF TerminateGet, memVars
  <2>2. /\ client'[c].pc \in {"idle", "terminateWrite"}
        /\ client'[c].pc = "terminateWrite" => /\ client'[c].id = client[c].id
                                               /\ tasks[client[c].id].status \in {"paused", "failed"}
    <3>1. CASE tasks[client[c].id].status \in {"paused", "failed"}
      <4>1. Proceed(c, "terminateWrite", client[c].id)
        BY <1>9, <3>1 DEF TerminateGet
      <4>2. client'[c].pc = "terminateWrite" /\ client'[c].id = client[c].id
        BY <4>1 DEF Proceed, EngineTypeOK, ClientState
      <4> QED
        BY <3>1, <4>2
    <3>2. CASE tasks[client[c].id].status \notin {"paused", "failed"}
      BY <1>9, <3>2 DEF TerminateGet, Return, IdleClient, EngineTypeOK
    <3> QED
      BY <3>1, <3>2
  <2>3. \A d \in Client : /\ Submitting(d, id)' => Submitting(d, id)
                          /\ Starting(d, id)' => Starting(d, id)
                          /\ Cancelling(d, id)' => \/ Cancelling(d, id)
                                                  \/ tasks[id].status \in {"paused", "failed"}
    BY <1>1, <2>2 DEF Submitting, Starting, Cancelling
  <2>4. tasks[id].status \in {"paused", "failed"} => items[id] = 0 /\ Free(id) /\ id \in submitted
    BY <1>0 DEF Reads, Free, Stored, Queued
  <2> QED
    BY <1>0, <1>1, <2>1, <2>3, <2>4 DEF Reads, Free, Stored
<1>10. ASSUME UNCHANGED <<tasks, items, inQueue>>,
              ~SubmitSave(c, id), ~StartGet(c, id), ~TerminateGet(c)
       PROVE  Reads(id)'
  BY <1>0, <1>10, QuietCalls, Untouched
<1>11. CASE ClientCall(c)
  <2>1. ASSUME ~ \E i \in TaskId : SubmitSave(c, i), ~ \E b \in Batch : CancelBatch(c, b)
        PROVE  UNCHANGED <<tasks, items, inQueue>>
    BY <1>11, <2>1
    DEF ClientCall, StartGet, StopTask, TerminateRunning, Signal, TerminateUnregistered,
        RemoveGet, PoolStop, memVars
  <2>2. ~TerminateGet(c)
    BY <1>11
    DEF ClientCall, SubmitSave, StartGet, StopTask, TerminateRunning, TerminateUnregistered,
        RemoveGet, CancelBatch, PoolStop, Calls, TerminateGet
  <2> QED
    BY <1>3, <1>7, <1>8, <1>10, <2>1, <2>2
<1>12. CASE SubmitEnqueue(c) \/ StartEnqueue(c) \/ TerminateQueued(c) \/ TerminateWrite(c)
            \/ RemoveDelete(c)
  <2>1. client[c].id \in TaskId
    BY <1>12 DEF LocalsOK, SubmitEnqueue, StartEnqueue, TerminateQueued, TerminateWrite,
                 RemoveDelete
  <2> QED
    BY <1>4, <1>5, <1>6, <1>12, <2>1
<1>13. CASE EnqueueRefused(c) \/ SendCancel(c) \/ TerminateNotQueued(c) \/ PoolClose(c)
  <2>1. UNCHANGED <<tasks, items, inQueue>> /\ client[c].pc \notin {"idle", "terminateGet"}
    BY <1>13 DEF EnqueueRefused, SendCancel, TerminateNotQueued, PoolClose, MemClose, memVars
  <2> QED
    BY <1>0, <1>quiet, <2>1, Untouched
<1> QED
  BY <1>9, <1>11, <1>12, <1>13 DEF ClientStep

\* A worker neither calls anything nor delays a task.
LEMMA WorkerDiscipline ==
  ASSUME IInv, Discipline, NEW w \in Worker, WorkerStep(w)
  PROVE  Discipline'
<1> USE DEF IInv
<1>1. \A c \in Client : /\ client'[c].pc = client[c].pc
                        /\ client'[c].rec = client[c].rec
  <2>1. CASE Deregister(w)
    BY <2>1 DEF Deregister, EngineTypeOK, ClientState
  <2>2. CASE ~Deregister(w)
    BY <2>2, WorkerStep(w)
    DEF WorkerStep, Park, Exit, Dequeue, BeginExecution, Abandon, UnknownType, HandlerReturn,
        CheckSignal, Settle, SettleIntervened, SettleCompleted, SettleRetry, SettleRetryRefused,
        FailRefusedRetry, SettleFailed
  <2> QED
    BY <2>1, <2>2
<1>2. ASSUME NEW id \in TaskId
      PROVE  tasks'[id].status \in {tasks[id].status, "pending", "running"} \cup SettledStatuses
  <2> USE DEF MemInv, MemTypeOK, TaskRecord, SettledStatuses
  <2>1. ASSUME NEW i \in TaskId, Dequeue(w, i)
        PROVE  tasks'[id].status \in {tasks[id].status, "running"}
    BY <2>1 DEF Dequeue, MemDequeue
  <2>2. CASE SettleRetry(w)
    BY <2>2 DEF SettleRetry, MemEnqueue
  <2>3. CASE UnknownType(w) \/ SettleIntervened(w) \/ SettleCompleted(w) \/ FailRefusedRetry(w)
             \/ SettleFailed(w)
    <3>1. PICK status \in SettledStatuses : MemUpdateStatus(worker[w].id, status)
      BY <2>3 DEF UnknownType, SettleIntervened, SettleCompleted, FailRefusedRetry, SettleFailed,
                  EngineTypeOK, WorkerState
    <3> QED
      BY <3>1 DEF MemUpdateStatus
  <2>4. CASE UNCHANGED memVars
    BY <2>4 DEF memVars
  <2> QED
    BY <2>1, <2>2, <2>3, <2>4, WorkerStep(w)
    DEF WorkerStep, Park, Exit, BeginExecution, Abandon, HandlerReturn, CheckSignal, Settle,
        SettleRetryRefused, Deregister
<1> QED
  BY <1>1, <1>2 DEF Discipline, SettledStatuses

\* Disciplined calls stay so: the guards of Calls are what they have to respect.
LEMMA ClientDiscipline ==
  ASSUME Disciplined, IInv, Discipline, NEW c \in Client, ClientCall(c) \/ ClientStep(c)
  PROVE  Discipline'
<1> USE DEF IInv
<1>1. ClientMoves(c)
  BY CallRecords
<1>2. \A op \in AllOps, d \in Client : Calls(c, op) => client[d].pc # "starting"
  BY DEF Calls, Disciplined, Discipline
<1>3. ASSUME NEW d \in Client, client[d].pc = "starting"
      PROVE  d = c
  <2>1. d # c => client[c].pc = "idle"
    BY <1>3 DEF Discipline
  <2>2. client[c].pc = "idle" => \E op \in AllOps : Calls(c, op)
    BY DEF ClientCall, SubmitSave, StartGet, StopTask, TerminateRunning, TerminateUnregistered,
           RemoveGet, CancelBatch, PoolStop, ClientStep, SubmitEnqueue, StartEnqueue,
           EnqueueRefused, SendCancel, TerminateQueued, TerminateNotQueued, TerminateGet,
           TerminateWrite, RemoveDelete, PoolClose, AllOps
  <2> QED
    BY <1>2, <1>3, <2>1, <2>2
<1>4. ASSUME NEW id \in TaskId, StartGet(c, id)
      PROVE  "start" \in Ops /\ \A d \in Client \ {c} : client'[d].pc = "idle"
  BY <1>1, <1>4 DEF StartGet, Calls, Disciplined, ClientMoves
<1>5. \A c1, d1 \in Client : client'[c1].pc = "starting" =>
        "start" \in Ops /\ (c1 # d1 => client'[d1].pc = "idle")
  BY <1>1, <1>3, <1>4 DEF ClientMoves, Discipline
<1>6. ASSUME "start" \in Ops, NEW id \in TaskId
      PROVE  tasks'[id].status # "delayed"
  <2> USE DEF MemInv, MemTypeOK, TaskRecord
  <2>0. tasks[id].status # "delayed" /\ client[c].rec.status # "delayed" /\ ~Delays
    BY <1>6 DEF Discipline, Disciplined
  <2>1. ASSUME NEW i \in TaskId, SubmitSave(c, i)
        PROVE  tasks'[id].status # "delayed"
    BY <2>0, <2>1 DEF SubmitSave, MemSave, NewTasks
  <2>2. ASSUME NEW b \in Batch, CancelBatch(c, b)
        PROVE  tasks'[id].status # "delayed"
    BY <2>0, <2>2 DEF CancelBatch, MemCancelBatch
  <2>3. CASE SubmitEnqueue(c) \/ StartEnqueue(c)
    BY <2>0, <2>3 DEF SubmitEnqueue, StartEnqueue, MemEnqueue
  <2>4. CASE TerminateQueued(c)
    BY <2>0, <2>4 DEF TerminateQueued, MemRemove
  <2>5. CASE TerminateWrite(c)
    BY <2>0, <2>5 DEF TerminateWrite, MemUpdateStatus
  <2>6. CASE RemoveDelete(c)
    BY <2>0, <2>6 DEF RemoveDelete, MemDelete, NoTask
  <2>7. CASE UNCHANGED tasks
    BY <2>0, <2>7
  <2> QED
    BY <2>1, <2>2, <2>3, <2>4, <2>5, <2>6, <2>7
    DEF ClientCall, StartGet, StopTask, TerminateRunning, Signal, TerminateUnregistered,
        RemoveGet, PoolStop, ClientStep, EnqueueRefused, SendCancel, TerminateNotQueued,
        TerminateGet, PoolClose, MemClose, memVars
<1>7. ASSUME "start" \in Ops, NEW d \in Client
      PROVE  client'[d].rec.status # "delayed"
  <2>1. client[d].rec.status # "delayed" /\ ~Delays
    BY <1>7 DEF Discipline, Disciplined
  <2>2. \A rec \in NewTasks \cup {NoTask} : rec.status # "delayed"
    BY <2>1 DEF NewTasks, NoTask
  <2> QED
    BY <1>1, <2>1, <2>2 DEF ClientMoves
<1> QED
  BY <1>5, <1>6, <1>7 DEF Discipline

\* A new pool has no tokens.
LEMMA InitTokens == Init => TokenInv
  BY DEF Init, MemInit, FreshWorker, IdleClient, NoTask, TokenInv, CountInv, Free, Reads,
         Discipline, Stored, Holds, Submitting, Starting, Cancelling

\* Every step keeps the token invariant.
LEMMA StepTokens ==
  ASSUME Disciplined, IInv, TokenInv, [Next]_vars
  PROVE  TokenInv'
<1>1. ASSUME NEW w \in Worker, WorkerStep(w)
      PROVE  TokenInv'
  BY <1>1, WorkerTokens, WorkerReads, WorkerDiscipline DEF TokenInv
<1>2. ASSUME NEW c \in Client, ClientCall(c) \/ ClientStep(c)
      PROVE  TokenInv'
  BY <1>2, ClientTokens, ClientReads, ClientDiscipline DEF TokenInv
<1>3. ASSUME NEW i \in TaskId, BecomeDue(i)
      PROVE  TokenInv'
  <2>1. /\ UNCHANGED <<items, inQueue, worker, client, submitted>>
        /\ \A id \in TaskId : tasks'[id].status = tasks[id].status
    BY <1>3 DEF BecomeDue, MemBecomeDue, IInv, MemInv, MemTypeOK, TaskRecord
  <2>2. CountInv' /\ Discipline'
    BY <2>1 DEF TokenInv, CountInv, Free, Discipline, Holds, Submitting
  <2>3. ASSUME NEW id \in TaskId
        PROVE  Reads(id)'
    <3>1. Quieter(id) /\ Reads(id)
      BY <2>1 DEF Quieter, Holds, Submitting, Starting, Cancelling, TokenInv
    <3> QED
      BY <2>1, <3>1, Untouched
  <2> QED
    BY <2>2, <2>3 DEF TokenInv
<1>4. CASE UNCHANGED vars
  BY <1>4 DEF vars, memVars, TokenInv, CountInv, Free, Reads, Discipline, Stored, Holds,
              Submitting, Starting, Cancelling
<1> QED
  BY <1>1, <1>2, <1>3, <1>4 DEF Next, Quiescent

\* A task is executed by one worker at a time, through retries, cancellations,
\* removals, restarts and a shutdown.
THEOREM OneWorkerPerTask ==
  ASSUME Disciplined
  PROVE  Spec => []ExclusiveExecution
<1>1. IInv /\ TokenInv /\ [Next]_vars => TokenInv'
  BY StepTokens
<1>2. TokenInv => ExclusiveExecution
  BY DEF TokenInv, CountInv, ExclusiveExecution
<1> QED
  BY <1>1, <1>2, InitTokens, AlwaysIInv, PTL DEF Spec

-----------------------------------------------------------------------------
(* A completed task has no token, so nothing but Remove can still write it. *)

LEMMA NoTokenAtTheEnd ==
  ASSUME TokenInv, NEW id \in TaskId, tasks[id].status = "completed"
  PROVE  /\ items[id] = 0 /\ Free(id) /\ id \in submitted
         /\ \A c \in Client : ~Starting(c, id) /\ ~Cancelling(c, id)
<1>1. Reads(id) /\ items[id] \in {0, 1}
  BY DEF TokenInv, CountInv
<1> QED
  BY <1>1 DEF Reads, Free, Stored, Queued

\* No step writes a completed task but the one that deletes it.
LEMMA CompletedKept ==
  ASSUME IInv, TokenInv, [Next]_vars, NEW id \in TaskId, tasks[id].status = "completed"
  PROVE  tasks'[id].status \in {"completed", "none"}
<1> USE DEF IInv, MemInv, MemTypeOK, TaskRecord
<1>0. /\ items[id] = 0 /\ id \in submitted
      /\ \A w \in Worker : ~Holds(w, id)
      /\ \A c \in Client : ~Submitting(c, id) /\ ~Starting(c, id) /\ ~Cancelling(c, id)
  BY NoTokenAtTheEnd DEF Free
<1>1. ASSUME NEW w \in Worker, WorkerStep(w)
      PROVE  tasks'[id].status = "completed"
  <2>1. ASSUME NEW i \in TaskId, Dequeue(w, i)
        PROVE  tasks'[id].status = "completed"
    BY <1>0, <2>1 DEF Dequeue, MemDequeue, Ready
  <2>2. CASE UnknownType(w) \/ Settle(w)
    <3>1. worker[w].id # id
      BY <1>0, <2>2 DEF UnknownType, Settle, SettleIntervened, SettleCompleted, SettleRetry,
                        SettleRetryRefused, FailRefusedRetry, SettleFailed, Failing, Holds
    <3>2. \/ UNCHANGED memVars
          \/ \E status : MemUpdateStatus(worker[w].id, status)
          \/ \E rec : MemEnqueue(worker[w].id, rec)
      BY <2>2 DEF UnknownType, Settle, SettleIntervened, SettleCompleted, SettleRetry,
                  SettleRetryRefused, FailRefusedRetry, SettleFailed
    <3> QED
      BY <3>1, <3>2 DEF MemUpdateStatus, MemEnqueue, memVars
  <2>3. CASE UNCHANGED memVars
    BY <2>3 DEF memVars
  <2> QED
    BY <1>1, <2>1, <2>2, <2>3
    DEF WorkerStep, Park, Exit, BeginExecution, Abandon, HandlerReturn, CheckSignal, Deregister
<1>2. ASSUME NEW c \in Client, ClientCall(c) \/ ClientStep(c)
      PROVE  tasks'[id].status \in {"completed", "none"}
  <2>1. ASSUME NEW i \in TaskId, SubmitSave(c, i)
        PROVE  tasks'[id].status = "completed"
    BY <1>0, <2>1 DEF SubmitSave, MemSave
  <2>2. ASSUME NEW b \in Batch, CancelBatch(c, b)
        PROVE  tasks'[id].status = "completed"
    BY <2>2 DEF CancelBatch, MemCancelBatch, IsQueued, Queued
  <2>3. CASE SubmitEnqueue(c) \/ StartEnqueue(c) \/ TerminateWrite(c)
    <3>1. client[c].id # id
      BY <1>0, <2>3 DEF SubmitEnqueue, StartEnqueue, TerminateWrite, Submitting, Starting,
                        Cancelling
    <3>2. \/ \E status : MemUpdateStatus(client[c].id, status)
          \/ \E rec : MemEnqueue(client[c].id, rec)
      BY <2>3 DEF SubmitEnqueue, StartEnqueue, TerminateWrite
    <3> QED
      BY <3>1, <3>2 DEF MemUpdateStatus, MemEnqueue
  <2>4. CASE TerminateQueued(c)
    BY <2>4 DEF TerminateQueued, MemRemove, IsQueued, Queued
  <2>5. CASE RemoveDelete(c)
    BY <2>5 DEF RemoveDelete, MemDelete, NoTask
  <2>6. CASE UNCHANGED tasks
    BY <2>6
  <2> QED
    BY <1>2, <2>1, <2>2, <2>3, <2>4, <2>5, <2>6
    DEF ClientCall, StartGet, StopTask, TerminateRunning, Signal, TerminateUnregistered,
        RemoveGet, PoolStop, ClientStep, EnqueueRefused, SendCancel, TerminateNotQueued,
        TerminateGet, PoolClose, MemClose, memVars
<1>3. ASSUME NEW i \in TaskId, BecomeDue(i)
      PROVE  tasks'[id].status = "completed"
  BY <1>3 DEF BecomeDue, MemBecomeDue
<1>4. CASE UNCHANGED vars
  BY <1>4 DEF vars, memVars
<1> QED
  BY <1>1, <1>2, <1>3, <1>4 DEF Next, Quiescent

\* No late write of a Terminate, a Start, a retry or an Enqueue ever touches a
\* task that has completed: it can only be removed.
THEOREM CompletedStaysCompleted ==
  ASSUME Disciplined
  PROVE  Spec => CompletedIsFinal
<1>1. IInv /\ TokenInv /\ [Next]_vars => TokenInv'
  BY StepTokens
<1>2. IInv /\ TokenInv /\ [Next]_vars =>
        [\A id \in TaskId : tasks[id].status = "completed" =>
            tasks'[id].status \in {"completed", "none"}]_vars
  BY CompletedKept
<1> QED
  BY <1>1, <1>2, InitTokens, AlwaysIInv, PTL DEF Spec, CompletedIsFinal
-----------------------------------------------------------------------------
(***************************************************************************)
(* A handler that StopTask or Terminate has interrupted is settled as they *)
(* asked: the order "record the signal, then cancel" on one side and       *)
(* "return, then read the signal" on the other is enough, provided that    *)
(* one worker executes the task, which takes disciplined callers.          *)
(***************************************************************************)

Awaiting(w) == worker[w].pc \in {"running", "returned"}

\* Some call still holds the cancel() of w's run.
Targeted(w) == \E c \in Client : client[c].target = w

InterruptInv ==
    /\ \A w \in Worker : Targeted(w) => Executing(w)
    /\ \A w \in Worker : worker[w].pc = "claimed" => ~worker[w].cancelled
    /\ \A w \in Worker : Awaiting(w) /\ (worker[w].cancelled \/ Targeted(w)) =>
            stopSignals[worker[w].id] # "none"
    /\ \A w \in Worker : worker[w].pc = "returned" /\ worker[w].outcome = "interrupted" =>
            worker[w].cancelled
    /\ InterruptedIsHonoured

\* No step of a worker loses the signal of another run.
LEMMA WorkerInterrupts ==
  ASSUME IInv, TokenInv, InterruptInv, NEW w \in Worker, WorkerStep(w)
  PROVE  InterruptInv'
<1> USE DEF IInv, EngineTypeOK, InterruptInv, InterruptedIsHonoured, Awaiting, Targeted,
            Executing, GoTo, engineVars
<1>1. CASE Park(w) \/ Exit(w)
  <2>1. \A v \in Worker \ {w} : worker'[v] = worker[v]
    BY <1>1 DEF Park, Exit
  <2>2. worker'[w].pc \in {"parked", "exited"} /\ UNCHANGED <<stopSignals, client>>
    BY <1>1 DEF Park, Exit, WorkerState
  <2>3. worker[w].pc \in {"idle", "parked"}
    BY <1>1 DEF Park, Exit
  <2> QED
    BY <2>1, <2>2, <2>3
<1>2. ASSUME NEW id \in TaskId, Dequeue(w, id)
      PROVE  InterruptInv'
  BY <1>2 DEF Dequeue, FreshWorker
<1>3. CASE BeginExecution(w)
  BY <1>3 DEF BeginExecution, WorkerState
<1>4. CASE Abandon(w)
  BY <1>4 DEF Abandon, FreshWorker
<1>5. CASE UnknownType(w) \/ Settle(w)
  <2>1. /\ worker[w].pc \in {"running", "settle", "refused"}
        /\ GoTo(w, "finishing") \/ GoTo(w, "refused")
        /\ UNCHANGED <<stopSignals, client>>
    BY <1>5 DEF UnknownType, Settle, SettleIntervened, SettleCompleted, SettleRetry,
                SettleRetryRefused, FailRefusedRetry, SettleFailed, Failing
  <2>2. \A v \in Worker \ {w} : worker'[v] = worker[v]
    BY <2>1
  <2>3. worker'[w].pc \in {"finishing", "refused"}
    BY <2>1 DEF WorkerState
  <2>4. \A v \in Worker : Targeted(v)' => Targeted(v)
    BY <2>1
  <2> HIDE DEF Targeted
  <2> QED
    BY <2>1, <2>2, <2>3, <2>4
<1>6. CASE HandlerReturn(w)
  BY <1>6 DEF HandlerReturn, WorkerState
<1>7. CASE CheckSignal(w)
  <2>1. ASSUME NEW v \in Worker, v # w, Awaiting(v)
        PROVE  worker[v].id # worker[w].id
    BY <1>7, <2>1 DEF CheckSignal, TokenInv, CountInv, Holds, LocalsOK
  <2>2. \A v \in Worker : v # w => worker'[v] = worker[v]
    BY <1>7 DEF CheckSignal
  <2>3. /\ worker'[w].pc = "settle"
        /\ worker'[w].desired = stopSignals[worker[w].id]
        /\ worker'[w].outcome = worker[w].outcome
        /\ worker'[w].id = worker[w].id
        /\ worker'[w].cancelled = worker[w].cancelled
    BY <1>7 DEF CheckSignal, WorkerState
  <2>4. \A id \in TaskId : id # worker[w].id => stopSignals'[id] = stopSignals[id]
    BY <1>7 DEF CheckSignal
  <2>5. UNCHANGED client /\ worker[w].pc = "returned"
    BY <1>7 DEF CheckSignal
  <2>6. \A v \in Worker : Awaiting(v) => worker[v].id \in TaskId
    BY DEF LocalsOK
  <2> QED
    BY <2>1, <2>2, <2>3, <2>4, <2>5, <2>6
<1>8. CASE Deregister(w)
  <2>1. \A v \in Worker : v # w => worker'[v] = worker[v]
    BY <1>8 DEF Deregister
  <2>2. worker'[w] = FreshWorker
    BY <1>8 DEF Deregister
  <2>3. ~Targeted(w)' /\ \A v \in Worker : Targeted(v)' => Targeted(v)
    BY <1>8, NoneAssumption DEF Deregister, ClientState
  <2>4. UNCHANGED stopSignals
    BY <1>8 DEF Deregister
  <2> HIDE DEF Targeted
  <2> QED
    BY <2>1, <2>2, <2>3, <2>4 DEF FreshWorker
<1> QED
  BY <1>1, <1>2, <1>3, <1>4, <1>5, <1>6, <1>7, <1>8, WorkerStep(w) DEF WorkerStep

\* A call that takes a cancel() from the registry has recorded the signal.
LEMMA ClientInterrupts ==
  ASSUME IInv, RegistrySound, InterruptInv, NEW c \in Client, ClientCall(c) \/ ClientStep(c)
  PROVE  InterruptInv'
<1> USE DEF IInv, EngineTypeOK, InterruptInv, InterruptedIsHonoured, Awaiting, Executing
<1>1. ASSUME NEW id \in TaskId, NEW status \in {"paused", "cancelled"}, Signal(c, id, status)
      PROVE  InterruptInv'
  <2>1. PICK v \in Worker : runningCancels[id] = v /\ Executing(v) /\ worker[v].id = id
    BY <1>1 DEF Signal, RegistrySound
  <2>2. \A u \in Worker : Targeted(u)' => Targeted(u) \/ u = v
    BY <1>1, <2>1 DEF Signal, Targeted, IdleClient
  <2>3. stopSignals' = [stopSignals EXCEPT ![id] = status] /\ UNCHANGED worker
    BY <1>1 DEF Signal
  <2>4. \A u \in Worker : Awaiting(u) => worker[u].id \in TaskId
    BY DEF LocalsOK
  <2> QED
    BY <2>1, <2>2, <2>3, <2>4
<1>2. CASE SendCancel(c)
  <2>1. \A u \in Worker : Targeted(u)' => Targeted(u)
    BY <1>2, NoneAssumption DEF SendCancel, Return, Targeted, IdleClient
  <2>2. \A u \in Worker : /\ worker'[u].pc = worker[u].pc
                          /\ worker'[u].id = worker[u].id
                          /\ worker'[u].outcome = worker[u].outcome
                          /\ worker'[u].desired = worker[u].desired
                          /\ worker'[u].cancelled => worker[u].cancelled \/ Targeted(u)
    BY <1>2 DEF SendCancel, WorkerState, Targeted
  <2>3. UNCHANGED stopSignals
    BY <1>2 DEF SendCancel, engineVars
  <2>4. \A u \in Worker : worker[u].pc = "returned" /\ worker[u].outcome = "interrupted" =>
            worker'[u].cancelled
    BY <1>2 DEF SendCancel, WorkerState
  <2> QED
    BY <2>1, <2>2, <2>3, <2>4
<1>3. ASSUME UNCHANGED <<worker, stopSignals>>, \A u \in Worker : Targeted(u)' => Targeted(u)
      PROVE  InterruptInv'
  <2> HIDE DEF IInv, EngineTypeOK
  <2> QED
    BY <1>3
<1>4. ASSUME UNCHANGED <<worker, stopSignals>>, \A d \in Client : client'[d].target \in {client[d].target, None}
      PROVE  InterruptInv'
  <2>1. \A u \in Worker : Targeted(u)' => Targeted(u)
    BY <1>4, NoneAssumption DEF Targeted
  <2> QED
    BY <1>3, <1>4, <2>1
<1>5. ASSUME Return(c)
      PROVE  \A d \in Client : client'[d].target \in {client[d].target, None}
  BY <1>5 DEF Return, IdleClient
<1>6. ASSUME NEW pc, NEW id, Proceed(c, pc, id)
      PROVE  \A d \in Client : client'[d].target \in {client[d].target, None}
  BY <1>6 DEF Proceed, ClientState
<1>7. ASSUME NEW id \in TaskId, SubmitSave(c, id) \/ StartGet(c, id)
      PROVE  InterruptInv'
  <2>1. PICK rec, pc : client' = [client EXCEPT ![c] =
                        [IdleClient EXCEPT !.pc = pc, !.id = id, !.rec = rec]]
    <3>1. CASE SubmitSave(c, id)
      BY <3>1 DEF SubmitSave
    <3>2. CASE StartGet(c, id)
      BY <3>2 DEF StartGet
    <3> QED
      BY <1>7, <3>1, <3>2
  <2>2. \A d \in Client : client'[d].target \in {client[d].target, None}
    BY <2>1 DEF IdleClient
  <2>3. UNCHANGED <<worker, stopSignals>>
    BY <1>7 DEF SubmitSave, StartGet, engineVars
  <2> QED
    BY <1>4, <2>2, <2>3
<1>8. CASE \/ \E id \in TaskId : TerminateUnregistered(c, id) \/ RemoveGet(c, id)
           \/ \E b \in Batch : CancelBatch(c, b)
           \/ PoolStop(c)
  BY <1>4, <1>6, <1>8 DEF TerminateUnregistered, RemoveGet, CancelBatch, PoolStop, engineVars
<1>9. CASE ClientStep(c) /\ ~SendCancel(c)
  BY <1>4, <1>5, <1>6, <1>9
  DEF ClientStep, SubmitEnqueue, StartEnqueue, EnqueueRefused, TerminateQueued,
      TerminateNotQueued, TerminateGet, TerminateWrite, RemoveDelete, PoolClose, engineVars
<1> QED
  BY <1>1, <1>2, <1>7, <1>8, <1>9 DEF ClientCall, StopTask, TerminateRunning, ClientStep

\* Every step keeps the interrupt invariant.
LEMMA StepInterrupts ==
  ASSUME IInv, TokenInv, RegistrySound, InterruptInv, [Next]_vars
  PROVE  InterruptInv'
<1>1. CASE UNCHANGED <<worker, client, stopSignals>>
  BY <1>1 DEF InterruptInv, InterruptedIsHonoured, Awaiting, Targeted, Executing
<1> QED
  BY <1>1, WorkerInterrupts, ClientInterrupts DEF Next, BecomeDue, Quiescent, vars, engineVars

\* A run that StopTask or Terminate interrupts ends with the status they asked
\* for; it is never taken for a failure and retried.
THEOREM InterruptsAreHonoured ==
  ASSUME Disciplined
  PROVE  Spec => []InterruptedIsHonoured
<1> DEFINE Inv == IInv /\ TokenInv /\ RegistrySound /\ InterruptInv
<1>1. Init => Inv
  <2>1. Init => RegistrySound
    BY DEF Init, RegistrySound
  <2>2. Init => InterruptInv
    BY NoneAssumption DEF Init, FreshWorker, IdleClient, InterruptInv, InterruptedIsHonoured,
                          Awaiting, Targeted
  <2> QED
    BY <2>1, <2>2, InitIInv, InitTokens
<1>2. Inv /\ [Next]_vars => Inv'
  BY StepIInv, StepTokens, StepRegistry, StepInterrupts
<1>3. Inv => InterruptedIsHonoured
  BY DEF InterruptInv
<1> QED
  BY <1>1, <1>2, <1>3, PTL DEF Spec
=============================================================================
