----------------------------- MODULE BatchPool -----------------------------
(***************************************************************************)
(* The pool with its batch counters (trackBatchSubmit and                  *)
(* checkBatchCompletion in engine.go).  They follow the steps of TaskPool  *)
(* and never hold one up for another: Submit counts its task after Enqueue *)
(* has let the workers have it, and a run counts itself as done between    *)
(* the record of its end and its deferred calls.                           *)
(*                                                                         *)
(* Every task has a batch, metrics are on (New creates them), and the      *)
(* program has set OnBatchComplete.                                        *)
(***************************************************************************)
EXTENDS TaskPoolProperties

CONSTANT CallbackBound   \* callbacks of one batch are counted up to this number

ASSUME CallbackAssumption == CallbackBound \in Nat \ {0}
ASSUME TaskIdAssumption == IsFiniteSet(TaskId)   \* ids are 128-bit UUIDs

VARIABLES
    total,      \* batchCounters[b].total; 0 where there is no counter
    done,       \* batchCounters[b].done
    tracking,   \* per client: the task it still has to count
    checking,   \* per worker: how far its checkBatchCompletion is
    callbacks,  \* how often OnBatchComplete has been called for each batch
    counted,    \* history: tasks in some total
    early,      \* history: batches of which a run ended before all were counted
    silent      \* history: tasks that ended without a checkBatchCompletion

batchVars == <<total, done, tracking, checking, callbacks, counted, early, silent>>

Members(b) == {id \in TaskId : BatchOf[id] = b}

BatchTypeOK ==
    /\ total \in [Batch -> 0 .. Cardinality(TaskId)]
    /\ done \in [Batch -> Nat]
    /\ tracking \in [Client -> TaskId \cup {None}]
    /\ checking \in [Worker -> {"no", "count", "call"}]
    /\ callbacks \in [Batch -> 0 .. CallbackBound]
    /\ counted \in SUBSET TaskId
    /\ early \in SUBSET Batch
    /\ silent \in SUBSET TaskId

BatchInit ==
    /\ Init
    /\ total = [b \in Batch |-> 0]
    /\ done = [b \in Batch |-> 0]
    /\ tracking = [c \in Client |-> None]
    /\ checking = [w \in Worker |-> "no"]
    /\ callbacks = [b \in Batch |-> 0]
    /\ counted = {} /\ early = {} /\ silent = {}

-----------------------------------------------------------------------------
(* Runs *)

Busy(w) == checking[w] # "no"

Checks(w, step) == checking' = [checking EXCEPT ![w] = step]

\* The paths of executeTask that go through checkBatchCompletion.
EndRun(w) ==
    /\ UnknownType(w) \/ SettleIntervened(w) \/ SettleCompleted(w) \/ SettleFailed(w)
    /\ Checks(w, "count")
    /\ UNCHANGED <<total, done, tracking, callbacks, counted, early, silent>>

\* A refused retry fails and returns without.
EndRunSilently(w) ==
    /\ FailRefusedRetry(w)
    /\ silent' = silent \cup {worker[w].id}
    /\ UNCHANGED <<total, done, tracking, checking, callbacks, counted, early>>

\* No run ends. The deferred calls wait for the completion check.
OtherWorkerStep(w) ==
    /\ ~Busy(w)
    /\ \/ Park(w) \/ Exit(w) \/ \E id \in TaskId : Dequeue(w, id)
       \/ BeginExecution(w) \/ Abandon(w) \/ HandlerReturn(w) \/ CheckSignal(w)
       \/ SettleRetry(w) \/ SettleRetryRefused(w) \/ Deregister(w)
    /\ UNCHANGED batchVars

\* Mutant: a batch completes when all but one of its tasks are done.
LeavesOne(b) == total[b] - (done[b] + 1) > 1

\* remaining > 0, after done++
Leaves(b) == total[b] - (done[b] + 1) > 0

\* Under batchMu. There is no counter before the first task has been counted.
CountDone(w) ==
    LET b == BatchOf[worker[w].id]
    IN  /\ checking[w] = "count"
        /\ IF total[b] = 0
           THEN Checks(w, "no") /\ UNCHANGED done
           ELSE /\ done' = [done EXCEPT ![b] = @ + 1]
                /\ Checks(w, IF Leaves(b) THEN "no" ELSE "call")
        /\ early' = IF Members(b) \subseteq counted THEN early ELSE early \cup {b}
        /\ UNCHANGED <<vars, total, tracking, callbacks, counted, silent>>

\* ListByBatchID, and the callback unless all tasks of the batch are gone.
CallBack(w) ==
    LET b == BatchOf[worker[w].id]
    IN  /\ checking[w] = "call"
        /\ callbacks[b] < CallbackBound
        /\ callbacks' = IF \E id \in Members(b) : Stored(id)
                        THEN [callbacks EXCEPT ![b] = @ + 1] ELSE callbacks
        /\ Checks(w, "no")
        /\ UNCHANGED <<vars, total, done, tracking, counted, early, silent>>

-----------------------------------------------------------------------------
(* Calls *)

\* A call takes its next step. After an Enqueue that has been accepted, Submit
\* goes on to count its task; a waiting task that is cancelled ends uncounted.
Call(c) ==
    /\ tracking[c] = None
    /\ ClientCall(c) \/ ClientStep(c)
    /\ tracking' = [tracking EXCEPT ![c] =
                        IF client[c].pc = "submitting" /\ MemAccepts THEN client[c].id ELSE None]
    /\ silent' = silent \cup {id \in TaskId : IsQueued(id) /\ tasks'[id].status = "cancelled"}
    /\ UNCHANGED <<total, done, checking, callbacks, counted, early>>

\* Mutant: the first task of a batch is counted twice.
TrackTwice(c) ==
    LET b == BatchOf[tracking[c]]
    IN  /\ tracking[c] # None
        /\ total' = [total EXCEPT ![b] = IF @ = 0 THEN 2 ELSE @ + 1]
        /\ counted' = counted \cup {tracking[c]}
        /\ tracking' = [tracking EXCEPT ![c] = None]
        /\ UNCHANGED <<vars, done, checking, callbacks, early, silent>>

TrackSubmit(c) ==
    LET b == BatchOf[tracking[c]]
    IN  /\ tracking[c] # None
        /\ total' = [total EXCEPT ![b] = @ + 1]
        /\ counted' = counted \cup {tracking[c]}
        /\ tracking' = [tracking EXCEPT ![c] = None]
        /\ UNCHANGED <<vars, done, checking, callbacks, early, silent>>

-----------------------------------------------------------------------------
RunStep(w) ==
    EndRun(w) \/ EndRunSilently(w) \/ OtherWorkerStep(w) \/ CountDone(w) \/ CallBack(w)

AllVars == <<vars, batchVars>>

BatchNext ==
    \/ \E w \in Worker : RunStep(w)
    \/ \E c \in Client : Call(c) \/ TrackSubmit(c)
    \/ \E id \in TaskId : BecomeDue(id) /\ UNCHANGED batchVars
    \/ Quiescent /\ (\A c \in Client : tracking[c] = None) /\ UNCHANGED batchVars

BatchSpec == BatchInit /\ [][BatchNext]_AllVars

\* As for the pool: goroutines that can run do run.
BatchFairness ==
    /\ \A w \in Worker : WF_AllVars(RunStep(w))
    /\ \A c \in Client : WF_AllVars(TrackSubmit(c)) /\ WF_AllVars(Call(c) /\ client[c].pc # "idle")
    /\ \A id \in TaskId : WF_AllVars(BecomeDue(id) /\ UNCHANGED batchVars)

FairBatchSpec == BatchSpec /\ BatchFairness

-----------------------------------------------------------------------------
(* Properties *)

\* Where every task has been counted before the first run ended, the callback
\* comes when all of them have ended: a retry, a failure, a pause or a
\* termination of some of them neither brings it forward nor is taken for two.
CallbackAfterAll ==
    \A b \in Batch : callbacks[b] > 0 =>
        b \in early \/ \A id \in Members(b) : tasks[id].status \in SettledStatuses

\* There it comes once, although several workers may be checking at once.
CallbackOnce == \A b \in Batch : callbacks[b] > 1 => b \in early

\* And there it does come, unless a task of the batch ended where nobody counts:
\* terminated while it waited, or failed because its retry was refused.
BatchCompletes ==
    \A b \in Batch : Members(b) \subseteq counted ~>
        callbacks[b] > 0 \/ b \in early \/ Members(b) \cap silent # {} \/ poolDone
=============================================================================
