------------------------------ MODULE Progress ------------------------------
(***************************************************************************)
(* Progress reports (progress.go): SetProgress keeps the latest value in a *)
(* cache under progressMu and writes some of the values to the backend     *)
(* after releasing it; a pause writes the cached value once more; Enqueue  *)
(* of the memory backend overwrites the stored value with the copy of its  *)
(* caller, that of the SQL backends leaves it alone.                       *)
(*                                                                         *)
(* A value is the serial number of its report, in the order in which the   *)
(* reports took the lock; 0 is no progress.  Of the pool only what touches *)
(* progress is here: when a run begins, how it ends, and Start.  A handler *)
(* may report from several goroutines, and waits for them before it        *)
(* returns.  Backend writes succeed.                                       *)
(***************************************************************************)
EXTENDS Naturals

CONSTANTS
    TaskId,         \* task ids
    Reporter,       \* goroutines that call SetProgress
    Throttled,      \* whether ProgressThrottle is set
    ReportBound,    \* how many reports are made of each task
    CrashBound      \* how often the process crashes and boots again

ASSUME ProgressAssumption ==
    Throttled \in BOOLEAN /\ ReportBound \in Nat /\ CrashBound \in Nat
ASSUME NamesAssumption == "none" \notin TaskId     \* what an idle reporter has

VARIABLES
    sql,        \* whether the backend is SQLite or MySQL; never changes
    run,        \* where each task is
    clone,      \* the value in the copy its worker has dequeued
    starting,   \* the tasks a Start has read and not yet enqueued
    copy,       \* the value in the copy that Start has read
    reports,    \* how many reports have been made of each task
    cache,      \* p.progress; 0 where there is no entry
    stored,     \* ProgressCurrent in the backend
    flushing,   \* per reporter: the task and value it is about to write
    crashes,
    paused      \* history: what a task had reported when it paused, until it runs again

calls == <<starting, copy>>
vars == <<sql, run, clone, calls, reports, cache, stored, flushing, crashes, paused>>

Idle == [id |-> "none", value |-> 0]

RunStates == {"queued", "running", "returned", "pausing", "paused", "ended"}

Init ==
    /\ sql \in BOOLEAN
    /\ run = [id \in TaskId |-> "queued"]
    /\ clone = [id \in TaskId |-> 0]
    /\ starting = {}
    /\ copy = [id \in TaskId |-> 0]
    /\ reports = [id \in TaskId |-> 0]
    /\ cache = [id \in TaskId |-> 0]
    /\ stored = [id \in TaskId |-> 0]
    /\ flushing = [r \in Reporter |-> Idle]
    /\ crashes = 0
    /\ paused = [id \in TaskId |-> 0]

Goes(id, from, to) == run[id] = from /\ run' = [run EXCEPT ![id] = to]

Store(id, value) == stored' = [stored EXCEPT ![id] = value]

\* Enqueue: the value of the caller's copy is stored by the memory backend.
Requeue(id, value) == IF sql THEN UNCHANGED stored ELSE Store(id, value)

Claim(id) ==
    /\ Goes(id, "queued", "running")
    /\ clone' = [clone EXCEPT ![id] = stored[id]]
    /\ paused' = [paused EXCEPT ![id] = 0]
    /\ UNCHANGED <<sql, calls, reports, cache, stored, flushing, crashes>>

-----------------------------------------------------------------------------
(* SetProgress *)

\* The first report of a task is always written; a later one if there is no
\* throttle or its interval has passed.
Report(r, id) ==
    /\ run[id] = "running" /\ flushing[r] = Idle
    /\ reports[id] < ReportBound
    /\ reports' = [reports EXCEPT ![id] = @ + 1]
    /\ cache' = [cache EXCEPT ![id] = reports'[id]]
    /\ \/ flushing' = [flushing EXCEPT ![r] = [id |-> id, value |-> reports'[id]]]
       \/ Throttled /\ cache[id] # 0 /\ UNCHANGED flushing
    /\ UNCHANGED <<sql, run, clone, calls, stored, crashes, paused>>

\* UpdateProgress, when progressMu has been released.
Flush(r) ==
    /\ flushing[r] # Idle
    /\ Store(flushing[r].id, flushing[r].value)
    /\ flushing' = [flushing EXCEPT ![r] = Idle]
    /\ UNCHANGED <<sql, run, clone, calls, reports, cache, crashes, paused>>

-----------------------------------------------------------------------------
(* Runs *)

Return(id) ==
    /\ \A r \in Reporter : flushing[r].id # id
    /\ Goes(id, "running", "returned")
    /\ UNCHANGED <<sql, clone, calls, reports, cache, stored, flushing, crashes, paused>>

\* Mutant: the throttled value is not written.
PauseUnflushed(id) ==
    /\ Goes(id, "returned", "pausing")
    /\ UNCHANGED <<sql, clone, calls, reports, cache, stored, flushing, crashes, paused>>

\* Mutant: a pause writes the progress of the worker's own copy.
PauseFlushesClone(id) ==
    /\ Goes(id, "returned", "pausing")
    /\ Store(id, clone[id])
    /\ UNCHANGED <<sql, clone, calls, reports, cache, flushing, crashes, paused>>

\* A pause writes the cached value, if there is one, ...
PauseFlush(id) ==
    /\ Goes(id, "returned", "pausing")
    /\ IF cache[id] # 0 THEN Store(id, cache[id]) ELSE UNCHANGED stored
    /\ UNCHANGED <<sql, clone, calls, reports, cache, flushing, crashes, paused>>

\* ... and then the status.
Pause(id) ==
    /\ Goes(id, "pausing", "paused")
    /\ paused' = [paused EXCEPT ![id] = IF cache[id] # 0 THEN cache[id] ELSE clone[id]]
    /\ UNCHANGED <<sql, clone, calls, reports, cache, stored, flushing, crashes>>

End(id) ==
    /\ Goes(id, "returned", "ended")
    /\ UNCHANGED <<sql, clone, calls, reports, cache, stored, flushing, crashes, paused>>

Retry(id) ==
    /\ Goes(id, "returned", "queued")
    /\ Requeue(id, clone[id])
    /\ UNCHANGED <<sql, clone, calls, reports, cache, flushing, crashes, paused>>

-----------------------------------------------------------------------------
(* Start and Continue, one call at a time for each task *)

StartGet(id) ==
    /\ run[id] \in {"paused", "ended"} /\ id \notin starting
    /\ starting' = starting \cup {id}
    /\ copy' = [copy EXCEPT ![id] = stored[id]]
    /\ UNCHANGED <<sql, run, clone, reports, cache, stored, flushing, crashes, paused>>

StartEnqueue(id) ==
    /\ id \in starting
    /\ starting' = starting \ {id}
    /\ run' = [run EXCEPT ![id] = "queued"]
    /\ Requeue(id, copy[id])
    /\ UNCHANGED <<sql, clone, copy, reports, cache, flushing, crashes, paused>>

\* The process dies, with its cache, and boots on the same database: Recover
\* queues the tasks that were running.
CrashAndBoot ==
    /\ sql /\ crashes < CrashBound
    /\ crashes' = crashes + 1
    /\ run' = [id \in TaskId |-> IF run[id] \in {"running", "returned", "pausing"}
                                 THEN "queued" ELSE run[id]]
    /\ cache' = [id \in TaskId |-> 0]
    /\ flushing' = [r \in Reporter |-> Idle]
    /\ starting' = {}
    /\ UNCHANGED <<sql, clone, copy, reports, stored, paused>>

Next ==
    \/ \E id \in TaskId : Claim(id) \/ Return(id) \/ PauseFlush(id) \/ Pause(id) \/ End(id) \/ Retry(id)
    \/ \E id \in TaskId : StartGet(id) \/ StartEnqueue(id)
    \/ \E r \in Reporter : Flush(r) \/ \E id \in TaskId : Report(r, id)
    \/ CrashAndBoot

Spec == Init /\ [][Next]_vars

-----------------------------------------------------------------------------
(* Properties *)

\* A pause keeps the progress (engine.go:381): what a paused task has reported
\* last is what its next run finds in its task, whatever the throttle held
\* back, in whatever order concurrent reports reached the backend, and also
\* when the process crashes in between.
PauseKeepsProgress == \A id \in TaskId : paused[id] # 0 => stored[id] = paused[id]

\* Stored progress goes back in two ways only: concurrent reports overtake each
\* other between the lock and the backend, and the retry of the memory backend
\* writes back the value the run began with. No pause, Start or crash does it.
GoesBackOnlyTwoWays ==
    [][\A id \in TaskId : stored'[id] < stored[id] =>
        \/ ~sql /\ Retry(id)
        \/ \E r \in Reporter : Reporter # {r} /\ Flush(r)]_vars
=============================================================================
