--------------------------- MODULE TaskLifecycle ---------------------------
(***************************************************************************)
(* What a pool promises about one task after another, whatever runs        *)
(* concurrently: the life of a task that nobody restarts or removes.       *)
(*                                                                         *)
(* The statuses are those of task.go; the steps are the arrows of the      *)
(* status diagram in the design document, read as the engine takes them.   *)
(* TaskPool is shown to implement this module.                             *)
(***************************************************************************)
EXTENDS Naturals

CONSTANTS
    TaskId,     \* task ids
    MaxRetries  \* the retry limit of each task

VARIABLES
    status,     \* "none" until the queue has accepted the task
    retries     \* how often it has been tried again

vars == <<status, retries>>

Becomes(id, new) == status' = [status EXCEPT ![id] = new]

Init ==
    /\ status = [id \in TaskId |-> "none"]
    /\ retries = [id \in TaskId |-> 0]

\* The queue accepts a new task.
Accept(id) ==
    /\ status[id] = "none"
    /\ \E new \in {"pending", "delayed"} : Becomes(id, new)
    /\ UNCHANGED retries

\* A worker takes it.
Claim(id) ==
    /\ status[id] \in {"pending", "delayed"}
    /\ Becomes(id, "running")
    /\ UNCHANGED retries

\* Its run ends for good.
End(id) ==
    /\ status[id] = "running"
    /\ \E new \in {"completed", "failed", "cancelled", "paused"} : Becomes(id, new)
    /\ UNCHANGED retries

\* Its run ends with an error and it waits for the next one.
Retry(id) ==
    /\ status[id] = "running" /\ retries[id] < MaxRetries[id]
    /\ Becomes(id, "pending")
    /\ retries' = [retries EXCEPT ![id] = @ + 1]

\* Terminate, of a task that is not running.
Terminate(id) ==
    /\ status[id] \in {"pending", "delayed", "paused", "failed"}
    /\ Becomes(id, "cancelled")
    /\ UNCHANGED retries

Next == \E id \in TaskId : Accept(id) \/ Claim(id) \/ End(id) \/ Retry(id) \/ Terminate(id)

Spec == Init /\ [][Next]_vars
=============================================================================
