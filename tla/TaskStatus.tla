----------------------------- MODULE TaskStatus -----------------------------
(***************************************************************************)
(* The task record shared by the engine and the backends (task.go).        *)
(*                                                                         *)
(* A stored task keeps what the control flow reads: its status, the number *)
(* of retries already spent, and whether its ScheduledAt lies in the past  *)
(* (`due`; the zero time counts as past).  Payload, result, metadata,      *)
(* progress and time stamps are data and are left out; type, batch and     *)
(* retry limit never change after submission and are constant functions.   *)
(***************************************************************************)
EXTENDS Naturals

CONSTANT RetryBound   \* no task is submitted with a higher retry limit

ASSUME RetryBoundAssumption == RetryBound \in Nat

\* StatusRetrying exists in the enumeration but nothing ever assigns it.
TaskStatuses == {"pending", "delayed", "running", "completed",
                 "failed", "cancelled", "paused"}

\* Waiting in the queue: what Dequeue, Remove and CancelBatch accept.
Queued == {"pending", "delayed"}

\* How an activation ends.
SettledStatuses == {"completed", "failed", "cancelled", "paused"}

StartableOrCompleted == {"delayed", "paused", "failed", "cancelled", "completed"}

\* What Start accepts; every other status is answered ErrTaskNotStartable.
Startable == {"delayed", "paused", "failed", "cancelled"}

TaskRecord == [status : TaskStatuses \cup {"none"}, retries : 0 .. RetryBound, due : BOOLEAN]

\* The record of an id the map does not hold.
NoTask == [status |-> "none", retries |-> 0, due |-> TRUE]
=============================================================================
