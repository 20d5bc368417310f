----------------------------- MODULE SqlBackend -----------------------------
(***************************************************************************)
(* The table taskpool_tasks of the SQLite and MySQL backends               *)
(* (sqlite_backend.go, mysql_backend.go).  One SQL statement is one step;  *)
(* a backend method that sends several of them is several steps of its     *)
(* caller, in SqlPool.  An UPDATE or DELETE that matches no row succeeds.  *)
(*                                                                         *)
(* The two backends send the same statements but for the claim, so one     *)
(* module serves both and `dialect` tells which of them is in use.         *)
(***************************************************************************)
EXTENDS TaskStatus

CONSTANTS
    TaskId,     \* task ids
    Batch,      \* batch ids
    BatchOf,    \* the batch each task was submitted with
    Priority    \* smaller is claimed first

ASSUME SqlBatchAssumption == BatchOf \in [TaskId -> Batch]
ASSUME PriorityAssumption == Priority \in [TaskId -> Nat]

VARIABLES
    dialect,    \* "sqlite" or "mysql"; never changes
    rows        \* the table; NoTask where there is no row

HasRow(id) == rows[id].status # "none"

\* The WHERE clause of the claim: status 0, and scheduled_at has passed.
Claimable(id) == rows[id].status = "pending" /\ rows[id].due

\* A row the claim's SELECT may return. created_at breaks ties of the
\* priority; which of the tied rows is older is left open.
FirstClaimable(id) ==
    Claimable(id) /\ \A other \in TaskId : Claimable(other) => Priority[id] <= Priority[other]

\* INSERT; a row with the same primary key is an error.
InsertRow(id, rec) == ~HasRow(id) /\ rows' = [rows EXCEPT ![id] = rec]

\* The UPDATE of Enqueue, whatever the row holds by now.
OverwriteRow(id, rec) == rows' = IF HasRow(id) THEN [rows EXCEPT ![id] = rec] ELSE rows

MarkRunning(id) == rows' = [rows EXCEPT ![id].status = "running"]

UpdateStatus(id, status) ==
    rows' = IF HasRow(id) THEN [rows EXCEPT ![id].status = status] ELSE rows

DeleteRow(id) == rows' = [rows EXCEPT ![id] = NoTask]

\* UPDATE ... WHERE status IN (0, 1), of Remove and of CancelBatch.
CancelQueuedIn(ids) ==
    rows' = [id \in TaskId |-> IF id \in ids /\ rows[id].status \in Queued
                               THEN [rows[id] EXCEPT !.status = "cancelled"]
                               ELSE rows[id]]

RunningRows == {id \in TaskId : rows[id].status = "running"}

\* Mutant: Recover looks for rows it may restart in the wrong status.
RecoverPausedRows ==
    rows' = [id \in TaskId |-> IF rows[id].status = "paused"
                               THEN [rows[id] EXCEPT !.status = "pending"]
                               ELSE rows[id]]

\* Recover: every running row of the table, whoever runs it.
RecoverRows ==
    rows' = [id \in TaskId |-> IF rows[id].status = "running"
                               THEN [rows[id] EXCEPT !.status = "pending"]
                               ELSE rows[id]]

\* Time reaches scheduled_at.
BecomeDue(id) ==
    rows[id].status = "delayed" /\ ~rows[id].due /\ rows' = [rows EXCEPT ![id].due = TRUE]
=============================================================================
