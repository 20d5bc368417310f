------------------------ MODULE MemoryBackendProofs ------------------------
(***************************************************************************)
(* The backend keeps its two structures consistent, whoever calls it.      *)
(*                                                                         *)
(* QueueCoverage is not inductive alone: Enqueue skips the push when the   *)
(* index holds the id, so the index must be backed by the heap.            *)
(***************************************************************************)
EXTENDS MemoryBackend, TLAPS

MemInv == MemTypeOK /\ IndexBacked /\ QueueCoverage

\* The absent record is a record, and is not queued.
LEMMA NoTaskType == NoTask \in TaskRecord /\ NoTask.status \notin Queued
  BY RetryBoundAssumption DEF NoTask, TaskRecord, TaskStatuses, Queued

\* The empty backend is consistent.
LEMMA MemInitInv == MemInit => MemInv
<1> SUFFICES ASSUME MemInit PROVE MemInv
  OBVIOUS
<1>1. MemTypeOK
  BY NoTaskType DEF MemInit, MemTypeOK
<1>2. IndexBacked /\ QueueCoverage
  BY NoTaskType DEF MemInit, IndexBacked, QueueCoverage, IsQueued
<1> QED
  BY <1>1, <1>2 DEF MemInv

\* Every method of the backend keeps the index and the map consistent with
\* the heap.
LEMMA MemStepInv == MemInv /\ [MemNext]_memVars => MemInv'
<1> SUFFICES ASSUME MemInv, [MemNext]_memVars PROVE MemInv'
  OBVIOUS
<1> USE DEF MemInv, MemTypeOK, IndexBacked, QueueCoverage, IsQueued, Queued
<1>1. ASSUME NEW id \in TaskId, NEW rec \in QueuedRecord, MemSave(id, rec)
      PROVE  MemInv'
  BY <1>1 DEF MemSave, QueuedRecord, TaskRecord, TaskStatuses
<1>2. ASSUME NEW id \in TaskId, NEW rec \in QueuedRecord, MemEnqueue(id, rec)
      PROVE  MemInv'
  BY <1>2 DEF MemEnqueue, QueuedRecord, TaskRecord, TaskStatuses
<1>3. ASSUME NEW id \in TaskId, MemDequeue(id)
      PROVE  MemInv'
  BY <1>3 DEF MemDequeue, Ready, TaskRecord, TaskStatuses
<1>4. ASSUME NEW id \in TaskId, MemRemove(id)
      PROVE  MemInv'
  BY <1>4 DEF MemRemove, TaskRecord, TaskStatuses
<1>5. ASSUME NEW id \in TaskId, MemDelete(id)
      PROVE  MemInv'
  BY <1>5, NoTaskType DEF MemDelete
<1>6. ASSUME NEW id \in TaskId, MemBecomeDue(id)
      PROVE  MemInv'
  BY <1>6 DEF MemBecomeDue, TaskRecord, TaskStatuses
<1>7. ASSUME NEW id \in TaskId, NEW status \in SettledStatuses, MemUpdateStatus(id, status)
      PROVE  MemInv'
  BY <1>7 DEF MemUpdateStatus, SettledStatuses, TaskRecord, TaskStatuses
<1>8. ASSUME NEW b \in Batch, MemCancelBatch(b)
      PROVE  MemInv'
  BY <1>8 DEF MemCancelBatch, Stored, TaskRecord, TaskStatuses
<1>9. CASE MemClose
  BY <1>9 DEF MemClose
<1>10. CASE UNCHANGED memVars
  BY <1>10 DEF memVars
<1> QED
  BY <1>1, <1>2, <1>3, <1>4, <1>5, <1>6, <1>7, <1>8, <1>9, <1>10 DEF MemNext, MemWrite

\* Only Dequeue sets a task running.
LEMMA MemWriteRunsNothing ==
  ASSUME MemInv, [MemWrite]_memVars, NEW id \in TaskId, tasks'[id].status = "running"
  PROVE  tasks[id].status = "running"
<1> USE DEF MemInv, MemTypeOK, TaskRecord
<1>1. ASSUME NEW i \in TaskId, NEW rec \in QueuedRecord, MemSave(i, rec) \/ MemEnqueue(i, rec)
      PROVE  tasks[id].status = "running"
  BY <1>1 DEF MemSave, MemEnqueue, QueuedRecord, Queued
<1>2. ASSUME NEW i \in TaskId, MemRemove(i) \/ MemDelete(i) \/ MemBecomeDue(i)
      PROVE  tasks[id].status = "running"
  BY <1>2 DEF MemRemove, MemDelete, MemBecomeDue, NoTask
<1>3. ASSUME NEW i \in TaskId, NEW status \in SettledStatuses, MemUpdateStatus(i, status)
      PROVE  tasks[id].status = "running"
  BY <1>3 DEF MemUpdateStatus, SettledStatuses
<1>4. ASSUME NEW b \in Batch, MemCancelBatch(b)
      PROVE  tasks[id].status = "running"
  BY <1>4 DEF MemCancelBatch
<1>5. CASE MemClose \/ UNCHANGED memVars
  BY <1>5 DEF MemClose, memVars
<1> QED
  BY <1>1, <1>2, <1>3, <1>4, <1>5 DEF MemWrite

\* The index and the map are consistent with the heap in every state of the
\* backend, so no accepted task is ever out of the reach of Dequeue (except
\* those whose item CancelBatch throws away).
THEOREM BackendConsistent == MemSpec => []MemInv
<1>1. MemInit => MemInv
  BY MemInitInv
<1>2. MemInv /\ [MemNext]_memVars => MemInv'
  BY MemStepInv
<1> QED
  BY <1>1, <1>2, PTL DEF MemSpec
=============================================================================
