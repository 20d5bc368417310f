----------------------------- MODULE MCTaskPool -----------------------------
(* Small instances of the pool for TLC. *)
EXTENDS TaskPoolProperties, TLC

CONSTANTS t1, t2, w1, w2, c1, c2, b1, b2, plain, limited, unknown

\* One type for all tasks; or a batch (type) for each.
SameBatch == [id \in TaskId |-> b1]
OwnBatch == [id \in TaskId |-> IF id = t1 THEN b1 ELSE b2]

AllPlain == [id \in TaskId |-> plain]
AllLimited == [id \in TaskId |-> limited]
MixedTypes == [id \in TaskId |-> IF id = t1 THEN limited ELSE unknown]
LimitOne == [t \in Type |-> IF t = limited THEN 1 ELSE 0]

Once == [id \in TaskId |-> 1]
Never == [id \in TaskId |-> 0]

WorkerSymmetry == Permutations(Worker)
ClientSymmetry == Permutations(Client)
PoolSymmetry == Permutations(Worker) \cup Permutations(Client)
=============================================================================
