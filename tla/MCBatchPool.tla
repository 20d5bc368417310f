---------------------------- MODULE MCBatchPool ----------------------------
(* One batch of two tasks of one type, one of which is retried, for TLC. *)
EXTENDS BatchPool, TLC

CONSTANTS t1, t2, w1, w2, c1, c2, b1, plain, limited, unknown

OneBatch == [id \in TaskId |-> b1]
AllLimited == [id \in TaskId |-> limited]
LimitOne == [t \in Type |-> IF t = limited THEN 1 ELSE 0]
FirstOnce == [id \in TaskId |-> IF id = t1 THEN 1 ELSE 0]
=============================================================================
