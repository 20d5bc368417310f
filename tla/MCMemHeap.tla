----------------------------- MODULE MCMemHeap -----------------------------
(* The array heap with three tasks, under every sequence of calls. *)
EXTENDS MemHeap, TLC

CONSTANTS t1, t2, t3, b1, b2

FirstApart == [id \in TaskId |-> IF id = t1 THEN b1 ELSE b2]
InOrder == (t1 :> 1 @@ t2 :> 2 @@ t3 :> 3)

New(status, due) == [status |-> status, retries |-> 0, due |-> due]
PendingOrDelayed == {New("pending", TRUE), New("delayed", FALSE)}
=============================================================================
