----------------------------- MODULE MCSqlPool -----------------------------
(* Two processes on one table, for TLC. *)
EXTENDS SqlPool, TLC

CONSTANTS t1, t2, p1, p2, w1, w2, c1, c2, b1

OneBatch == [id \in TaskId |-> b1]
FirstComesFirst == [id \in TaskId |-> IF id = t1 THEN 0 ELSE 1]
Apart == [a \in Actor |-> IF a \in {w1, c1} THEN p1 ELSE p2]

Was(status) == [NoTask EXCEPT !.status = status]

\* What was in the table when everything went down: nothing; perhaps a task
\* that waited; t1, which ran.
Nothing == [id \in TaskId |-> {NoTask}]
PerhapsPending == [id \in TaskId |-> {NoTask, Was("pending")}]
FirstRan == [id \in TaskId |-> IF id = t1 THEN {Was("running")} ELSE {NoTask}]

Once == [id \in TaskId |-> 1]
FirstOnce == [id \in TaskId |-> IF id = t1 THEN 1 ELSE 0]
=============================================================================
