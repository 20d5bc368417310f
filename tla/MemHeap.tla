------------------------------ MODULE MemHeap ------------------------------
(***************************************************************************)
(* The in-memory backend with its queue as it is stored: an array that     *)
(* container/heap keeps in heap order and that dequeue scans from the      *)
(* front.  MemoryBackend, over which the pool is specified, has a bag in   *)
(* its place and leaves open which ready task is handed out; here the      *)
(* array decides.                                                          *)
(*                                                                         *)
(* A method writes the array and, still under m.mu, lets container/heap    *)
(* put it in order again: one comparison of its loops is one step, and the *)
(* next method waits until they are over.                                  *)
(*                                                                         *)
(* An item is the id of its task: a task's Priority and CreatedAt never    *)
(* change, so all the items of a task compare alike.                       *)
(***************************************************************************)
EXTENDS Integers, Sequences, FiniteSets, Functions, TaskStatus

CONSTANTS
    TaskId,     \* task ids
    Batch,      \* batch ids
    BatchOf,    \* the batch each task was submitted with
    QueueCap,   \* m.cap, MaxQueueSize
    Rank,       \* the place of each task by Priority, then CreatedAt
    Accepted,   \* the records Save and Enqueue are called with
    Ends        \* the statuses UpdateStatus is called with

ASSUME RankAssumption == Rank \in [TaskId -> Nat]
ASSUME CallerAssumption ==
    Accepted \subseteq [status : Queued, retries : 0 .. RetryBound, due : BOOLEAN]
    /\ Ends \subseteq SettledStatuses

VARIABLES
    tasks,      \* m.tasks
    heap,       \* m.items
    inQueue,    \* m.inQueue
    closed,     \* m.closed
    unqueued,   \* history, as in MemoryBackend
    sift        \* which loop of container/heap is running, and where it is

heapVars == <<tasks, heap, inQueue, closed, unqueued, sift>>

Items(q) == [id \in TaskId |-> Cardinality({i \in DOMAIN q : q[i] = id})]

Bag == INSTANCE MemoryBackend WITH items <- Items(heap)

-----------------------------------------------------------------------------
(* container/heap, over positions 1 .. Len(q): the children of i are 2 * i *)
(* and 2 * i + 1.  way: the loop; at: the position of the item it moves;   *)
(* from: where down began, and how far Init has come.                      *)

Sifting(way, i) == [way |-> way, at |-> i, from |-> i]

\* No loop runs: m.mu is free, or held by a method about to begin or to return.
Resting == Sifting("none", 0)

\* Mutant: the larger number comes first.
LessReversed(q, i, j) == Rank[q[i]] > Rank[q[j]]

Less(q, i, j) == Rank[q[i]] < Rank[q[j]]

Swap(q, i, j) == [q EXCEPT ![i] = q[j], ![j] = q[i]]

\* The right child only if it is smaller than the left one.
SmallerChild(q, i) ==
    IF 2 * i + 1 <= Len(q) /\ Less(q, 2 * i + 1, 2 * i) THEN 2 * i + 1 ELSE 2 * i

\* The moved item changes places with the one at i.
MoveTo(i) ==
    /\ heap' = Swap(heap, sift.at, i)
    /\ sift' = [sift EXCEPT !.at = i]

Up ==
    LET parent == sift.at \div 2
    IN  /\ sift.way = "up"
        /\ IF parent >= 1 /\ Less(heap, sift.at, parent)
           THEN MoveTo(parent)
           ELSE sift' = Resting /\ UNCHANGED heap

\* What follows when the item has come to rest: Remove moves it up if it has
\* not moved down, and Init goes on to the position before.
AfterDown ==
    CASE sift.way = "down" /\ sift.at = sift.from -> Sifting("up", sift.at)
      [] sift.way = "init" /\ sift.from > 1 -> Sifting("init", sift.from - 1)
      [] OTHER -> Resting

Down ==
    LET child == SmallerChild(heap, sift.at)
    IN  /\ sift.way \in {"down", "init"}
        /\ IF 2 * sift.at <= Len(heap) /\ Less(heap, child, sift.at)
           THEN MoveTo(child)
           ELSE sift' = AfterDown /\ UNCHANGED heap

Push(id) ==
    /\ heap' = Append(heap, id)
    /\ sift' = Sifting("up", Len(heap) + 1)

Front(q) == SubSeq(q, 1, Len(q) - 1)

\* Mutant: the last item takes the place of the removed one and stays there.
DeleteUnsifted(i) ==
    /\ heap' = Front(Swap(heap, i, Len(heap)))
    /\ sift' = Resting

\* heap.Remove: the last item takes the place of the removed one and moves.
Delete(i) ==
    /\ heap' = Front(Swap(heap, i, Len(heap)))
    /\ sift' = IF i = Len(heap) THEN Resting ELSE Sifting("down", i)

\* The items of the given tasks, in the order they have in the array.
Filter(ids) ==
    LET kept == {i \in DOMAIN heap : heap[i] \in ids}
    IN  \E place \in [1 .. Cardinality(kept) -> kept] :
            /\ \A i, j \in 1 .. Cardinality(kept) : i < j => place[i] < place[j]
            /\ heap' = [i \in 1 .. Cardinality(kept) |-> heap[place[i]]]

\* heap.Init of the array that the method has written.
InitHeap == sift' = IF Len(heap') < 2 THEN Resting ELSE Sifting("init", Len(heap') \div 2)

-----------------------------------------------------------------------------
(* The methods, each under m.mu *)

Stored(id) == tasks[id].status # "none"
IsQueued(id) == tasks[id].status \in Queued

Ready(id) == IsQueued(id) /\ tasks[id].due

Init ==
    /\ tasks = [id \in TaskId |-> NoTask]
    /\ heap = <<>>
    /\ inQueue = {}
    /\ closed = FALSE
    /\ unqueued = {}
    /\ sift = Resting

Save(id, rec) ==
    /\ tasks' = [tasks EXCEPT ![id] = rec]
    /\ unqueued' = unqueued \cup {id}
    /\ UNCHANGED <<heap, sift, inQueue, closed>>

Enqueue(id, rec) ==
    /\ ~closed /\ Len(heap) < QueueCap
    /\ tasks' = [tasks EXCEPT ![id] = rec]
    /\ IF id \in inQueue THEN UNCHANGED <<heap, sift>> ELSE Push(id)
    /\ inQueue' = inQueue \cup {id}
    /\ unqueued' = unqueued \ {id}
    /\ UNCHANGED closed

\* The scan stops at the first item whose task is ready.
DequeueAt(i) ==
    /\ Ready(heap[i]) /\ \A j \in 1 .. i - 1 : ~Ready(heap[j])
    /\ tasks' = [tasks EXCEPT ![heap[i]].status = "running"]
    /\ Delete(i)
    /\ inQueue' = inQueue \ {heap[i]}
    /\ UNCHANGED <<closed, unqueued>>

Dequeue == \E i \in 1 .. Len(heap) : DequeueAt(i)

\* The first item that names the task leaves the heap.
RemoveItem(id) ==
    IF \E i \in DOMAIN heap : heap[i] = id
    THEN \E i \in DOMAIN heap : heap[i] = id /\ (\A j \in 1 .. i - 1 : heap[j] # id) /\ Delete(i)
    ELSE UNCHANGED <<heap, sift>>

\* Mutant: the id stays in the index when its item leaves the heap.
RemoveKeepsIndex(id) ==
    /\ IsQueued(id)
    /\ tasks' = [tasks EXCEPT ![id].status = "cancelled"]
    /\ RemoveItem(id)
    /\ UNCHANGED <<inQueue, closed, unqueued>>

Remove(id) ==
    /\ IsQueued(id)
    /\ tasks' = [tasks EXCEPT ![id].status = "cancelled"]
    /\ RemoveItem(id)
    /\ inQueue' = inQueue \ {id}
    /\ UNCHANGED <<closed, unqueued>>

DeleteTask(id) ==
    /\ tasks' = [tasks EXCEPT ![id] = NoTask]
    /\ inQueue' = inQueue \ {id}
    /\ UNCHANGED <<heap, sift, closed, unqueued>>

UpdateStatus(id, status) ==
    /\ Stored(id)
    /\ tasks' = [tasks EXCEPT ![id].status = status]
    /\ UNCHANGED <<heap, sift, inQueue, closed, unqueued>>

\* The filter as it is: items of waiting tasks are dropped, of any batch.
CancelBatch(b) ==
    LET cancelled == {id \in TaskId : BatchOf[id] = b /\ IsQueued(id)}
        waiting   == {id \in TaskId : IsQueued(id)} \ cancelled
        remaining == {id \in TaskId : Stored(id)} \ waiting
    IN  /\ tasks' = [id \in TaskId |->
                        IF id \in cancelled THEN [tasks[id] EXCEPT !.status = "cancelled"]
                                            ELSE tasks[id]]
        /\ Filter(remaining) /\ InitHeap
        /\ inQueue' = Range(heap')
        /\ unqueued' = unqueued \cup waiting
        /\ UNCHANGED closed

Close == closed' = TRUE /\ UNCHANGED <<tasks, heap, sift, inQueue, unqueued>>

BecomeDue(id) ==
    /\ tasks[id].status = "delayed" /\ ~tasks[id].due
    /\ tasks' = [tasks EXCEPT ![id].due = TRUE]
    /\ UNCHANGED <<heap, sift, inQueue, closed, unqueued>>

-----------------------------------------------------------------------------
Method ==
    \/ \E id \in TaskId, rec \in Accepted : Save(id, rec) \/ Enqueue(id, rec)
    \/ Dequeue
    \/ \E id \in TaskId : Remove(id) \/ DeleteTask(id) \/ BecomeDue(id)
    \/ \E id \in TaskId, status \in Ends : UpdateStatus(id, status)
    \/ \E b \in Batch : CancelBatch(b)
    \/ Close

Sift == (Up \/ Down) /\ UNCHANGED <<tasks, inQueue, closed, unqueued>>

Next == (sift = Resting /\ Method) \/ Sift

Spec == Init /\ [][Next]_heapVars

-----------------------------------------------------------------------------
(* Properties *)

\* The array is a heap after every method: also where an item is taken from its
\* middle, as dequeue and Remove do, and where CancelBatch builds it anew.
HeapOrdered == sift = Resting => \A i \in 2 .. Len(heap) : ~Less(heap, i, i \div 2)

\* The methods implement MemoryBackend: what holds of the bag of items for
\* every choice of dequeue, and what the pool is built on, holds of the array.
ImplementsBackend == Bag!MemSpec

\* As long as every item in the queue is ready, tasks are handed out by
\* priority and, within one, by age (pool_test.go:41). A delayed or a stale
\* item at the root is enough to hand out a child before its smaller sibling.
FirstOfReady ==
    [][\A i \in 1 .. Len(heap) :
        sift = Resting /\ DequeueAt(i) /\ (\A j \in 1 .. Len(heap) : Ready(heap[j]))
            => \A j \in 1 .. Len(heap) : Rank[heap[i]] <= Rank[heap[j]]]_heapVars
=============================================================================
