---------------------------- MODULE BatchProofs ----------------------------
(***************************************************************************)
(* The completion callback of a batch comes when all its tasks have ended, *)
(* and comes once, for any number of workers, clients, tasks and batches,  *)
(* where nobody calls Start, Remove or CancelBatch and the whole batch has *)
(* been counted before its first run ended.                                *)
(*                                                                         *)
(* The counters live beside the pool and read nothing back to it, so the   *)
(* invariants of the pool carry over.  From them comes that an ended task  *)
(* never runs again; so each task is counted as done at most once, and     *)
(* `done` never exceeds the number of members that have ended and are not  *)
(* on a worker's way to batchMu.  A worker that finds nothing left has     *)
(* therefore counted the last of them, and no other worker can find that   *)
(* after it.                                                               *)
(***************************************************************************)
EXTENDS BatchPool, LifecycleProofs

\* The counters only observe: a step with them is a step of the pool, or none.
LEMMA BatchIsPool ==
  ASSUME [BatchNext]_AllVars
  PROVE  [Next]_vars
<1>1. ASSUME NEW w \in Worker, RunStep(w)
      PROVE  [Next]_vars
  BY <1>1 DEF RunStep, EndRun, EndRunSilently, OtherWorkerStep, CountDone, CallBack, Next,
              WorkerStep, Settle
<1>2. ASSUME NEW c \in Client, Call(c) \/ TrackSubmit(c)
      PROVE  [Next]_vars
  BY <1>2 DEF Call, TrackSubmit, Next
<1>3. CASE UNCHANGED AllVars
  BY <1>3 DEF AllVars
<1> QED
  BY <1>1, <1>2, <1>3 DEF BatchNext, Next

\* The pool with batch counters behaves as the pool without: whatever has been
\* proved of the pool holds with batches, too.
THEOREM CountersOnlyObserve == BatchSpec => Spec
<1>1. BatchInit => Init
  BY DEF BatchInit
<1>2. [BatchNext]_AllVars => [Next]_vars
  BY BatchIsPool
<1> QED
  BY <1>1, <1>2, PTL DEF BatchSpec, Spec

-----------------------------------------------------------------------------
(* The invariant *)

Final(id) == VisibleStatus[id] \in SettledStatuses

\* A worker on its way to batchMu, and one on its way to the callback.
Counting(w, id) == checking[w] = "count" /\ worker[w].id = id
Calling(w, b) == checking[w] = "call" /\ BatchOf[worker[w].id] = b

\* The members whose end has been, or never will be, counted.
Over(b) == {id \in Members(b) : Final(id) /\ \A w \in Worker : ~Counting(w, id)}

\* A run is counted by the worker that has recorded its end.
CheckInv ==
    /\ \A w \in Worker : Busy(w) => worker[w].pc = "finishing"
    /\ \A w \in Worker, id \in TaskId : Counting(w, id) => Final(id)
    /\ \A v, w \in Worker, id \in TaskId : Counting(v, id) /\ Counting(w, id) => v = w

\* total is the number of members that have been counted, each of them once.
TrackInv ==
    /\ \A c \in Client : tracking[c] # None =>
        /\ client[c].pc = "idle"
        /\ tracking[c] \in (submitted \ unqueued) \ counted
    /\ \A c, d \in Client : tracking[c] # None /\ tracking[c] = tracking[d] => c = d
    /\ counted \subseteq submitted \ unqueued
    /\ \A b \in Batch : total[b] = Cardinality(Members(b) \cap counted)

\* done runs behind, and the callback is made when it has caught up.
DoneInv(b) ==
    /\ done[b] <= Cardinality(Over(b))
    /\ b \notin early =>
        /\ callbacks[b] > 0 \/ (\E w \in Worker : Calling(w, b)) =>
                done[b] >= Cardinality(Members(b))
        /\ callbacks[b] > 0 => callbacks[b] = 1 /\ \A w \in Worker : ~Calling(w, b)
        /\ \A v, w \in Worker : Calling(v, b) /\ Calling(w, b) => v = w

PoolInv == IInv /\ TokenInv /\ LifeInv

BatchInv == PoolInv /\ BatchTypeOK /\ CheckInv /\ TrackInv /\ \A b \in Batch : DoneInv(b)

-----------------------------------------------------------------------------
(* Lemmas *)

\* The pool's invariants, with batches.
LEMMA StepPool ==
  ASSUME OnlyForward, PoolInv, [Next]_vars
  PROVE  PoolInv'
  BY StepIInv, StepTokens, StepLife DEF PoolInv, OnlyForward, Disciplined

\* A task that has ended for its users never comes back.
LEMMA FinalIsFinal ==
  ASSUME OnlyForward, PoolInv, [Next]_vars, NEW id \in TaskId, Final(id)
  PROVE  Final(id)'
<1>1. VisibleStatus[id] \in SettledStatuses
  BY DEF Final
<1>2. CASE Hidden
  BY <1>1, <1>2 DEF Hidden, Final
<1>3. ASSUME NEW i \in TaskId,
             \/ Lifecycle!Accept(i) \/ Lifecycle!Claim(i) \/ Lifecycle!End(i)
             \/ Lifecycle!Retry(i) \/ Lifecycle!Terminate(i)
      PROVE  VisibleStatus'[id] \in SettledStatuses
  BY <1>1, <1>3
  DEF Lifecycle!Accept, Lifecycle!Claim, Lifecycle!End, Lifecycle!Retry, Lifecycle!Terminate,
      Lifecycle!Becomes, VisibleStatus, SettledStatuses
<1>4. VisibleStatus'[id] \in SettledStatuses => Final(id)'
  BY DEF Final
<1> QED
  BY <1>2, <1>3, <1>4, StepLife DEF Lifecycle!Next, PoolInv

\* Members, and what is taken from them, are finitely many.
LEMMA MembersAreFinite ==
  ASSUME NEW b, NEW S \in SUBSET Members(b)
  PROVE  /\ IsFiniteSet(S) /\ Cardinality(S) \in Nat /\ Cardinality(S) <= Cardinality(Members(b))
         /\ Cardinality(S) = Cardinality(Members(b)) => S = Members(b)
         /\ IsFiniteSet(Members(b)) /\ Cardinality(Members(b)) \in Nat
<1>1. IsFiniteSet(Members(b))
  BY TaskIdAssumption, FS_Subset DEF Members
<1> QED
  BY <1>1, FS_Subset, FS_CardinalityType

\* More members over, a larger number.
LEMMA OverGrows ==
  ASSUME NEW b, NEW S \in SUBSET Members(b), NEW T \in SUBSET S
  PROVE  Cardinality(T) <= Cardinality(S) /\ Cardinality(T) \in Nat /\ Cardinality(S) \in Nat
  BY MembersAreFinite, FS_Subset

-----------------------------------------------------------------------------
(* The steps *)

\* As long as nobody counts and nobody calls back, tasks can only end.
LEMMA CountsStay ==
  ASSUME OnlyForward, BatchInv, [Next]_vars, UNCHANGED <<done, checking, callbacks, early>>,
         \A w \in Worker : Busy(w) => /\ worker'[w].pc = worker[w].pc
                                      /\ worker'[w].id = worker[w].id
  PROVE  CheckInv' /\ \A b \in Batch : DoneInv(b)'
<1>1. /\ \A w \in Worker, id \in TaskId : Counting(w, id)' <=> Counting(w, id)
      /\ \A w \in Worker, b \in Batch : Calling(w, b)' <=> Calling(w, b)
      /\ \A w \in Worker : Busy(w)' <=> Busy(w)
  BY DEF Counting, Calling, Busy
<1>2. \A id \in TaskId : Final(id) => Final(id)'
  BY FinalIsFinal DEF BatchInv
<1>3. CheckInv'
  BY <1>1, <1>2 DEF BatchInv, CheckInv
<1>4. ASSUME NEW b \in Batch
      PROVE  DoneInv(b)'
  <2>1. Over(b) \subseteq Over(b)' /\ Over(b)' \subseteq Members(b)
    BY <1>1, <1>2 DEF Over, Members
  <2>2. Cardinality(Over(b)) <= Cardinality(Over(b)')
        /\ Cardinality(Over(b)) \in Nat /\ Cardinality(Over(b)') \in Nat
    BY <2>1, OverGrows
  <2>3. done[b] \in Nat /\ DoneInv(b) /\ UNCHANGED <<done, callbacks, early>>
    BY DEF BatchInv, BatchTypeOK
  <2>4. done[b] <= Cardinality(Over(b)')
    BY <2>2, <2>3 DEF DoneInv
  <2> QED
    BY <1>1, <2>3, <2>4 DEF DoneInv, Members
<1> QED
  BY <1>3, <1>4

\* A run that ends is not yet over: its worker has still to count it.
LEMMA EndRunCounts ==
  ASSUME OnlyForward, BatchInv, NEW w \in Worker, EndRun(w)
  PROVE  BatchTypeOK' /\ CheckInv' /\ TrackInv' /\ \A b \in Batch : DoneInv(b)'
<1>0. PICK id \in TaskId : id = worker[w].id
  BY DEF EndRun, UnknownType, SettleIntervened, SettleCompleted, SettleFailed, Failing,
         BatchInv, PoolInv, IInv, LocalsOK
<1>1. /\ WorkerStep(w) /\ [Next]_vars
      /\ Holds(w, id)
      /\ worker[w].pc \in {"running", "settle"}
      /\ GoTo(w, "finishing")
      /\ \E status \in SettledStatuses : MemUpdateStatus(id, status)
      /\ UNCHANGED <<client, submitted>>
  BY <1>0
  DEF EndRun, UnknownType, SettleIntervened, SettleCompleted, SettleFailed, Failing, Holds,
         WorkerStep, Settle, Next, BatchInv, PoolInv, IInv, LocalsOK, EngineTypeOK, WorkerState,
         SettledStatuses
<1>2. /\ checking' = [checking EXCEPT ![w] = "count"] /\ checking \in [Worker -> {"no", "count", "call"}]
      /\ UNCHANGED <<total, done, tracking, callbacks, counted, early, silent>>
  BY DEF EndRun, Checks, BatchInv, BatchTypeOK
<1>3. /\ tasks[id].status = "running" /\ id \notin unqueued /\ ~Final(id)
  BY <1>1, Knowledge DEF BatchInv, PoolInv, LifeInv, Final, SettledStatuses
<1>4. Final(id)' /\ UNCHANGED unqueued
  <2>1. PICK status \in SettledStatuses : MemUpdateStatus(id, status)
    BY <1>1
  <2>2. UNCHANGED unqueued /\ tasks'[id].status = status
    BY <1>1, <1>3, <2>1
    DEF MemUpdateStatus, Stored, BatchInv, PoolInv, IInv, MemInv, MemTypeOK, TaskRecord
  <2>3. VisibleStatus'[id] = status
    BY <1>1, <1>3, <2>2 DEF VisibleStatus
  <2> QED
    BY <2>2, <2>3 DEF Final
<1>5. /\ worker'[w].pc = "finishing" /\ worker'[w].id = id
      /\ \A v \in Worker : v # w => worker'[v] = worker[v]
  BY <1>0, <1>1 DEF GoTo, BatchInv, PoolInv, IInv, EngineTypeOK, WorkerState
<1>6. checking[w] = "no"
  BY <1>1 DEF BatchInv, CheckInv, Busy
<1>7. /\ \A v \in Worker, i \in TaskId : Counting(v, i)' <=> Counting(v, i) \/ (v = w /\ i = id)
      /\ \A v \in Worker, b \in Batch : Calling(v, b)' <=> Calling(v, b)
      /\ \A v \in Worker : Busy(v)' <=> Busy(v) \/ v = w
  BY <1>2, <1>5, <1>6 DEF Counting, Calling, Busy
<1>8. \A i \in TaskId : Final(i) => Final(i)' /\ i # id
  BY <1>1, <1>3, FinalIsFinal DEF BatchInv
<1>9. CheckInv'
  <2>1. \A v \in Worker : Busy(v)' => worker'[v].pc = "finishing"
    BY <1>5, <1>7 DEF BatchInv, CheckInv
  <2>2. \A v \in Worker, i \in TaskId : Counting(v, i)' => Final(i)'
    BY <1>4, <1>7, <1>8 DEF BatchInv, CheckInv
  <2>3. \A u, v \in Worker, i \in TaskId : Counting(u, i)' /\ Counting(v, i)' => u = v
    BY <1>7, <1>8 DEF BatchInv, CheckInv
  <2> QED
    BY <2>1, <2>2, <2>3 DEF CheckInv
<1>10. TrackInv'
  BY <1>1, <1>2, <1>4 DEF BatchInv, TrackInv, Members
<1>11. BatchTypeOK'
  BY <1>2 DEF BatchInv, BatchTypeOK
<1>12. ASSUME NEW b \in Batch
       PROVE  DoneInv(b)'
  <2>1. Over(b) \subseteq Over(b)' /\ Over(b)' \subseteq Members(b)
    BY <1>7, <1>8 DEF Over, Members
  <2>2. Cardinality(Over(b)) <= Cardinality(Over(b)')
        /\ Cardinality(Over(b)) \in Nat /\ Cardinality(Over(b)') \in Nat
    BY <2>1, OverGrows
  <2>3. done[b] \in Nat /\ DoneInv(b) /\ UNCHANGED <<done, callbacks, early>>
    BY <1>2 DEF BatchInv, BatchTypeOK
  <2>4. done[b] <= Cardinality(Over(b)')
    BY <2>2, <2>3 DEF DoneInv
  <2> QED
    BY <1>7, <2>3, <2>4 DEF DoneInv, Members
<1> QED
  BY <1>9, <1>10, <1>11, <1>12

\* The worker that counts a run adds it to those that are over, and only the
\* worker that counts the last one goes on to the callback.
LEMMA CountDoneCounts ==
  ASSUME BatchInv, NEW w \in Worker, CountDone(w)
  PROVE  BatchTypeOK' /\ CheckInv' /\ TrackInv' /\ \A b \in Batch : DoneInv(b)'
<1>0. PICK id \in TaskId, b0 \in Batch : id = worker[w].id /\ b0 = BatchOf[id]
  <2>1. worker[w].pc = "finishing"
    BY DEF CountDone, BatchInv, CheckInv, Busy
  <2>2. worker[w].id \in TaskId
    BY <2>1 DEF BatchInv, PoolInv, IInv, LocalsOK
  <2> QED
    BY <2>2, BatchOfAssumption
<1>1. /\ checking[w] = "count" /\ UNCHANGED <<vars, total, tracking, callbacks, counted, silent>>
      /\ \/ total[b0] = 0 /\ Checks(w, "no") /\ UNCHANGED done
         \/ /\ done' = [done EXCEPT ![b0] = done[b0] + 1]
            /\ \/ Leaves(b0) /\ Checks(w, "no")
               \/ ~Leaves(b0) /\ Checks(w, "call")
      /\ early' = IF Members(b0) \subseteq counted THEN early ELSE early \cup {b0}
  BY <1>0 DEF CountDone
<1>2. id \in Members(b0) /\ Counting(w, id) /\ Final(id)
  BY <1>0, <1>1 DEF Counting, Members, BatchInv, CheckInv
<1>3. /\ UNCHANGED <<worker, client, submitted, unqueued, tasks>>
      /\ UNCHANGED VisibleStatus
  BY <1>1 DEF vars, memVars, VisibleStatus
<1>4. /\ checking' = [checking EXCEPT ![w] = "no"] \/ checking' = [checking EXCEPT ![w] = "call"]
      /\ checking \in [Worker -> {"no", "count", "call"}]
      /\ done \in [Batch -> Nat]
      /\ early \subseteq early' /\ early' \subseteq early \cup {b0}
  BY <1>1 DEF Checks, BatchInv, BatchTypeOK
<1>5. /\ \A v \in Worker, i \in TaskId : Counting(v, i)' <=> Counting(v, i) /\ v # w
      /\ \A v \in Worker, b \in Batch : Calling(v, b)' <=>
            Calling(v, b) \/ (v = w /\ b = b0 /\ checking'[w] = "call")
      /\ \A v \in Worker : Busy(v)' => Busy(v)
      /\ \A i \in TaskId : Final(i)' <=> Final(i)
  BY <1>0, <1>1, <1>3, <1>4 DEF Counting, Calling, Busy, Final
<1>6. BatchTypeOK'
  <2>1. done' \in [Batch -> Nat]
    BY <1>1, <1>2, <1>4
  <2>2. checking' \in [Worker -> {"no", "count", "call"}]
    BY <1>4
  <2> QED
    BY <1>1, <1>2, <1>4, <2>1, <2>2 DEF BatchInv, BatchTypeOK
<1>7. CheckInv'
  BY <1>3, <1>5 DEF BatchInv, CheckInv
<1>8. TrackInv'
  BY <1>1, <1>3 DEF BatchInv, TrackInv, Members
<1>9. \A b \in Batch : Over(b)' \subseteq Members(b) /\ Over(b) \subseteq Over(b)'
  BY <1>5 DEF Over, Members
<1>10. ASSUME NEW b \in Batch, b # b0
       PROVE  DoneInv(b)'
  <2>1. Cardinality(Over(b)) <= Cardinality(Over(b)')
        /\ Cardinality(Over(b)) \in Nat /\ Cardinality(Over(b)') \in Nat
    BY <1>9, OverGrows
  <2>2. /\ DoneInv(b) /\ done[b] \in Nat /\ done'[b] = done[b]
        /\ callbacks'[b] = callbacks[b] /\ (b \in early' <=> b \in early)
    BY <1>1, <1>4, <1>10 DEF BatchInv
  <2>3. \A v \in Worker : Calling(v, b)' <=> Calling(v, b)
    BY <1>5, <1>10
  <2> QED
    BY <2>1, <2>2, <2>3 DEF DoneInv, Members
<1>11. DoneInv(b0)'
  <2>1. id \notin Over(b0) /\ id \in Over(b0)'
    BY <1>2, <1>5 DEF Over, Members, BatchInv, CheckInv
  <2>2. /\ Cardinality(Over(b0)) + 1 <= Cardinality(Over(b0)')
        /\ Cardinality(Over(b0)) \in Nat /\ Cardinality(Over(b0)') \in Nat
    <3>1. Over(b0) \cup {id} \in SUBSET Over(b0)'
      BY <1>2, <1>9, <2>1
    <3>2. /\ IsFiniteSet(Over(b0)) /\ IsFiniteSet(Over(b0)')
          /\ Cardinality(Over(b0)) \in Nat /\ Cardinality(Over(b0)') \in Nat
      BY <1>2, <1>9, MembersAreFinite
    <3>3. Cardinality(Over(b0) \cup {id}) = Cardinality(Over(b0)) + 1
      BY <2>1, <3>2, FS_AddElement
    <3> QED
      BY <3>1, <3>2, <3>3, FS_Subset
  <2>3. done'[b0] <= done[b0] + 1 /\ done[b0] \in Nat /\ done'[b0] \in Nat
    BY <1>1, <1>2, <1>4
  <2>4. DoneInv(b0)
    BY <1>2 DEF BatchInv
  <2>5. done'[b0] <= Cardinality(Over(b0)')
    BY <2>2, <2>3, <2>4 DEF DoneInv
  <2>6. ASSUME b0 \notin early'
        PROVE  /\ Members(b0) \subseteq counted /\ callbacks'[b0] = 0
               /\ \A v \in Worker : ~Calling(v, b0)
               /\ checking'[w] = "call" => done'[b0] >= Cardinality(Members(b0))
    <3>1. Members(b0) \subseteq counted /\ b0 \notin early
      BY <1>1, <2>6
    <3>2. total[b0] = Cardinality(Members(b0))
      <4>1. Members(b0) \cap counted = Members(b0)
        BY <3>1
      <4> QED
        BY <1>2, <4>1 DEF BatchInv, TrackInv
    <3>3. Cardinality(Over(b0)) < Cardinality(Members(b0)) /\ Cardinality(Members(b0)) \in Nat
      <4>1. Over(b0) \in SUBSET Members(b0) /\ Over(b0) # Members(b0)
        BY <1>2, <2>1 DEF Over
      <4> QED
        BY <4>1, MembersAreFinite
    <3>4. done[b0] < Cardinality(Members(b0))
      BY <2>2, <2>3, <2>4, <3>3 DEF DoneInv
    <3>5. ~(callbacks[b0] > 0) /\ \A v \in Worker : ~Calling(v, b0)
      BY <2>3, <2>4, <3>1, <3>3, <3>4 DEF DoneInv
    <3>6. callbacks'[b0] = 0
      BY <1>1, <1>2, <3>5, CallbackAssumption DEF BatchInv, BatchTypeOK
    <3>7. checking'[w] = "call" => done'[b0] = done[b0] + 1 /\ ~Leaves(b0)
      BY <1>1, <1>2, <1>4 DEF Checks
    <3> QED
      BY <2>3, <3>1, <3>2, <3>3, <3>5, <3>6, <3>7 DEF Leaves
  <2>7. \A v \in Worker : Calling(v, b0)' => Calling(v, b0) \/ (v = w /\ checking'[w] = "call")
    BY <1>2, <1>5
  <2> QED
    BY <2>5, <2>6, <2>7 DEF DoneInv, Members
<1> QED
  BY <1>6, <1>7, <1>8, <1>10, <1>11

\* The callback of a batch is made by the only worker on its way to it, and no
\* other can come after it.
LEMMA CallBackCounts ==
  ASSUME BatchInv, NEW w \in Worker, CallBack(w)
  PROVE  BatchTypeOK' /\ CheckInv' /\ TrackInv' /\ \A b \in Batch : DoneInv(b)'
<1>0. PICK b0 \in Batch : b0 = BatchOf[worker[w].id]
  <2>1. worker[w].pc = "finishing"
    BY DEF CallBack, BatchInv, CheckInv, Busy
  <2> QED
    BY <2>1, BatchOfAssumption DEF BatchInv, PoolInv, IInv, LocalsOK
<1>1. /\ checking[w] = "call" /\ Checks(w, "no") /\ callbacks[b0] < CallbackBound
      /\ callbacks' \in {callbacks, [callbacks EXCEPT ![b0] = callbacks[b0] + 1]}
      /\ UNCHANGED <<vars, total, done, tracking, counted, early, silent>>
  BY <1>0 DEF CallBack
<1>2. /\ checking' = [checking EXCEPT ![w] = "no"] /\ checking \in [Worker -> {"no", "count", "call"}]
      /\ callbacks \in [Batch -> 0 .. CallbackBound]
      /\ UNCHANGED <<worker, client, submitted, unqueued, VisibleStatus>>
  BY <1>1 DEF Checks, BatchInv, BatchTypeOK, vars, memVars, VisibleStatus
<1>3. /\ \A v \in Worker, i \in TaskId : Counting(v, i)' <=> Counting(v, i)
      /\ \A v \in Worker, b \in Batch : Calling(v, b)' <=> Calling(v, b) /\ v # w
      /\ \A v \in Worker : Busy(v)' => Busy(v)
      /\ \A i \in TaskId : Final(i)' <=> Final(i)
      /\ Calling(w, b0) /\ \A b \in Batch : Calling(w, b) => b = b0
  BY <1>0, <1>1, <1>2 DEF Counting, Calling, Busy, Final
<1>4. BatchTypeOK'
  <2>1. callbacks[b0] + 1 \in 0 .. CallbackBound
    BY <1>1, <1>2, CallbackAssumption
  <2>2. callbacks' \in [Batch -> 0 .. CallbackBound]
    BY <1>1, <1>2, <2>1
  <2>3. checking' \in [Worker -> {"no", "count", "call"}]
    BY <1>2
  <2> QED
    BY <1>1, <2>2, <2>3 DEF BatchInv, BatchTypeOK
<1>5. CheckInv'
  BY <1>2, <1>3 DEF BatchInv, CheckInv
<1>6. TrackInv'
  BY <1>1, <1>2 DEF BatchInv, TrackInv, Members
<1>7. ASSUME NEW b \in Batch
      PROVE  DoneInv(b)'
  <2>1. Over(b)' = Over(b)
    BY <1>3 DEF Over, Members
  <2>2. done'[b] <= Cardinality(Over(b)')
    BY <1>1, <2>1 DEF BatchInv, DoneInv
  <2>3. CASE b # b0
    <3>1. callbacks'[b] = callbacks[b] /\ \A v \in Worker : Calling(v, b)' <=> Calling(v, b)
      BY <1>1, <1>2, <1>3, <2>3
    <3> QED
      BY <1>1, <2>2, <3>1 DEF BatchInv, DoneInv, Members
  <2>4. CASE b = b0
    <3>1. ASSUME b \notin early
          PROVE  /\ done[b] >= Cardinality(Members(b)) /\ callbacks[b] = 0
                 /\ \A v \in Worker : ~Calling(v, b)'
      <4>1. DoneInv(b)
        BY DEF BatchInv
      <4>2. /\ done[b] >= Cardinality(Members(b)) /\ ~(callbacks[b] > 0)
            /\ \A v \in Worker : Calling(v, b) => v = w
        BY <1>3, <2>4, <3>1, <4>1 DEF DoneInv
      <4>3. callbacks[b] \in Nat
        BY <1>2, CallbackAssumption
      <4> QED
        BY <1>3, <4>2, <4>3
    <3>2. callbacks'[b] = callbacks[b] \/ callbacks'[b] = callbacks[b] + 1
      BY <1>1, <1>2, <2>4
    <3> QED
      BY <1>1, <2>2, <3>1, <3>2 DEF DoneInv, Members
  <2> QED
    BY <2>3, <2>4
<1> QED
  BY <1>4, <1>5, <1>6, <1>7

\* A worker undoes nothing that Submit has done.
LEMMA WorkerTracksNothing ==
  ASSUME BatchInv, NEW w \in Worker, WorkerStep(w), UNCHANGED <<total, tracking, counted>>
  PROVE  TrackInv'
<1>1. unqueued' \subseteq unqueued
  <2>1. \A id, rec : MemEnqueue(id, rec) => unqueued' \subseteq unqueued
    BY DEF MemEnqueue
  <2>2. \A id, status : MemUpdateStatus(id, status) => UNCHANGED unqueued
    BY DEF MemUpdateStatus
  <2> QED
    BY <2>1, <2>2
    DEF WorkerStep, Park, Exit, Dequeue, MemDequeue, BeginExecution, Abandon, UnknownType,
        HandlerReturn, CheckSignal, Settle, SettleIntervened, SettleCompleted, SettleRetry,
        SettleRetryRefused, FailRefusedRetry, SettleFailed, Deregister, memVars
<1>2. /\ \A c \in Client : client'[c].pc = client[c].pc
      /\ UNCHANGED submitted
  BY WorkerKeepsCalls DEF BatchInv, PoolInv
<1> QED
  BY <1>1, <1>2 DEF BatchInv, TrackInv, Members

\* The steps of a worker that ends no run, or ends one without counting it.
LEMMA OtherStepsCount ==
  ASSUME OnlyForward, BatchInv, NEW w \in Worker, EndRunSilently(w) \/ OtherWorkerStep(w)
  PROVE  BatchTypeOK' /\ CheckInv' /\ TrackInv' /\ \A b \in Batch : DoneInv(b)'
<1>1. /\ WorkerStep(w) /\ [Next]_vars
      /\ UNCHANGED <<total, done, tracking, checking, callbacks, counted, early>>
  BY DEF EndRunSilently, OtherWorkerStep, WorkerStep, Settle, Next, batchVars
<1>2. ~Busy(w)
  BY DEF EndRunSilently, FailRefusedRetry, OtherWorkerStep, BatchInv, CheckInv
<1>3. silent' \in SUBSET TaskId
  BY DEF EndRunSilently, FailRefusedRetry, OtherWorkerStep, batchVars, BatchInv, BatchTypeOK,
         PoolInv, IInv, LocalsOK
<1>4. BatchTypeOK'
  BY <1>1, <1>3 DEF BatchInv, BatchTypeOK
<1>5. CheckInv' /\ \A b \in Batch : DoneInv(b)'
  BY <1>1, <1>2, RunGoesOn, CountsStay DEF BatchInv, PoolInv
<1>6. TrackInv'
  BY <1>1, WorkerTracksNothing
<1> QED
  BY <1>4, <1>5, <1>6

\* A task that Enqueue has accepted stays accepted, whatever is called.
LEMMA AcceptedForGood ==
  ASSUME OnlyForward, PoolInv, NEW c \in Client, ClientCall(c) \/ ClientStep(c)
  PROVE  submitted \ unqueued \subseteq submitted' \ unqueued'
<1>1. ASSUME NEW id \in TaskId, SubmitSave(c, id)
      PROVE  submitted \ unqueued \subseteq submitted' \ unqueued'
  BY <1>1 DEF SubmitSave, MemSave
<1>2. CASE SubmitEnqueue(c) \/ StartEnqueue(c)
  <2>1. UNCHANGED submitted /\ \E rec : MemEnqueue(client[c].id, rec)
    BY <1>2 DEF SubmitEnqueue, StartEnqueue
  <2> QED
    BY <2>1 DEF MemEnqueue
<1>3. CASE TerminateQueued(c) \/ TerminateWrite(c) \/ RemoveDelete(c) \/ PoolClose(c)
  <2>1. /\ UNCHANGED submitted
        /\ \/ MemRemove(client[c].id) \/ MemUpdateStatus(client[c].id, "cancelled")
           \/ MemDelete(client[c].id) \/ MemClose
    BY <1>3 DEF TerminateQueued, TerminateWrite, RemoveDelete, PoolClose
  <2> QED
    BY <2>1 DEF MemRemove, MemUpdateStatus, MemDelete, MemClose
<1>4. \A b \in Batch : ~CancelBatch(c, b)
  BY DEF CancelBatch, Calls, OnlyForward
<1> QED
  BY <1>1, <1>2, <1>3, <1>4
  DEF ClientCall, ClientStep, StartGet, StopTask, TerminateRunning, Signal, TerminateUnregistered,
      RemoveGet, PoolStop, EnqueueRefused, SendCancel, TerminateNotQueued, TerminateGet, memVars

\* A call leaves the counters alone; a Submit that has been accepted is about
\* to count a task that nobody else counts.
LEMMA CallCounts ==
  ASSUME OnlyForward, BatchInv, NEW c \in Client, Call(c)
  PROVE  BatchTypeOK' /\ CheckInv' /\ TrackInv' /\ \A b \in Batch : DoneInv(b)'
<1>1. /\ ClientCall(c) \/ ClientStep(c)
      /\ [Next]_vars
      /\ UNCHANGED <<total, done, checking, callbacks, counted, early>>
      /\ tracking[c] = None
  BY DEF Call, Next
<1>2. CheckInv' /\ \A b \in Batch : DoneInv(b)'
  BY <1>1, ClientKeepsRuns, CountsStay DEF BatchInv, PoolInv
<1>3. /\ \A d \in Client : d # c => tracking'[d] = tracking[d] /\ client'[d] = client[d]
      /\ tracking'[c] = IF client[c].pc = "submitting" /\ MemAccepts THEN client[c].id ELSE None
  <2>1. ClientMoves(c)
    BY <1>1, CallRecords DEF BatchInv, PoolInv, IInv
  <2> QED
    BY <2>1 DEF Call, ClientMoves, BatchInv, BatchTypeOK
<1>4. BatchTypeOK'
  <2>1. client[c].pc = "submitting" => client[c].id \in TaskId
    BY DEF BatchInv, PoolInv, IInv, LocalsOK
  <2>2. tracking' \in [Client -> TaskId \cup {None}]
    BY <2>1 DEF Call, BatchInv, BatchTypeOK
  <2>3. silent' \in SUBSET TaskId
    BY DEF Call, BatchInv, BatchTypeOK
  <2> QED
    BY <1>1, <2>2, <2>3 DEF BatchInv, BatchTypeOK
<1>5. submitted \ unqueued \subseteq submitted' \ unqueued'
  BY <1>1, AcceptedForGood DEF BatchInv
<1>6. ASSUME tracking'[c] # None
      PROVE  /\ client'[c].pc = "idle"
             /\ tracking'[c] \in (submitted' \ unqueued') \ counted
             /\ \A d \in Client : d # c => tracking[d] # tracking'[c]
  <2>1. client[c].pc = "submitting" /\ MemAccepts
    BY <1>3, <1>6
  <2>2. PICK id \in TaskId : id = client[c].id /\ tracking'[c] = id
    BY <1>3, <2>1 DEF BatchInv, PoolInv, IInv, LocalsOK
  <2>3. SubmitEnqueue(c)
    BY <1>1, <2>1
    DEF ClientCall, ClientStep, Calls, SubmitSave, StartGet, StopTask, TerminateRunning,
        TerminateUnregistered, RemoveGet, CancelBatch, PoolStop, StartEnqueue, EnqueueRefused,
        SendCancel, TerminateQueued, TerminateNotQueued, TerminateGet, TerminateWrite,
        RemoveDelete, PoolClose
  <2>4. /\ unqueued' = unqueued \ {id} /\ UNCHANGED submitted
        /\ client'[c].pc = "idle"
    BY <2>2, <2>3 DEF SubmitEnqueue, MemEnqueue, Return, IdleClient, BatchInv, PoolInv, IInv,
                      EngineTypeOK
  <2>5. id \in unqueued /\ id \in submitted
    <3>1. Submitting(c, id)
      BY <2>1, <2>2 DEF Submitting
    <3> QED
      BY <2>1, <2>2, <3>1 DEF BatchInv, PoolInv, LifeInv, TokenInv, CountInv, Free
  <2> QED
    BY <2>2, <2>4, <2>5, NoneAssumption DEF BatchInv, TrackInv
<1>7. TrackInv'
  <2>1. \A d \in Client : d # c /\ tracking'[d] # None =>
            client'[d].pc = "idle" /\ tracking'[d] \in (submitted' \ unqueued') \ counted
    BY <1>3, <1>5 DEF BatchInv, TrackInv
  <2>2. \A d, e \in Client : tracking'[d] # None /\ tracking'[d] = tracking'[e] => d = e
    BY <1>3, <1>6 DEF BatchInv, TrackInv
  <2>3. /\ counted' \subseteq submitted' \ unqueued'
        /\ \A b \in Batch : total'[b] = Cardinality(Members(b) \cap counted')
    BY <1>1, <1>5 DEF BatchInv, TrackInv
  <2> QED
    BY <1>1, <1>6, <2>1, <2>2, <2>3 DEF TrackInv, Members
<1> QED
  BY <1>2, <1>4, <1>7

\* The last step of Submit adds one member that has not been counted before.
LEMMA TrackSubmitCounts ==
  ASSUME OnlyForward, BatchInv, NEW c \in Client, TrackSubmit(c)
  PROVE  BatchTypeOK' /\ CheckInv' /\ TrackInv' /\ \A b \in Batch : DoneInv(b)'
<1>0. PICK id \in TaskId, b0 \in Batch : id = tracking[c] /\ b0 = BatchOf[id]
  BY BatchOfAssumption DEF TrackSubmit, BatchInv, BatchTypeOK
<1>1. /\ total' = [total EXCEPT ![b0] = total[b0] + 1]
      /\ counted' = counted \cup {id}
      /\ tracking' = [tracking EXCEPT ![c] = None]
      /\ UNCHANGED <<vars, done, checking, callbacks, early, silent>>
  BY <1>0 DEF TrackSubmit
<1>2. UNCHANGED <<worker, client, submitted, unqueued>>
  BY <1>1 DEF vars, memVars
<1>3. id \in (submitted \ unqueued) \ counted
  BY <1>0, NoneAssumption DEF BatchInv, TrackInv
<1>4. ASSUME NEW b \in Batch
      PROVE  total'[b] = Cardinality(Members(b) \cap counted')
  <2>1. total[b] = Cardinality(Members(b) \cap counted)
    BY DEF BatchInv, TrackInv
  <2>2. CASE b # b0
    <3>1. Members(b) \cap counted' = Members(b) \cap counted
      BY <1>0, <1>1, <2>2 DEF Members
    <3> QED
      BY <1>1, <2>1, <2>2, <3>1 DEF BatchInv, BatchTypeOK
  <2>3. CASE b = b0
    <3> DEFINE S == Members(b) \cap counted
    <3>1. Members(b) \cap counted' = S \cup {id} /\ id \notin S
      BY <1>0, <1>1, <1>3, <2>3 DEF Members
    <3>2. IsFiniteSet(S) /\ Cardinality(S) \in Nat
      BY MembersAreFinite
    <3>3. Cardinality(S \cup {id}) = Cardinality(S) + 1
      BY <3>1, <3>2, FS_AddElement
    <3> QED
      BY <1>1, <2>1, <2>3, <3>1, <3>3 DEF BatchInv, BatchTypeOK
  <2> QED
    BY <2>2, <2>3
<1>5. TrackInv'
  BY <1>1, <1>2, <1>3, <1>4, <1>0, NoneAssumption DEF BatchInv, BatchTypeOK, TrackInv, Members
<1>6. BatchTypeOK'
  <2>1. ASSUME NEW b \in Batch
        PROVE  total'[b] \in 0 .. Cardinality(TaskId)
    <3>1. Members(b) \cap counted' \in SUBSET TaskId
      BY DEF Members
    <3>2. /\ IsFiniteSet(Members(b) \cap counted')
          /\ Cardinality(Members(b) \cap counted') <= Cardinality(TaskId)
      BY <3>1, TaskIdAssumption, FS_Subset
    <3> QED
      BY <1>4, <3>2, TaskIdAssumption, FS_CardinalityType
  <2>2. total' \in [Batch -> 0 .. Cardinality(TaskId)]
    <3>1. DOMAIN total' = Batch /\ total' = [b \in Batch |-> total'[b]]
      BY <1>1 DEF BatchInv, BatchTypeOK
    <3> QED
      BY <2>1, <3>1
  <2>3. tracking' \in [Client -> TaskId \cup {None}] /\ counted' \in SUBSET TaskId
    BY <1>1 DEF BatchInv, BatchTypeOK
  <2> QED
    BY <1>1, <2>2, <2>3 DEF BatchInv, BatchTypeOK
<1>7. CheckInv' /\ \A b \in Batch : DoneInv(b)'
  <2>1. [Next]_vars
    BY <1>1
  <2> QED
    BY <1>1, <1>2, <2>1, CountsStay
<1> QED
  BY <1>5, <1>6, <1>7

-----------------------------------------------------------------------------
(* The theorems *)

\* Nothing has been counted in a new pool.
LEMMA InitBatch == BatchInit => BatchInv
<1> SUFFICES ASSUME BatchInit PROVE BatchInv
  OBVIOUS
<1>1. PoolInv
  BY InitIInv, InitTokens, InitLife DEF BatchInit, PoolInv
<1>2. \A b \in Batch : Cardinality(Over(b)) \in Nat
  BY MembersAreFinite DEF Over
<1>3. Cardinality(TaskId) \in Nat /\ Cardinality({}) = 0
  BY TaskIdAssumption, FS_CardinalityType, FS_EmptySet
<1>4. BatchTypeOK
  BY <1>3, CallbackAssumption DEF BatchInit, BatchTypeOK
<1>5. CheckInv
  BY DEF BatchInit, CheckInv, Busy, Counting
<1>6. TrackInv
  <2>1. \A b \in Batch : Members(b) \cap counted = {}
    BY DEF BatchInit
  <2> QED
    BY <1>3, <2>1 DEF BatchInit, TrackInv
<1>7. ASSUME NEW b \in Batch
      PROVE  DoneInv(b)
  BY <1>2 DEF BatchInit, DoneInv, Calling
<1> QED
  BY <1>1, <1>4, <1>5, <1>6, <1>7 DEF BatchInv

\* Every step keeps the invariant.
LEMMA StepBatch ==
  ASSUME OnlyForward, BatchInv, [BatchNext]_AllVars
  PROVE  BatchInv'
<1>1. [Next]_vars /\ PoolInv'
  BY BatchIsPool, StepPool DEF BatchInv
<1>2. ASSUME NEW w \in Worker, RunStep(w)
      PROVE  BatchTypeOK' /\ CheckInv' /\ TrackInv' /\ \A b \in Batch : DoneInv(b)'
  BY <1>2, EndRunCounts, OtherStepsCount, CountDoneCounts, CallBackCounts DEF RunStep
<1>3. ASSUME NEW c \in Client, Call(c) \/ TrackSubmit(c)
      PROVE  BatchTypeOK' /\ CheckInv' /\ TrackInv' /\ \A b \in Batch : DoneInv(b)'
  BY <1>3, CallCounts, TrackSubmitCounts
<1>4. ASSUME UNCHANGED <<batchVars, worker, client, submitted, unqueued>>
      PROVE  BatchTypeOK' /\ CheckInv' /\ TrackInv' /\ \A b \in Batch : DoneInv(b)'
  <2>1. UNCHANGED <<total, done, tracking, checking, callbacks, counted, early, silent>>
    BY <1>4 DEF batchVars
  <2>2. CheckInv' /\ \A b \in Batch : DoneInv(b)'
    BY <1>1, <1>4, <2>1, CountsStay
  <2>3. BatchTypeOK' /\ TrackInv'
    BY <1>4, <2>1 DEF BatchInv, BatchTypeOK, TrackInv, Members
  <2> QED
    BY <2>2, <2>3
<1>5. ASSUME NEW id \in TaskId, BecomeDue(id), UNCHANGED batchVars
      PROVE  UNCHANGED <<batchVars, worker, client, submitted, unqueued>>
  BY <1>5 DEF BecomeDue, MemBecomeDue
<1>6. ASSUME UNCHANGED AllVars \/ (Quiescent /\ UNCHANGED batchVars)
      PROVE  UNCHANGED <<batchVars, worker, client, submitted, unqueued>>
  BY <1>6 DEF AllVars, Quiescent, vars, memVars
<1> QED
  BY <1>1, <1>2, <1>3, <1>4, <1>5, <1>6 DEF BatchNext, BatchInv

\* So it always holds.
LEMMA AlwaysBatchInv ==
  ASSUME OnlyForward
  PROVE  BatchSpec => []BatchInv
<1>1. BatchInv /\ [BatchNext]_AllVars => BatchInv'
  BY StepBatch
<1> QED
  BY <1>1, InitBatch, PTL DEF BatchSpec

\* The counters stay within their types; no batch counts more tasks than there
\* are.
THEOREM BatchTypesHold ==
  ASSUME OnlyForward
  PROVE  BatchSpec => []BatchTypeOK
<1>1. BatchInv => BatchTypeOK
  BY DEF BatchInv
<1> QED
  BY <1>1, AlwaysBatchInv, PTL

\* OnBatchComplete is not called before all tasks of the batch have ended, if
\* all had been counted when the first of them did.
THEOREM CallbackComesAfterAll ==
  ASSUME OnlyForward
  PROVE  BatchSpec => []CallbackAfterAll
<1>1. BatchInv => CallbackAfterAll
  <2> SUFFICES ASSUME BatchInv, NEW b \in Batch, callbacks[b] > 0, b \notin early,
                      NEW id \in Members(b)
               PROVE  tasks[id].status \in SettledStatuses
    BY DEF CallbackAfterAll
  <2>1. /\ done[b] >= Cardinality(Members(b)) /\ done[b] <= Cardinality(Over(b))
        /\ done[b] \in Nat
    BY DEF BatchInv, BatchTypeOK, DoneInv
  <2>2. Over(b) \in SUBSET Members(b)
    BY DEF Over
  <2>3. Over(b) = Members(b)
    BY <2>1, <2>2, MembersAreFinite
  <2>4. id \in TaskId /\ Final(id)
    BY <2>3 DEF Over, Members
  <2> QED
    BY <2>4 DEF Final, VisibleStatus, SettledStatuses
<1> QED
  BY <1>1, AlwaysBatchInv, PTL

\* And it is called once, however many workers find the batch complete.
THEOREM CallbackComesOnce ==
  ASSUME OnlyForward
  PROVE  BatchSpec => []CallbackOnce
<1>1. BatchInv => CallbackOnce
  <2> SUFFICES ASSUME BatchInv, NEW b \in Batch, callbacks[b] > 1, b \notin early
               PROVE  FALSE
    BY DEF CallbackOnce
  <2>1. callbacks[b] \in Nat
    BY CallbackAssumption DEF BatchInv, BatchTypeOK
  <2>2. DoneInv(b)
    BY DEF BatchInv
  <2> QED
    BY <2>1, <2>2 DEF DoneInv
<1> QED
  BY <1>1, AlwaysBatchInv, PTL
=============================================================================
