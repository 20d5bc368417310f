--------------------------- MODULE ProgressProofs ---------------------------
(***************************************************************************)
(* What holds of progress for any number of tasks, reporters and crashes,  *)
(* with and without a throttle.                                            *)
(***************************************************************************)
EXTENDS Progress, TLAPS

Active(id) == run[id] \in {"running", "returned", "pausing"}

\* The types, as far as the proofs need them. No task has the name of Idle's.
ProgressTypes ==
    /\ run \in [TaskId -> RunStates]
    /\ clone \in [TaskId -> Nat] /\ copy \in [TaskId -> Nat]
    /\ reports \in [TaskId -> Nat] /\ cache \in [TaskId -> Nat]
    /\ stored \in [TaskId -> Nat] /\ paused \in [TaskId -> Nat]
    /\ flushing \in [Reporter -> {Idle} \cup [id : TaskId, value : Nat]]
    /\ starting \in SUBSET TaskId

\* A value on its way to the backend belongs to a run whose handler has not
\* returned, and is not newer than the cached one; a single reporter has none
\* under way but the cached one.
FlushesAreLive ==
    \A r \in Reporter, id \in TaskId : flushing[r].id = id =>
        /\ run[id] = "running" /\ cache[id] # 0
        /\ flushing[r].value <= cache[id]
        /\ Reporter = {r} => flushing[r].value = cache[id]

\* The store has what a run began with until the run reports, and what the
\* cache has when the pause is about to be recorded.
StoreFollows ==
    \A id \in TaskId :
        /\ Active(id) /\ cache[id] = 0 => stored[id] = clone[id]
        /\ run[id] = "pausing" /\ cache[id] # 0 => stored[id] = cache[id]
        /\ cache[id] # 0 => stored[id] <= cache[id]
        /\ cache[id] # 0 => cache[id] = reports[id]
        /\ stored[id] <= reports[id]
        /\ Active(id) /\ cache[id] # 0 => clone[id] <= cache[id]
        /\ Active(id) => clone[id] <= reports[id]
        /\ id \in starting => run[id] \in {"paused", "ended"} /\ copy[id] = stored[id]
        /\ paused[id] # 0 => run[id] \in {"paused", "queued"} /\ stored[id] = paused[id]

PInv == ProgressTypes /\ FlushesAreLive /\ StoreFollows

\* Nothing has been reported when the program starts.
LEMMA ProgressInit == Init => PInv
  BY NamesAssumption
  DEF Init, PInv, ProgressTypes, FlushesAreLive, StoreFollows, Active, Idle, RunStates

\* Steps that write neither the cache nor the backend.
LEMMA QuietStepsKeepPInv ==
  ASSUME PInv, NEW id \in TaskId,
         Claim(id) \/ Return(id) \/ Pause(id) \/ End(id) \/ StartGet(id)
  PROVE  PInv'
<1> USE NamesAssumption
    DEF PInv, ProgressTypes, FlushesAreLive, StoreFollows, Active, Goes, calls, RunStates, Idle
<1>1. CASE Claim(id)
  BY <1>1 DEF Claim
<1>2. CASE Return(id)
  BY <1>2 DEF Return
<1>3. CASE Pause(id)
  BY <1>3 DEF Pause
<1>4. CASE End(id)
  BY <1>4 DEF End
<1>5. CASE StartGet(id)
  BY <1>5 DEF StartGet
<1> QED
  BY <1>1, <1>2, <1>3, <1>4, <1>5

\* Steps of the engine that write the backend.
LEMMA WritesKeepPInv ==
  ASSUME PInv, NEW id \in TaskId,
         PauseFlush(id) \/ Retry(id) \/ StartEnqueue(id)
  PROVE  PInv'
<1> USE DEF PInv, ProgressTypes, FlushesAreLive, StoreFollows, Active, Goes, Store, Requeue,
            calls, RunStates, Idle
<1>1. CASE PauseFlush(id)
  BY <1>1 DEF PauseFlush
<1>2. CASE Retry(id)
  BY <1>2 DEF Retry
<1>3. CASE StartEnqueue(id)
  BY <1>3 DEF StartEnqueue
<1> QED
  BY <1>1, <1>2, <1>3

\* The two halves of SetProgress.
LEMMA ReportsKeepPInv ==
  ASSUME PInv, NEW r \in Reporter, Flush(r) \/ \E id \in TaskId : Report(r, id)
  PROVE  PInv'
<1> USE NamesAssumption
    DEF PInv, ProgressTypes, FlushesAreLive, StoreFollows, Active, Store, Idle, calls
<1>1. CASE Flush(r)
  <2> DEFINE id == flushing[r].id
  <2>1. /\ id \in TaskId /\ flushing[r].value \in Nat
        /\ stored' = [stored EXCEPT ![id] = flushing[r].value]
        /\ run[id] = "running" /\ cache[id] # 0 /\ cache[id] = reports[id]
        /\ flushing[r].value <= cache[id]
    BY <1>1 DEF Flush
  <2>2. ProgressTypes'
    BY <1>1, <2>1 DEF Flush
  <2>3. FlushesAreLive'
    BY <1>1, <2>1 DEF Flush
  <2>4. StoreFollows'
    BY <1>1, <2>1 DEF Flush
  <2> QED
    BY <2>2, <2>3, <2>4
<1>2. ASSUME NEW id \in TaskId, Report(r, id)
      PROVE  PInv'
  <2>1. reports[id] + 1 \in Nat /\ reports'[id] = reports[id] + 1 /\ reports'[id] # 0
    BY <1>2 DEF Report
  <2>2. ProgressTypes'
    BY <1>2, <2>1 DEF Report
  <2>3. FlushesAreLive'
    <3>1. \A q \in Reporter : flushing'[q] = flushing[q] \/ (q = r /\
              flushing'[q] = [id |-> id, value |-> reports'[id]])
      BY <1>2 DEF Report
    <3>2. cache'[id] = reports'[id] /\ \A i \in TaskId : i # id => cache'[i] = cache[i]
      BY <1>2 DEF Report
    <3>3. run[id] = "running" /\ run' = run /\ flushing[r].id # id /\ cache[id] \in Nat
      BY <1>2 DEF Report
    <3>4. cache[id] # 0 => cache[id] = reports[id]
      OBVIOUS
    <3>5. ASSUME NEW q \in Reporter, NEW i \in TaskId, flushing'[q].id = i
          PROVE  /\ run'[i] = "running" /\ cache'[i] # 0
                 /\ flushing'[q].value <= cache'[i]
                 /\ Reporter = {q} => flushing'[q].value = cache'[i]
      <4>1. CASE q = r /\ flushing'[q] = [id |-> id, value |-> reports'[id]]
        BY <2>1, <3>2, <3>3, <3>5, <4>1
      <4>2. CASE flushing'[q] = flushing[q]
        BY <2>1, <3>2, <3>3, <3>4, <3>5, <4>2
      <4> QED
        BY <3>1, <4>1, <4>2
    <3> QED
      BY <3>5
  <2>4. StoreFollows'
    BY <1>2, <2>1 DEF Report
  <2> QED
    BY <2>2, <2>3, <2>4
<1> QED
  BY <1>1, <1>2

\* A crash takes the cache with it, and nothing that is stored.
LEMMA CrashKeepsPInv == PInv /\ CrashAndBoot => PInv'
  BY NamesAssumption
  DEF PInv, ProgressTypes, FlushesAreLive, StoreFollows, Active, Idle, CrashAndBoot, RunStates

\* PInv is inductive.
LEMMA AlwaysPInv == Spec => []PInv
<1>1. PInv /\ [Next]_vars => PInv'
  <2> SUFFICES ASSUME PInv, [Next]_vars PROVE PInv'
    OBVIOUS
  <2>1. CASE UNCHANGED vars
    BY <2>1 DEF vars, calls, PInv, ProgressTypes, FlushesAreLive, StoreFollows, Active, Idle
  <2> QED
    BY <2>1, QuietStepsKeepPInv, WritesKeepPInv, ReportsKeepPInv, CrashKeepsPInv DEF Next
<1> QED
  BY <1>1, ProgressInit, PTL DEF Spec

\* A pause keeps the progress: the next run of a paused task finds what the
\* task had reported last.
THEOREM PausesKeepProgress == Spec => []PauseKeepsProgress
<1>1. PInv => PauseKeepsProgress
  BY DEF PInv, StoreFollows, PauseKeepsProgress
<1> QED
  BY <1>1, AlwaysPInv, PTL

\* Only overtaking reports and the retries of the memory backend take stored
\* progress back; with one reporter and an SQL backend it only grows.
THEOREM ProgressGoesBackOnlyTwoWays == Spec => GoesBackOnlyTwoWays
<1> DEFINE Back(id) == stored'[id] < stored[id] =>
               \/ ~sql /\ Retry(id)
               \/ \E r \in Reporter : Reporter # {r} /\ Flush(r)
<1>1. ASSUME PInv, [Next]_vars, NEW id \in TaskId
      PROVE  Back(id)
  <2> USE DEF PInv, ProgressTypes
  <2>1. stored[id] \in Nat
    BY <1>1
  <2>2. ASSUME stored'[id] = stored[id] PROVE Back(id)
    BY <2>1, <2>2
  <2>3. ASSUME NEW i \in TaskId, PauseFlush(i) PROVE Back(id)
    BY <1>1, <2>3 DEF PauseFlush, Store, StoreFollows
  <2>4. ASSUME NEW i \in TaskId, Retry(i) PROVE Back(id)
    BY <1>1, <2>1, <2>4 DEF Retry, Requeue, Store
  <2>5. ASSUME NEW i \in TaskId, StartEnqueue(i) PROVE Back(id)
    BY <1>1, <2>1, <2>5 DEF StartEnqueue, Requeue, Store, StoreFollows
  <2>6. ASSUME NEW r \in Reporter, Flush(r) PROVE Back(id)
    <3>1. flushing[r] \in [id : TaskId, value : Nat]
      BY <1>1, <2>6 DEF Flush
    <3>2. CASE Reporter = {r}
      <4>1. flushing[r].value = cache[flushing[r].id] /\ cache[flushing[r].id] # 0
        BY <1>1, <3>1, <3>2 DEF FlushesAreLive
      <4>2. stored[flushing[r].id] <= flushing[r].value
        BY <1>1, <3>1, <4>1 DEF StoreFollows
      <4>3. ~(stored'[id] < stored[id])
        <5>1. CASE id = flushing[r].id
          BY <1>1, <2>1, <2>6, <3>1, <4>2, <5>1 DEF Flush, Store
        <5>2. CASE id # flushing[r].id
          BY <1>1, <2>1, <2>6, <3>1, <5>2 DEF Flush, Store
        <5> QED
          BY <5>1, <5>2
      <4> QED
        BY <4>3
    <3>3. CASE Reporter # {r}
      BY <2>6, <3>3
    <3> QED
      BY <3>2, <3>3
  <2>7. CASE UNCHANGED stored
    BY <2>2, <2>7
  <2> QED
    BY <1>1, <2>3, <2>4, <2>5, <2>6, <2>7
    DEF Next, vars, Claim, Return, Pause, End, StartGet, Report, CrashAndBoot
<1>2. PInv /\ [Next]_vars => [\A id \in TaskId : Back(id)]_vars
  BY <1>1
<1> QED
  BY <1>2, AlwaysPInv, PTL DEF Spec, GoesBackOnlyTwoWays
=============================================================================
