------------------------ MODULE WatchRuntime_proofs ------------------------
(* Machine-checked proofs about WatchRuntime, for any number of requests,  *)
(* watcher ids and any limit.                                              *)
EXTENDS WatchRuntime, FiniteSetTheorems, TLAPS

\* Type correctness is inductive by itself: every handler of runtime.rs and
\* every step of run_watcher keeps the registry and the sessions well formed.
THEOREM TypeCorrect == Spec => []TypeOK
<1>1. Init => TypeOK
  BY ConstantsAssumption
     DEF Init, TypeOK, StartSteps, WatchState
<1>2. ASSUME TypeOK, [Next]_vars PROVE TypeOK'
  <2> USE <1>2, ConstantsAssumption
      DEF TypeOK, vars, startVars, stopVars, sessionVars, StartStep, StopStep,
          TaskStep, StartSteps, StartResults, StopSteps, TaskSteps, WatchState
  <2>1. ASSUME NEW r \in Starts, StartNext(r) PROVE TypeOK'
    <3>1. CASE StartCheck(r) BY <3>1 DEF StartCheck
    <3>2. CASE StartCreate(r) BY <3>2 DEF StartCreate
    <3>3. CASE StartInsert(r) BY <3>3 DEF StartInsert
    <3>4. CASE StartSpawn(r) BY <3>4 DEF StartSpawn
    <3>5. CASE StartStore(r) BY <3>5 DEF StartStore
    <3>6. CASE StartRecheck(r) BY <3>6 DEF StartRecheck
    <3>7. CASE StartJoin(r) BY <3>7 DEF StartJoin
    <3>8. CASE StartRemove(r) BY <3>8 DEF StartRemove, RemoveOwn
    <3>9. CASE StartNotify(r) BY <3>9 DEF StartNotify, Notify
    <3>10. CASE CancelStart(r) BY <3>10 DEF CancelStart
    <3>11. CASE DropStart(r) BY <3>11 DEF DropStart
    <3>12. QED BY <2>1, <3>1, <3>2, <3>3, <3>4, <3>5, <3>6, <3>7, <3>8, <3>9,
                  <3>10, <3>11 DEF StartNext
  <2>2. ASSUME NEW q \in Stops, StopNext(q) PROVE TypeOK'
    <3>1. ASSUME NEW i \in Ids, StopLookup(q, i) PROVE TypeOK'
      BY <3>1 DEF StopLookup
    <3>2. CASE StopTake(q) BY <3>2 DEF StopTake
    <3>3. CASE StopJoin(q) BY <3>3 DEF StopJoin
    <3>4. CASE StopMark(q) BY <3>4 DEF StopMark
    <3>5. CASE StopNotify(q) BY <3>5 DEF StopNotify, Notify
    <3>6. CASE StopRemove(q) BY <3>6 DEF StopRemove, RemoveOwn
    <3>7. CASE DropStop(q) BY <3>7 DEF DropStop
    <3>8. QED BY <2>2, <3>1, <3>2, <3>3, <3>4, <3>5, <3>6, <3>7 DEF StopNext
  <2>3. ASSUME NEW s \in Starts, TaskNext(s) PROVE TypeOK'
    <3>1. CASE Finish(s) BY <3>1 DEF Finish
    <3>2. CASE PollOk(s) BY <3>2 DEF PollOk
    <3>3. CASE RecordOk(s) BY <3>3 DEF RecordOk
    <3>4. CASE NotifyRecovered(s) BY <3>4 DEF NotifyRecovered, Notify
    <3>5. CASE PollErr(s) BY <3>5 DEF PollErr
    <3>6. CASE NotifyError(s) BY <3>6 DEF NotifyError, Notify
    <3>7. CASE Wake(s) BY <3>7 DEF Wake
    <3>8. QED BY <2>3, <3>1, <3>2, <3>3, <3>4, <3>5, <3>6, <3>7 DEF TaskNext
  <2>4. CASE UNCHANGED vars BY <2>4
  <2>5. QED BY <1>2, <2>1, <2>2, <2>3, <2>4 DEF Next, Quiescent
<1>3. QED BY <1>1, <1>2, PTL DEF Spec

\* The part of the inductive invariant about the registry and the tokens:
\* whoever removes an entry has fired its session's token first, and a
\* session stays registered from its insert until then.
RegistryInv ==
  /\ TypeOK
  /\ RegistryKeyed
  /\ InsertedIsRegistered
  /\ RemoverCancelled
  /\ TaskAfterInsert
  /\ FailedStartLeavesNoStray

LEMMA RegistryInvariant == Spec => []RegistryInv
<1>1. Init => RegistryInv
  <2> SUFFICES ASSUME Init PROVE RegistryInv OBVIOUS
  <2>1. TypeOK
    BY ConstantsAssumption DEF Init, TypeOK, StartSteps, WatchState
  <2>2. QED
    BY <2>1 DEF Init, RegistryInv, RegistryKeyed, InsertedIsRegistered,
           RemoverCancelled, TaskAfterInsert, FailedStartLeavesNoStray,
           StartResults, Alive
<1>2. ASSUME RegistryInv, TypeOK', [Next]_vars PROVE RegistryInv'
  <2> USE <1>2, ConstantsAssumption
      DEF TypeOK, vars, startVars, stopVars, sessionVars, StartStep, StopStep,
          TaskStep, StartSteps, StartResults, StopSteps, TaskSteps, WatchState,
          RegistryInv, RegistryKeyed, InsertedIsRegistered,
          RemoverCancelled, TaskAfterInsert, FailedStartLeavesNoStray, Alive
  <2>1. ASSUME NEW r \in Starts, StartNext(r) PROVE RegistryInv'
    <3>1. CASE StartCheck(r) BY <3>1 DEF StartCheck
    <3>2. CASE StartCreate(r) BY <3>2 DEF StartCreate
    <3>3. CASE StartInsert(r) BY <3>3 DEF StartInsert
    <3>4. CASE StartSpawn(r) BY <3>4 DEF StartSpawn
    <3>5. CASE StartStore(r) BY <3>5 DEF StartStore
    <3>6. CASE StartRecheck(r) BY <3>6 DEF StartRecheck
    <3>7. CASE StartJoin(r) BY <3>7 DEF StartJoin
    <3>8. CASE StartRemove(r) BY <3>8 DEF StartRemove, RemoveOwn
    <3>9. CASE StartNotify(r) BY <3>9 DEF StartNotify, Notify
    <3>10. CASE CancelStart(r) BY <3>10 DEF CancelStart
    <3>11. CASE DropStart(r) BY <3>11 DEF DropStart, StartAwaits
    <3> QED
      BY <2>1, <3>1, <3>2, <3>3, <3>4, <3>5, <3>6, <3>7, <3>8, <3>9, <3>10, <3>11 DEF
         StartNext
  <2>2. ASSUME NEW q \in Stops, StopNext(q) PROVE RegistryInv'
    <3>1. ASSUME NEW i \in Ids, StopLookup(q, i) PROVE RegistryInv'
      BY <3>1 DEF StopLookup
    <3>2. CASE StopTake(q) BY <3>2 DEF StopTake
    <3>3. CASE StopJoin(q) BY <3>3 DEF StopJoin
    <3>4. CASE StopMark(q) BY <3>4 DEF StopMark
    <3>5. CASE StopNotify(q) BY <3>5 DEF StopNotify, Notify
    <3>6. CASE StopRemove(q) BY <3>6 DEF StopRemove, RemoveOwn
    <3>7. CASE DropStop(q) BY <3>7 DEF DropStop
    <3> QED BY <2>2, <3>1, <3>2, <3>3, <3>4, <3>5, <3>6, <3>7 DEF StopNext
  <2>3. ASSUME NEW s \in Starts, TaskNext(s) PROVE RegistryInv'
    <3>1. CASE Finish(s) BY <3>1 DEF Finish
    <3>2. CASE PollOk(s) BY <3>2 DEF PollOk
    <3>3. CASE RecordOk(s) BY <3>3 DEF RecordOk
    <3>4. CASE NotifyRecovered(s) BY <3>4 DEF NotifyRecovered, Notify
    <3>5. CASE PollErr(s) BY <3>5 DEF PollErr
    <3>6. CASE NotifyError(s) BY <3>6 DEF NotifyError, Notify
    <3>7. CASE Wake(s) BY <3>7 DEF Wake
    <3> QED BY <2>3, <3>1, <3>2, <3>3, <3>4, <3>5, <3>6, <3>7 DEF TaskNext
  <2>4. CASE UNCHANGED vars BY <2>4
  <2>5. QED BY <2>1, <2>2, <2>3, <2>4 DEF Next, Quiescent
<1>3. QED BY <1>1, <1>2, TypeCorrect, PTL DEF Spec

\* No interleaving of starts, stops, cancellations and dropped handlers leaves
\* a polling task that the registry no longer reaches (runtime.rs, watch_start
\* and watch_stop).
THEOREM NoOrphanedWatcher == Spec => []LiveWatcherRegistered
<1>1. RegistryInv => LiveWatcherRegistered
  BY DEF RegistryInv, InsertedIsRegistered, LiveWatcherRegistered
<1>2. QED BY <1>1, RegistryInvariant, PTL

\* A watch.start answered with an error left no poller out of reach: nothing, if it
\* returned the error itself, and at most a registered watcher, if the transport
\* dropped it at the end of the cancellation grace (transport.rs, serve_with_limit).
THEOREM FailedStartsUndone == Spec => []FailedStartLeavesNoStray
<1>1. RegistryInv => FailedStartLeavesNoStray BY DEF RegistryInv
<1>2. QED BY <1>1, RegistryInvariant, PTL

\* The registry entry of an id is never overwritten, and leaves only after the
\* token of its own session fired: what the Arc::ptr_eq guards are for.
THEOREM EntriesAreOwned == Spec => EntryLeavesOnlyWhenCancelled
<1> DEFINE Owned == \A i \in Ids :
      registry[i] # NoSession /\ registry'[i] # registry[i]
        => registry'[i] = NoSession /\ registry[i] \in token
<1>1. ASSUME RegistryInv, [Next]_vars PROVE [Owned]_vars
  <2> USE <1>1, ConstantsAssumption
      DEF RegistryInv, TypeOK, RegistryKeyed, RemoverCancelled, Owned, StartSteps,
          StartResults, StopSteps
  <2>1. CASE UNCHANGED registry BY <2>1
  <2>2. ASSUME NEW r \in Starts, StartInsert(r) PROVE Owned
    BY <2>2 DEF StartInsert
  <2>3. ASSUME NEW r \in Starts, StartRemove(r) PROVE Owned
    BY <2>3 DEF StartRemove, RemoveOwn, StartStep
  <2>4. ASSUME NEW q \in Stops, StopRemove(q) PROVE Owned
    BY <2>4 DEF StopRemove, RemoveOwn, StopStep
  <2>5. ASSUME NEW r \in Starts, StartNext(r) PROVE Owned
    BY <2>1, <2>2, <2>3, <2>5 DEF StartNext, StartCheck, StartCreate, StartSpawn,
       StartStore, StartRecheck, StartJoin, StartNotify, CancelStart, DropStart
  <2>6. ASSUME NEW q \in Stops, StopNext(q) PROVE Owned
    BY <2>1, <2>4, <2>6 DEF StopNext, StopLookup, StopTake, StopJoin, StopMark,
       StopNotify, DropStop
  <2>7. ASSUME NEW s \in Starts, TaskNext(s) PROVE Owned
    BY <2>1, <2>7 DEF TaskNext, Finish, PollOk, RecordOk, NotifyRecovered,
       PollErr, NotifyError, Wake
  <2>8. CASE UNCHANGED vars BY <2>1, <2>8 DEF vars
  <2>9. QED BY <2>5, <2>6, <2>7, <2>8 DEF Next, Quiescent
<1>2. QED BY <1>1, RegistryInvariant, PTL DEF Spec, EntryLeavesOnlyWhenCancelled

\* The limit is checked again under the write lock of the insert, so the
\* registry never grows beyond it.
THEOREM LimitHolds == Spec => []WatcherLimit
<1>1. Init => WatcherLimit
  <2> SUFFICES ASSUME Init PROVE WatcherLimit OBVIOUS
  <2>1. Registered = {} BY DEF Init, Registered
  <2>2. QED BY <2>1, FS_EmptySet, ConstantsAssumption DEF WatcherLimit
<1>2. ASSUME TypeOK, WatcherLimit, [Next]_vars PROVE WatcherLimit'
  <2> USE <1>2, ConstantsAssumption DEF TypeOK, WatcherLimit
  <2>0. IsFiniteSet(Registered) BY FS_Subset DEF Registered
  <2>1. ASSUME Registered' \subseteq Registered PROVE WatcherLimit'
    <3>1. Cardinality(Registered') <= Cardinality(Registered)
      BY <2>0, <2>1, FS_Subset
    <3>2. IsFiniteSet(Registered') BY <2>0, <2>1, FS_Subset
    <3>3. QED BY <3>1, <3>2, <2>0, FS_CardinalityType
  <2>2. ASSUME UNCHANGED registry PROVE WatcherLimit'
    BY <2>1, <2>2 DEF Registered
  <2>3. ASSUME NEW s \in Starts, RemoveOwn(s) PROVE WatcherLimit'
    BY <2>1, <2>3 DEF Registered, RemoveOwn
  <2>4. ASSUME NEW r \in Starts, StartInsert(r) PROVE WatcherLimit'
    <3>1. CASE UNCHANGED registry BY <2>2, <3>1
    <3>2. CASE /\ registry[startId[r]] = NoSession /\ ~Full
               /\ registry' = [registry EXCEPT ![startId[r]] = r]
      <4>1. Registered' = Registered \cup {startId[r]}
        BY <3>2 DEF Registered
      <4>2. startId[r] \notin Registered BY <3>2 DEF Registered
      <4>3. Cardinality(Registered') = Cardinality(Registered) + 1
        BY <4>1, <4>2, <2>0, FS_AddElement
      <4>4. Cardinality(Registered) < Limit
        BY <3>2, <2>0, FS_CardinalityType DEF Full
      <4>5. QED BY <4>3, <4>4, <2>0, FS_CardinalityType
    <3>3. QED BY <2>4, <3>1, <3>2 DEF StartInsert
  <2>5. ASSUME NEW r \in Starts, StartNext(r) PROVE WatcherLimit'
    BY <2>2, <2>3, <2>4, <2>5 DEF StartNext, StartCheck, StartCreate, StartSpawn,
       StartStore, StartRecheck, StartJoin, StartRemove, StartNotify,
       CancelStart, DropStart
  <2>6. ASSUME NEW q \in Stops, StopNext(q) PROVE WatcherLimit'
    <3>1. CASE StopRemove(q)
      <4>1. stopSession[q] \in Starts \cup {NoSession} OBVIOUS
      <4>2. Registered' \subseteq Registered
        BY <3>1, <4>1 DEF StopRemove, RemoveOwn, Registered
      <4>3. QED BY <2>1, <4>2
    <3>2. QED BY <2>2, <2>6, <3>1 DEF StopNext, StopLookup, StopTake, StopJoin,
                StopMark, StopNotify, DropStop
  <2>7. ASSUME NEW s \in Starts, TaskNext(s) PROVE WatcherLimit'
    BY <2>2, <2>7 DEF TaskNext, Finish, PollOk, RecordOk, NotifyRecovered,
       PollErr, NotifyError, Wake
  <2>8. CASE UNCHANGED vars BY <2>2, <2>8 DEF vars
  <2>9. QED BY <2>5, <2>6, <2>7, <2>8 DEF Next, Quiescent
<1>3. QED BY <1>1, <1>2, TypeCorrect, PTL DEF Spec

\* What run_watcher leaves in a session's status and snapshot, whatever the
\* handlers do to the session meanwhile.
LEMMA StatusInvariant == Spec => [](StatusConsistent /\ EndedIsStopped)
<1>1. Init => StatusConsistent /\ EndedIsStopped
  BY DEF Init, StatusConsistent, EndedIsStopped
<1>2. ASSUME TypeOK, StatusConsistent, EndedIsStopped, [Next]_vars
      PROVE  StatusConsistent' /\ EndedIsStopped'
  <2> USE <1>2, ConstantsAssumption
      DEF TypeOK, vars, startVars, stopVars, sessionVars, StartStep, StopStep,
          TaskStep, StartSteps, StartResults, StopSteps, TaskSteps, WatchState,
          StatusConsistent, EndedIsStopped
  <2>1. ASSUME NEW r \in Starts, StartNext(r) PROVE (StatusConsistent /\ EndedIsStopped)'
    <3>1. CASE StartCheck(r) BY <3>1 DEF StartCheck
    <3>2. CASE StartCreate(r) BY <3>2 DEF StartCreate
    <3>3. CASE StartInsert(r) BY <3>3 DEF StartInsert
    <3>4. CASE StartSpawn(r) BY <3>4 DEF StartSpawn
    <3>5. CASE StartStore(r) BY <3>5 DEF StartStore
    <3>6. CASE StartRecheck(r) BY <3>6 DEF StartRecheck
    <3>7. CASE StartJoin(r) BY <3>7 DEF StartJoin
    <3>8. CASE StartRemove(r) BY <3>8 DEF StartRemove, RemoveOwn
    <3>9. CASE StartNotify(r) BY <3>9 DEF StartNotify, Notify
    <3>10. CASE CancelStart(r) BY <3>10 DEF CancelStart
    <3>11. CASE DropStart(r) BY <3>11 DEF DropStart, StartAwaits
    <3> QED
      BY <2>1, <3>1, <3>2, <3>3, <3>4, <3>5, <3>6, <3>7, <3>8, <3>9, <3>10, <3>11 DEF
         StartNext
  <2>2. ASSUME NEW q \in Stops, StopNext(q) PROVE (StatusConsistent /\ EndedIsStopped)'
    <3>1. ASSUME NEW i \in Ids, StopLookup(q, i) PROVE (StatusConsistent /\ EndedIsStopped)'
      BY <3>1 DEF StopLookup
    <3>2. CASE StopTake(q) BY <3>2 DEF StopTake
    <3>3. CASE StopJoin(q) BY <3>3 DEF StopJoin
    <3>4. CASE StopMark(q) BY <3>4 DEF StopMark
    <3>5. CASE StopNotify(q) BY <3>5 DEF StopNotify, Notify
    <3>6. CASE StopRemove(q) BY <3>6 DEF StopRemove, RemoveOwn
    <3>7. CASE DropStop(q) BY <3>7 DEF DropStop
    <3> QED BY <2>2, <3>1, <3>2, <3>3, <3>4, <3>5, <3>6, <3>7 DEF StopNext
  <2>3. ASSUME NEW s \in Starts, TaskNext(s) PROVE (StatusConsistent /\ EndedIsStopped)'
    <3>1. CASE Finish(s) BY <3>1 DEF Finish
    <3>2. CASE PollOk(s) BY <3>2 DEF PollOk
    <3>3. CASE RecordOk(s) BY <3>3 DEF RecordOk
    <3>4. CASE NotifyRecovered(s) BY <3>4 DEF NotifyRecovered, Notify
    <3>5. CASE PollErr(s) BY <3>5 DEF PollErr
    <3>6. CASE NotifyError(s) BY <3>6 DEF NotifyError, Notify
    <3>7. CASE Wake(s) BY <3>7 DEF Wake
    <3> QED BY <2>3, <3>1, <3>2, <3>3, <3>4, <3>5, <3>6, <3>7 DEF TaskNext
  <2>4. CASE UNCHANGED vars BY <2>4
  <2>5. QED BY <2>1, <2>2, <2>3, <2>4 DEF Next, Quiescent
<1>3. QED BY <1>1, <1>2, TypeCorrect, PTL DEF Spec

\* watch.status never pairs a poll time with missing objects, a running state
\* with an error text, or an error state with none.
THEOREM ReportsAreConsistent == Spec => []ReportConsistent
<1>1. TypeOK /\ StatusConsistent => ReportConsistent
  BY DEF TypeOK, StatusConsistent, ReportConsistent, StatusReport, Registered
<1>2. QED BY <1>1, TypeCorrect, StatusInvariant, PTL

\* A watcher whose task ended is reported as stopped for good.
THEOREM EndedWatchersAreStopped == Spec => []EndedIsStopped
BY StatusInvariant, PTL

-----------------------------------------------------------------------------
(* The refinement: every step of a handler or a task is a step of the abstract *)
(* registry, or changes nothing that it shows.                                *)

\* A session that was spawned has a task, which ends only once it was told to.
SpawnInv ==
  \A s \in Starts :
    /\ startPc[s] \in {"store", "recheck"} => task[s] # "none"
    /\ task[s] = "done" => s \in token

LEMMA SpawnInvariant == Spec => []SpawnInv
<1>1. Init => SpawnInv BY DEF Init, SpawnInv
<1>2. ASSUME TypeOK, SpawnInv, [Next]_vars PROVE SpawnInv'
  <2> USE <1>2, ConstantsAssumption
      DEF TypeOK, SpawnInv, vars, startVars, stopVars, sessionVars, StartStep,
          TaskStep, StartSteps, StartResults, TaskSteps
  <2>1. ASSUME NEW r \in Starts, StartNext(r) PROVE SpawnInv'
    <3>1. CASE StartSpawn(r) BY <3>1 DEF StartSpawn
    <3>2. CASE StartRecheck(r) BY <3>2 DEF StartRecheck
    <3>3. CASE DropStart(r) BY <3>3 DEF DropStart, StartAwaits
    <3>4. QED
      BY <2>1, <3>1, <3>2, <3>3 DEF StartNext, StartCheck, StartCreate, StartInsert,
         StartStore, StartJoin, StartRemove, StartNotify, CancelStart
  <2>2. ASSUME NEW q \in Stops, StopNext(q) PROVE SpawnInv'
    BY <2>2 DEF StopNext, StopLookup, StopTake, StopJoin, StopMark, StopNotify,
       StopRemove, DropStop
  <2>3. ASSUME NEW s \in Starts, TaskNext(s) PROVE SpawnInv'
    BY <2>3 DEF TaskNext, Finish, PollOk, RecordOk, NotifyRecovered, PollErr,
       NotifyError, Wake
  <2>4. CASE UNCHANGED vars BY <2>4
  <2>5. QED BY <2>1, <2>2, <2>3, <2>4 DEF Next, Quiescent
<1>3. QED BY <1>1, <1>2, TypeCorrect, PTL DEF Spec

\* What the abstract registry sees of the state.
Lives == [s \in Starts |-> Life(s)]

\* A task's step inside its loop is invisible.
LEMMA LoopStepInvisible ==
  ASSUME TypeOK, NEW s \in Starts, NEW from \in TaskSteps, NEW to \in TaskSteps,
         TaskStep(s, from, to)
  PROVE  Lives' = Lives
BY DEF TypeOK, TaskStep, TaskSteps, Lives, Life

LEMMA BeginsWhenSpawned ==
  ASSUME RegistryInv, NEW r \in Starts, StartSpawn(r)
  PROVE  Abstract!Begin(r)
<1> USE DEF RegistryInv, TypeOK, StartSpawn, StartStep, TaskStep
<1>1. Lives[r] = "new" BY DEF Lives, Life
<1>2. Abstract!Holds(r) \/ r \in token
  BY DEF Abstract!Holds, InsertedIsRegistered
<1>3. Lives' = [Lives EXCEPT ![r] = "polling"] BY DEF Lives, Life
<1>4. QED BY <1>1, <1>2, <1>3 DEF Abstract!Begin, Lives

LEMMA TakesWhenInserted ==
  ASSUME RegistryInv, NEW r \in Starts, startPc[r] = "insert",
         registry[startId[r]] = NoSession, ~Full,
         registry' = [registry EXCEPT ![startId[r]] = r], UNCHANGED <<task, token>>
  PROVE  Abstract!Take(r, startId[r])
<1> USE DEF RegistryInv, TypeOK
<1>1. Lives[r] = "new" /\ Lives' = Lives BY DEF TaskAfterInsert, Lives, Life
<1>2. ~Abstract!Holds(r) BY ConstantsAssumption DEF RegistryKeyed, Abstract!Holds
<1>3. Abstract!Taken = Registered BY DEF Abstract!Taken, Registered
<1>4. IsFiniteSet(Registered) BY ConstantsAssumption, FS_Subset DEF Registered
<1>5. Cardinality(Registered) < Limit
  BY <1>4, ConstantsAssumption, FS_CardinalityType DEF Full
<1>6. Lives[r] = Life(r) BY DEF Lives
<1>7. QED
  BY <1>1, <1>2, <1>3, <1>5, <1>6
  DEF Abstract!Take, Lives, Cardinality, Abstract!Cardinality, IsFiniteSet, Abstract!IsFiniteSet

\* A guarded remove gives an id back, or does nothing.
LEMMA GivesBackWhenRemoved ==
  ASSUME TypeOK, NEW s \in Starts, s \in token, RemoveOwn(s), UNCHANGED <<task, token>>
  PROVE  Abstract!GiveBack(startId[s]) \/ UNCHANGED Abstract!vars
<1> USE DEF TypeOK, RemoveOwn
<1>1. Lives' = Lives BY DEF Lives, Life
<1>2. CASE registry[startId[s]] = s BY <1>1, <1>2 DEF Abstract!GiveBack, Lives
<1>3. CASE registry[startId[s]] # s
  <2>1. registry' = registry BY <1>3
  <2>2. QED BY <1>1, <2>1 DEF Abstract!vars, Lives
<1>4. QED BY <1>2, <1>3

\* The handlers and tasks of runtime.rs together behave as an atomic registry of
\* watchers, for any number of requests, ids and any limit.
THEOREM RegistryImplemented == Spec => ImplementsRegistry
<1> DEFINE Hidden == UNCHANGED <<registry, token, Lives>>
           Shown  == Abstract!Next \/ UNCHANGED Abstract!vars
<1>0. Hidden => Shown BY DEF Abstract!vars, Lives
<1>1. Init => Abstract!Init BY DEF Init, Abstract!Init, Life
<1>2. ASSUME RegistryInv, SpawnInv, [Next]_vars PROVE Shown
  <2> USE <1>2 DEF RegistryInv
  <2>1. ASSUME UNCHANGED <<registry, token, task>> PROVE Shown
    <3>1. Hidden BY <2>1 DEF Lives, Life
    <3>2. QED BY <1>0, <3>1
  <2>2. ASSUME NEW r \in Starts, StartNext(r) PROVE Shown
    <3>1. CASE StartInsert(r)
      <4>1. CASE registry[startId[r]] # NoSession \/ Full
        BY <2>1, <3>1, <4>1 DEF StartInsert, sessionVars
      <4>2. CASE registry[startId[r]] = NoSession /\ ~Full
        <5>1. Abstract!Take(r, startId[r])
          BY <3>1, <4>2, TakesWhenInserted DEF StartInsert, StartStep, sessionVars
        <5>2. startId[r] \in Ids BY DEF TypeOK
        <5>3. QED BY <5>1, <5>2 DEF Abstract!Next
      <4>3. QED BY <4>1, <4>2
    <3>2. CASE StartSpawn(r) BY <3>2, BeginsWhenSpawned DEF Abstract!Next
    <3>3. CASE StartRecheck(r)
      <4>1. UNCHANGED <<registry, task>> /\ token' \in {token, token \cup {r}}
        BY <3>3 DEF StartRecheck
      <4>2. CASE r \in token BY <2>1, <4>1, <4>2
      <4>3. CASE r \notin token
        <5>1. Alive(r) BY <3>3, <4>3 DEF StartRecheck, StartStep, SpawnInv, Alive
        <5>2. Abstract!Holds(r)
          BY <5>1, <4>3 DEF InsertedIsRegistered, Abstract!Holds, TypeOK
        <5>3. CASE token' = token BY <2>1, <4>1, <5>3
        <5>4. CASE token' = token \cup {r}
          <6>1. Abstract!Tell(r) BY <4>1, <5>2, <5>4 DEF Abstract!Tell, Life
          <6>2. QED BY <6>1 DEF Abstract!Next
        <5>5. QED BY <4>1, <5>3, <5>4
      <4>4. QED BY <4>2, <4>3
    <3>4. CASE StartRemove(r)
      <4>1. r \in token BY <3>4 DEF StartRemove, StartStep, RemoverCancelled
      <4>2. Abstract!GiveBack(startId[r]) \/ UNCHANGED Abstract!vars
        BY <3>4, <4>1, GivesBackWhenRemoved DEF StartRemove, sessionVars
      <4>3. startId[r] \in Ids BY DEF TypeOK
      <4>4. QED BY <4>2, <4>3 DEF Abstract!Next
    <3>5. CASE StartCheck(r) \/ StartCreate(r) \/ StartStore(r) \/ StartJoin(r)
               \/ StartNotify(r) \/ CancelStart(r) \/ DropStart(r)
      BY <2>1, <3>5 DEF StartCheck, StartCreate, StartStore, StartJoin, StartNotify,
         CancelStart, DropStart, sessionVars
    <3>6. QED BY <2>2, <3>1, <3>2, <3>3, <3>4, <3>5 DEF StartNext
  <2>3. ASSUME NEW q \in Stops, StopNext(q) PROVE Shown
    <3>1. ASSUME NEW i \in Ids, StopLookup(q, i) PROVE Shown
      <4>1. registry[i] \in Starts /\ Abstract!Holds(registry[i])
        BY <3>1 DEF StopLookup, TypeOK, Abstract!Holds
      <4>2. Abstract!Tell(registry[i]) BY <3>1, <4>1 DEF StopLookup, Abstract!Tell, Life
      <4>3. QED BY <4>1, <4>2 DEF Abstract!Next
    <3>2. CASE StopRemove(q)
      <4>1. stopSession[q] \in token /\ stopSession[q] \in Starts
        BY <3>2 DEF StopRemove, StopStep, RemoverCancelled, TypeOK
      <4>2. Abstract!GiveBack(startId[stopSession[q]]) \/ UNCHANGED Abstract!vars
        BY <3>2, <4>1, GivesBackWhenRemoved DEF StopRemove, sessionVars
      <4>3. startId[stopSession[q]] \in Ids BY <4>1 DEF TypeOK
      <4>4. QED BY <4>2, <4>3 DEF Abstract!Next
    <3>3. CASE StopTake(q) \/ StopJoin(q) \/ StopMark(q) \/ StopNotify(q) \/ DropStop(q)
      BY <2>1, <3>3 DEF StopTake, StopJoin, StopMark, StopNotify, DropStop, sessionVars
    <3>4. QED BY <2>3, <3>1, <3>2, <3>3 DEF StopNext
  <2>4. ASSUME NEW s \in Starts, TaskNext(s) PROVE Shown
    <3>1. CASE Finish(s)
      <4>1. Lives[s] = "polling" /\ Lives' = [Lives EXCEPT ![s] = "ended"]
        BY <3>1 DEF Finish, TaskStep, TypeOK, Lives, Life
      <4>2. Abstract!End(s) BY <3>1, <4>1 DEF Finish, Abstract!End, Lives
      <4>3. QED BY <4>2 DEF Abstract!Next
    <3>2. ASSUME NEW from \in TaskSteps, NEW to \in TaskSteps, TaskStep(s, from, to),
                 UNCHANGED <<registry, token>>
          PROVE  Shown
      BY <1>0, <3>2, LoopStepInvisible
    <3>3. CASE PollOk(s) \/ RecordOk(s) \/ NotifyRecovered(s) \/ PollErr(s)
               \/ NotifyError(s) \/ Wake(s)
      <4>1. UNCHANGED <<registry, token>>
        BY <3>3 DEF PollOk, RecordOk, NotifyRecovered, PollErr, NotifyError, Wake
      <4>2. \E from \in TaskSteps, to \in TaskSteps : TaskStep(s, from, to)
        BY <3>3 DEF PollOk, RecordOk, NotifyRecovered, PollErr, NotifyError, Wake, TaskSteps
      <4>3. QED BY <3>2, <4>1, <4>2
    <3>4. QED BY <2>4, <3>1, <3>3 DEF TaskNext
  <2>5. CASE UNCHANGED vars BY <2>1, <2>5 DEF vars, sessionVars
  <2>6. QED BY <1>2, <2>2, <2>3, <2>4, <2>5 DEF Next, Quiescent
<1>3. QED
  BY <1>1, <1>2, RegistryInvariant, SpawnInvariant, PTL
  DEF Spec, ImplementsRegistry, Abstract!Spec

-----------------------------------------------------------------------------
(* The last status a careful client sees *)

\* The client cancels no watch.start and sends one watch.stop at a time.
CarefulClient == Cancellable = {} /\ \A p, q \in Stops : p = q

\* Then no start is undone, and the session a watch.stop works on keeps its entry
\* until that stop removes it.
StopHoldsEntry ==
  /\ cancelled = {}
  /\ \A r \in Starts : startPc[r] \notin {"join", "remove"}
  /\ \A q \in Stops : stopPc[q] # "idle" =>
       stopSession[q] \in Starts /\ registry[startId[stopSession[q]]] = stopSession[q]

LEMMA StopHoldsEntryInvariant == CarefulClient /\ Spec => []StopHoldsEntry
<1> SUFFICES ASSUME CarefulClient PROVE Spec => []StopHoldsEntry OBVIOUS
<1>1. Init => StopHoldsEntry BY DEF Init, StopHoldsEntry
<1>2. ASSUME RegistryInv, StopHoldsEntry, [Next]_vars PROVE StopHoldsEntry'
  <2> USE <1>2, ConstantsAssumption
      DEF RegistryInv, TypeOK, StopHoldsEntry, CarefulClient, StartStep, StopStep,
          StartSteps, StartResults, StopSteps, startVars, stopVars
  <2>1. ASSUME NEW r \in Starts, StartNext(r) PROVE StopHoldsEntry'
    <3>1. CASE StartInsert(r) BY <3>1 DEF StartInsert
    <3>2. CASE StartRecheck(r) BY <3>2 DEF StartRecheck
    <3>3. CASE StartCheck(r) \/ StartCreate(r) BY <3>3 DEF StartCheck, StartCreate
    <3>4. CASE StartRemove(r) \/ CancelStart(r) \/ DropStart(r)
      BY <3>4 DEF StartRemove, CancelStart, DropStart
    <3>5. CASE StartSpawn(r) \/ StartStore(r) \/ StartJoin(r) \/ StartNotify(r)
      BY <3>5 DEF StartSpawn, StartStore, StartJoin, StartNotify
    <3>6. QED BY <2>1, <3>1, <3>2, <3>3, <3>4, <3>5 DEF StartNext
  <2>2. ASSUME NEW q \in Stops, StopNext(q) PROVE StopHoldsEntry'
    <3>1. ASSUME NEW i \in Ids, StopLookup(q, i) PROVE StopHoldsEntry'
      BY <3>1 DEF StopLookup, RegistryKeyed
    <3>2. CASE StopRemove(q) \/ DropStop(q)
      <4>1. \A p \in Stops : stopPc'[p] = "idle" BY <3>2 DEF StopRemove, DropStop
      <4>2. UNCHANGED <<startPc, cancelled>> BY <3>2 DEF StopRemove, DropStop
      <4>3. QED BY <4>1, <4>2
    <3>3. CASE StopTake(q) \/ StopJoin(q) \/ StopMark(q) \/ StopNotify(q)
      BY <3>3 DEF StopTake, StopJoin, StopMark, StopNotify
    <3>4. QED BY <2>2, <3>1, <3>2, <3>3 DEF StopNext
  <2>3. ASSUME NEW s \in Starts, TaskNext(s) PROVE StopHoldsEntry'
    BY <2>3 DEF TaskNext, Finish, PollOk, RecordOk, NotifyRecovered, PollErr,
       NotifyError, Wake
  <2>4. CASE UNCHANGED vars BY <2>4 DEF vars
  <2>5. QED BY <2>1, <2>2, <2>3, <2>4 DEF Next, Quiescent
<1>3. QED BY <1>1, <1>2, RegistryInvariant, PTL DEF Spec

\* A client that cancels no watch.start and sends one watch.stop at a time is never
\* left with "stopped" as the status of an id whose watcher runs: watch_stop notifies
\* before it frees the id (runtime.rs, watch_stop and watch_start).
THEOREM StoppedIsNotStale == CarefulClient /\ Spec => []StoppedShownOnlyWhenCancelled
<1> SUFFICES ASSUME CarefulClient PROVE Spec => []StoppedShownOnlyWhenCancelled OBVIOUS
<1>1. Init => StoppedShownOnlyWhenCancelled
  BY DEF Init, StoppedShownOnlyWhenCancelled, Registered
<1>2. ASSUME RegistryInv, StopHoldsEntry, StoppedShownOnlyWhenCancelled, [Next]_vars
      PROVE  StoppedShownOnlyWhenCancelled'
  <2> USE <1>2, ConstantsAssumption
      DEF RegistryInv, TypeOK, RegistryKeyed, StoppedShownOnlyWhenCancelled, Registered,
          StartStep, StopStep, TaskStep, StartSteps, StartResults, Notify
  <2>1. ASSUME UNCHANGED <<registry, startPc, shown>>, token \subseteq token'
        PROVE  StoppedShownOnlyWhenCancelled'
    BY <2>1
  <2>2. ASSUME NEW r \in Starts, StartNext(r) PROVE StoppedShownOnlyWhenCancelled'
    <3>1. CASE StartInsert(r) BY <3>1 DEF StartInsert, sessionVars
    <3>2. CASE StartNotify(r) BY <3>2 DEF StartNotify, sessionVars
    <3>3. CASE StartRemove(r) \/ DropStart(r)
      BY <3>3 DEF StartRemove, DropStart, StopHoldsEntry
    <3>4. CASE StartRecheck(r) BY <3>4 DEF StartRecheck
    <3>5. CASE StartCheck(r) \/ StartCreate(r) \/ StartSpawn(r) \/ StartStore(r)
               \/ StartJoin(r) \/ CancelStart(r)
      BY <3>5 DEF StartCheck, StartCreate, StartSpawn, StartStore, StartJoin,
         CancelStart, sessionVars, startVars
    <3>6. QED BY <2>2, <3>1, <3>2, <3>3, <3>4, <3>5 DEF StartNext
  <2>3. ASSUME NEW q \in Stops, StopNext(q) PROVE StoppedShownOnlyWhenCancelled'
    <3>1. CASE StopNotify(q)
      <4>1. stopSession[q] \in token /\ registry[startId[stopSession[q]]] = stopSession[q]
        BY <3>1 DEF StopNotify, StopHoldsEntry, RemoverCancelled
      <4>2. QED BY <3>1, <4>1 DEF StopNotify, startVars, sessionVars
    <3>2. CASE StopRemove(q)
      BY <3>2 DEF StopRemove, RemoveOwn, startVars, sessionVars
    <3>3. ASSUME NEW i \in Ids, StopLookup(q, i) PROVE StoppedShownOnlyWhenCancelled'
      BY <2>1, <3>3 DEF StopLookup, startVars
    <3>4. CASE StopTake(q) \/ StopJoin(q) \/ StopMark(q) \/ DropStop(q)
      BY <2>1, <3>4 DEF StopTake, StopJoin, StopMark, DropStop, startVars, sessionVars
    <3>5. QED BY <2>3, <3>1, <3>2, <3>3, <3>4 DEF StopNext
  <2>4. ASSUME NEW s \in Starts, TaskNext(s) PROVE StoppedShownOnlyWhenCancelled'
    <3>1. CASE NotifyRecovered(s) \/ NotifyError(s)
      BY <3>1 DEF NotifyRecovered, NotifyError, startVars
    <3>2. CASE Finish(s) \/ PollOk(s) \/ RecordOk(s) \/ PollErr(s) \/ Wake(s)
      BY <2>1, <3>2 DEF Finish, PollOk, RecordOk, PollErr, Wake, startVars
    <3>3. QED BY <2>4, <3>1, <3>2 DEF TaskNext
  <2>5. CASE UNCHANGED vars BY <2>1, <2>5 DEF vars, startVars, sessionVars
  <2>6. QED BY <2>2, <2>3, <2>4, <2>5 DEF Next, Quiescent
<1>3. QED BY <1>1, <1>2, RegistryInvariant, StopHoldsEntryInvariant, PTL DEF Spec

=============================================================================
