---------------------------- MODULE WatchRuntime ----------------------------
(***************************************************************************)
(* The watcher supervisor of the JSON-RPC server: CoreRuntime's registry,  *)
(* the handlers watch.start and watch.stop, and the task run_watcher that  *)
(* polls on behalf of one session (crates/s3pulse-cli/src/rpc/runtime.rs). *)
(*                                                                         *)
(* Handlers and tasks run on a multi-threaded Tokio runtime, so every      *)
(* await point, and every hand-over of a lock, separates two actions.  A   *)
(* watch.start request builds at most one WatchSession, so the request's   *)
(* name is also the session's identity (what Arc::ptr_eq compares).        *)
(***************************************************************************)
EXTENDS Naturals, FiniteSets

CONSTANTS
  Starts,     \* watch.start requests, and the sessions they create
  Cancellable, \* the watch.start requests the client may cancel
  Stops,      \* client lanes, each sending one watch.stop at a time
  Ids,        \* watcher ids
  Limit,      \* MAX_CONCURRENT_WATCHERS
  FailureKinds, \* whether a failed poll is "retryable" or "permanent"
  NoSession   \* absence of a session

ASSUME ConstantsAssumption ==
  /\ IsFiniteSet(Ids)
  /\ Limit \in Nat \ {0}
  /\ FailureKinds \subseteq {"retryable", "permanent"}
  /\ NoSession \notin Starts
  /\ Cancellable \subseteq Starts

VARIABLES
  registry,    \* CoreRuntime::watchers: the session registered under an id
  startPc,     \* where each watch.start is; its result once it returned
  startId,     \* the id each watch.start asked for
  stopPc,      \* where each watch.stop lane is
  stopSession, \* the session a watch.stop looked up
  cancelled,   \* watch.start requests whose cancellation token has fired
  token,       \* sessions whose own cancellation token has fired
  slot,        \* sessions whose task slot holds the JoinHandle
  task,        \* where each session's run_watcher task is
  status,      \* WatchSession::status.state
  error,       \* WatchSession::status.error, abstracted to its kind
  polled,      \* sessions with status.last_poll_at set
  snapshot,    \* sessions with a snapshot
  shown        \* the last watch.statusChanged the client read for an id

startVars == <<startPc, startId>>
stopVars == <<stopPc, stopSession>>
sessionVars == <<token, slot, task, status, error, polled, snapshot>>
vars == <<registry, startVars, stopVars, cancelled, sessionVars, shown>>

\* "rejected" stands for the errors already-exists, resource-limit,
\* invalid-params and backend-failure; "dropped" for a handler the transport
\* dropped and answered as cancelled in its place.
StartResults == {"running", "cancelled", "rejected", "dropped"}
StartSteps == {"entry", "create", "insert", "spawn", "store", "recheck",
               "join", "remove", "notify"}
StopSteps == {"take", "join", "mark", "notify", "remove"}
TaskSteps == {"poll", "recordOk", "notifyRecovered", "notifyError", "sleep"}
WatchState == {"running", "error", "stopped"}

TypeOK ==
  /\ registry \in [Ids -> Starts \cup {NoSession}]
  /\ startPc \in [Starts -> StartSteps \cup StartResults]
  /\ startId \in [Starts -> Ids]
  /\ stopPc \in [Stops -> {"idle"} \cup StopSteps]
  /\ stopSession \in [Stops -> Starts \cup {NoSession}]
  /\ cancelled \subseteq Starts
  /\ token \subseteq Starts
  /\ slot \subseteq Starts
  /\ task \in [Starts -> {"none", "done"} \cup TaskSteps]
  /\ status \in [Starts -> WatchState]
  /\ error \in [Starts -> {"none"} \cup FailureKinds]
  /\ polled \subseteq Starts
  /\ snapshot \subseteq Starts
  /\ shown \in [Ids -> WatchState \cup {"none"}]

\* Every watch.start is waiting to be scheduled, for some id.
Init ==
  /\ registry = [i \in Ids |-> NoSession]
  /\ startPc = [r \in Starts |-> "entry"]
  /\ startId \in [Starts -> Ids]
  /\ stopPc = [q \in Stops |-> "idle"]
  /\ stopSession = [q \in Stops |-> NoSession]
  /\ cancelled = {}
  /\ token = {}
  /\ slot = {}
  /\ task = [s \in Starts |-> "none"]
  /\ status = [s \in Starts |-> "running"]
  /\ error = [s \in Starts |-> "none"]
  /\ polled = {}
  /\ snapshot = {}
  /\ shown = [i \in Ids |-> "none"]

----------------------------------------------------------------------------
(* Steps of a request or a task *)

\* The request's token is forgotten with the request.
StartStep(r, from, to) ==
  /\ startPc[r] = from
  /\ startPc' = [startPc EXCEPT ![r] = to]
  /\ cancelled' = IF to \in StartResults THEN cancelled \ {r} ELSE cancelled
  /\ UNCHANGED startId

StopStep(q, from, to) ==
  /\ stopPc[q] = from
  /\ stopPc' = [stopPc EXCEPT ![q] = to]

TaskStep(s, from, to) ==
  /\ task[s] = from
  /\ task' = [task EXCEPT ![s] = to]

Registered == {i \in Ids : registry[i] # NoSession}
Full == Cardinality(Registered) >= Limit

RemoveOwn_ById(s) ==
  registry' = [registry EXCEPT ![startId[s]] = NoSession]

\* watchers.remove(id), only if the entry is still this very session.
RemoveOwn(s) ==
  registry' = [registry EXCEPT ![startId[s]] = IF @ = s THEN NoSession ELSE @]

Notify(s, state) == shown' = [shown EXCEPT ![startId[s]] = state]

----------------------------------------------------------------------------
(* watch_start *)

\* The entry check of the token, the check under the read lock, and the
\* parsing of the target.
StartCheck(r) ==
  /\ \/ r \in cancelled /\ StartStep(r, "entry", "cancelled")
     \/ /\ r \notin cancelled
        /\ registry[startId[r]] # NoSession \/ Full
        /\ StartStep(r, "entry", "rejected")
     \/ /\ r \notin cancelled
        /\ registry[startId[r]] = NoSession /\ ~Full
        /\ \E to \in {"create", "rejected"} : StartStep(r, "entry", to)
  /\ UNCHANGED <<registry, stopVars, sessionVars, shown>>

\* The store factory answers; the token is looked at again; the watcher is
\* built from its configuration.
StartCreate(r) ==
  /\ \/ StartStep(r, "create", "rejected")
     \/ r \in cancelled /\ StartStep(r, "create", "cancelled")
     \/ r \notin cancelled /\ StartStep(r, "create", "insert")
  /\ UNCHANGED <<registry, stopVars, sessionVars, shown>>

StartInsert_NoRecheck(r) ==
  /\ registry' = [registry EXCEPT ![startId[r]] = r]
  /\ StartStep(r, "insert", "spawn")
  /\ UNCHANGED <<stopVars, sessionVars, shown>>

\* Under the write lock both conditions are checked again before the insert.
StartInsert(r) ==
  /\ \/ /\ registry[startId[r]] # NoSession \/ Full
        /\ StartStep(r, "insert", "rejected")
        /\ UNCHANGED registry
     \/ /\ registry[startId[r]] = NoSession /\ ~Full
        /\ registry' = [registry EXCEPT ![startId[r]] = r]
        /\ StartStep(r, "insert", "spawn")
  /\ UNCHANGED <<stopVars, sessionVars, shown>>

StartSpawn(r) ==
  /\ StartStep(r, "spawn", "store")
  /\ TaskStep(r, "none", "poll")
  /\ UNCHANGED <<registry, stopVars, token, slot, status, error,
                 polled, snapshot, shown>>

StartStore(r) ==
  /\ StartStep(r, "store", "recheck")
  /\ slot' = slot \cup {r}
  /\ UNCHANGED <<registry, stopVars, token, task, status, error,
                 polled, snapshot, shown>>

StartRecheck_NoSessionCancel(r) ==
  /\ \/ /\ r \in cancelled
        /\ StartStep(r, "recheck", "remove")
        /\ slot' = slot \ {r}
        /\ UNCHANGED token
     \/ /\ r \notin cancelled
        /\ StartStep(r, "recheck", "notify")
        /\ UNCHANGED <<token, slot>>
  /\ UNCHANGED <<registry, stopVars, task, status, error, polled,
                 snapshot, shown>>

\* A start cancelled after the insert undoes it: its session's token fires,
\* the task is taken (unless a stop already has it) and awaited, and the entry
\* is removed.
StartRecheck(r) ==
  /\ \/ /\ r \in cancelled
        /\ StartStep(r, "recheck", IF r \in slot THEN "join" ELSE "remove")
        /\ token' = token \cup {r}
        /\ slot' = slot \ {r}
     \/ /\ r \notin cancelled
        /\ StartStep(r, "recheck", "notify")
        /\ UNCHANGED <<token, slot>>
  /\ UNCHANGED <<registry, stopVars, task, status, error, polled,
                 snapshot, shown>>

\* The slot stays locked during the join: a stop that finds it empty here waits in
\* the code, until the task is done as well, and goes on without waiting in the model,
\* which has more interleavings.
StartJoin(r) ==
  /\ task[r] = "done"
  /\ StartStep(r, "join", "remove")
  /\ UNCHANGED <<registry, stopVars, sessionVars, shown>>

StartRemove(r) ==
  /\ StartStep(r, "remove", "cancelled")
  /\ RemoveOwn(r)
  /\ UNCHANGED <<stopVars, sessionVars, shown>>

StartNotify(r) ==
  /\ StartStep(r, "notify", "running")
  /\ Notify(r, "running")
  /\ UNCHANGED <<registry, stopVars, sessionVars>>

----------------------------------------------------------------------------
(* watch_stop *)

StopLookup_NoCancel(q, i) ==
  /\ StopStep(q, "idle", "take")
  /\ registry[i] # NoSession
  /\ stopSession' = [stopSession EXCEPT ![q] = registry[i]]
  /\ UNCHANGED <<registry, startVars, cancelled, sessionVars, shown>>

\* An unknown id is answered with an error and changes nothing; otherwise the
\* session's token fires.
StopLookup(q, i) ==
  /\ StopStep(q, "idle", "take")
  /\ registry[i] # NoSession
  /\ stopSession' = [stopSession EXCEPT ![q] = registry[i]]
  /\ token' = token \cup {registry[i]}
  /\ UNCHANGED <<registry, startVars, cancelled, slot, task, status, error,
                 polled, snapshot, shown>>

\* Taking an empty slot (the task is not stored yet, or another request holds
\* it) skips the join.
StopTake(q) ==
  /\ StopStep(q, "take", IF stopSession[q] \in slot THEN "join" ELSE "mark")
  /\ slot' = slot \ {stopSession[q]}
  /\ UNCHANGED <<registry, startVars, stopSession, cancelled, token, task,
                 status, error, polled, snapshot, shown>>

StopJoin(q) ==
  /\ StopStep(q, "join", "mark")
  /\ task[stopSession[q]] = "done"
  /\ UNCHANGED <<registry, startVars, stopSession, cancelled, sessionVars,
                 shown>>

StopMark_RemovesFirst(q) ==
  /\ StopStep(q, "mark", "notify")
  /\ status' = [status EXCEPT ![stopSession[q]] = "stopped"]
  /\ RemoveOwn(stopSession[q])
  /\ UNCHANGED <<startVars, stopSession, cancelled, token, slot,
                 task, error, polled, snapshot, shown>>

StopMark(q) ==
  /\ StopStep(q, "mark", "notify")
  /\ status' = [status EXCEPT ![stopSession[q]] = "stopped"]
  /\ UNCHANGED <<registry, startVars, stopSession, cancelled, token, slot,
                 task, error, polled, snapshot, shown>>

StopNotify(q) ==
  /\ StopStep(q, "notify", "remove")
  /\ Notify(stopSession[q], "stopped")
  /\ UNCHANGED <<registry, startVars, stopSession, cancelled, sessionVars>>

StopRemove(q) ==
  /\ StopStep(q, "remove", "idle")
  /\ RemoveOwn(stopSession[q])
  /\ stopSession' = [stopSession EXCEPT ![q] = NoSession]
  /\ UNCHANGED <<startVars, cancelled, sessionVars, shown>>

----------------------------------------------------------------------------
(* The transport cancels a request, and drops a handler that outlives the  *)
(* cancellation grace; a handler is only dropped at an await point.        *)

StartAwaits_NotCreate == {"entry", "insert", "store", "join", "remove", "notify"}
StartAwaits == {"entry", "create", "insert", "store", "join", "remove", "notify"}

CancelStart(r) ==
  /\ r \in Cancellable
  /\ startPc[r] \in StartSteps
  /\ cancelled' = cancelled \cup {r}
  /\ UNCHANGED <<registry, startVars, stopVars, sessionVars, shown>>

DropStart(r) ==
  /\ r \in cancelled
  /\ \E at \in StartAwaits : StartStep(r, at, "dropped")
  /\ UNCHANGED <<registry, stopVars, sessionVars, shown>>

\* watch_stop never looks at its request's token: cancelling it shows only
\* when the handler is dropped.
DropStop(q) ==
  /\ \E at \in StopSteps : StopStep(q, at, "idle")
  /\ stopSession' = [stopSession EXCEPT ![q] = NoSession]
  /\ UNCHANGED <<registry, startVars, cancelled, sessionVars, shown>>

----------------------------------------------------------------------------
(* run_watcher *)

\* Both select! blocks watch the session's token and leave the loop; select!
\* is not biased, so a ready poll or timer may win against it.
Finish(s) ==
  /\ s \in token
  /\ \E at \in {"poll", "sleep"} : TaskStep(s, at, "done")
  /\ status' = [status EXCEPT ![s] = "stopped"]
  /\ UNCHANGED <<registry, startVars, stopVars, cancelled, token, slot, error,
                 polled, snapshot, shown>>

PollOk_SnapshotLost(s) ==
  /\ TaskStep(s, "poll", "recordOk")
  /\ UNCHANGED <<registry, startVars, stopVars, cancelled, token, slot, status,
                 error, polled, snapshot, shown>>

\* poll_once succeeds and its snapshot is stored.
PollOk(s) ==
  /\ TaskStep(s, "poll", "recordOk")
  /\ snapshot' = snapshot \cup {s}
  /\ UNCHANGED <<registry, startVars, stopVars, cancelled, token, slot, status,
                 error, polled, shown>>

\* The status is written under its own lock, after the snapshot; then the
\* objects.added batches and statistics.updated, which carry no lifecycle
\* state, are sent.
RecordOk(s) ==
  /\ TaskStep(s, "recordOk",
              IF status[s] = "error" THEN "notifyRecovered" ELSE "sleep")
  /\ status' = [status EXCEPT ![s] = "running"]
  /\ polled' = polled \cup {s}
  /\ error' = [error EXCEPT ![s] = "none"]
  /\ UNCHANGED <<registry, startVars, stopVars, cancelled, token, slot,
                 snapshot, shown>>

NotifyRecovered(s) ==
  /\ TaskStep(s, "notifyRecovered", "sleep")
  /\ Notify(s, "running")
  /\ UNCHANGED <<registry, startVars, stopVars, cancelled, token, slot, status,
                 error, polled, snapshot>>

PollErr_NotifyOnce(s) ==
  /\ TaskStep(s, "poll", IF status[s] = "error" THEN "sleep" ELSE "notifyError")
  /\ status' = [status EXCEPT ![s] = "error"]
  /\ \E kind \in FailureKinds : error' = [error EXCEPT ![s] = kind]
  /\ UNCHANGED <<registry, startVars, stopVars, cancelled, token, slot, polled,
                 snapshot, shown>>

\* poll_once fails; the loop goes on whatever the kind of the failure.
PollErr(s) ==
  /\ TaskStep(s, "poll", "notifyError")
  /\ status' = [status EXCEPT ![s] = "error"]
  /\ \E kind \in FailureKinds : error' = [error EXCEPT ![s] = kind]
  /\ UNCHANGED <<registry, startVars, stopVars, cancelled, token, slot, polled,
                 snapshot, shown>>

\* watch.error, which carries no status, then watch.statusChanged.
NotifyError(s) ==
  /\ TaskStep(s, "notifyError", "sleep")
  /\ Notify(s, "error")
  /\ UNCHANGED <<registry, startVars, stopVars, cancelled, token, slot, status,
                 error, polled, snapshot>>

Wake(s) ==
  /\ TaskStep(s, "sleep", "poll")
  /\ UNCHANGED <<registry, startVars, stopVars, cancelled, token, slot, status,
                 error, polled, snapshot, shown>>

----------------------------------------------------------------------------

StartNext(r) ==
  \/ StartCheck(r) \/ StartCreate(r) \/ StartInsert(r)
  \/ StartSpawn(r) \/ StartStore(r) \/ StartRecheck(r) \/ StartJoin(r)
  \/ StartRemove(r) \/ StartNotify(r) \/ CancelStart(r) \/ DropStart(r)

StopNext(q) ==
  \/ \E i \in Ids : StopLookup(q, i)
  \/ StopTake(q) \/ StopJoin(q) \/ StopMark(q) \/ StopNotify(q)
  \/ StopRemove(q) \/ DropStop(q)

TaskNext(s) ==
  \/ Finish(s) \/ PollOk(s) \/ RecordOk(s) \/ NotifyRecovered(s)
  \/ PollErr(s) \/ NotifyError(s) \/ Wake(s)

\* Every request is answered and nothing is left to stop.
Quiescent ==
  /\ \A r \in Starts : startPc[r] \in StartResults
  /\ \A q \in Stops : stopPc[q] = "idle"
  /\ Registered = {}
  /\ UNCHANGED vars

Next ==
  \/ \E r \in Starts : StartNext(r)
  \/ \E q \in Stops : StopNext(q)
  \/ \E s \in Starts : TaskNext(s)
  \/ Quiescent

Spec == Init /\ [][Next]_vars

(***************************************************************************)
(* Fairness.  Tokio polls every ready future again, the client reads its   *)
(* input, and locks are released, so every local step is eventually taken. *)
(* Neither the store factory (StartCreate) nor a poll (PollOk, PollErr) is *)
(* fair: credential resolution and a LIST may hang, the runtime gives them *)
(* no timeout.  A cancelled handler is dropped when the grace timer fires. *)
(* The token is the ready branch of every select! it appears in, which     *)
(* random polling order does not pass over for ever: strong fairness.      *)
(***************************************************************************)
Fairness ==
  /\ \A r \in Starts :
       /\ WF_vars(StartCheck(r)) /\ WF_vars(StartInsert(r))
       /\ WF_vars(StartSpawn(r)) /\ WF_vars(StartStore(r))
       /\ WF_vars(StartRecheck(r)) /\ WF_vars(StartJoin(r))
       /\ WF_vars(StartRemove(r))
       /\ WF_vars(StartNotify(r)) /\ WF_vars(DropStart(r))
       /\ WF_vars(RecordOk(r)) /\ WF_vars(NotifyRecovered(r))
       /\ WF_vars(NotifyError(r)) /\ WF_vars(Wake(r)) /\ SF_vars(Finish(r))
  /\ \A q \in Stops :
       WF_vars(StopTake(q) \/ StopJoin(q) \/ StopMark(q) \/ StopNotify(q)
               \/ StopRemove(q))

FairSpec == Spec /\ Fairness

----------------------------------------------------------------------------
(* Properties *)

Alive(s) == task[s] \notin {"none", "done"}

\* A task that polls and has not been told to stop is the one the registry
\* holds under its id, so watch.stop can always reach it: no interleaving of
\* starts, stops, cancellations and dropped handlers orphans a poller, and one
\* id never has two of them.
LiveWatcherRegistered ==
  \A s \in Starts : Alive(s) /\ s \notin token => registry[startId[s]] = s

\* MAX_CONCURRENT_WATCHERS bounds the registry although the first check is
\* made before the lock is released for the store factory.
WatcherLimit == Cardinality(Registered) <= Limit

\* A registry entry is never overwritten by another session, and is removed
\* only once its own token has fired: a slow stop of an earlier session never
\* unregisters the session that took over its id.
EntryLeavesOnlyWhenCancelled ==
  [][\A i \in Ids : registry[i] # NoSession /\ registry'[i] # registry[i]
       => registry'[i] = NoSession /\ registry[i] \in token]_vars

\* A watch.start answered with an error leaves no poller out of reach.  One that
\* returned the error itself, its cancellation included, left nothing registered
\* and nothing that will go on polling.  One that the transport dropped at the end
\* of the grace is answered as cancelled too, but a drop while it stores the task
\* or notifies leaves its watcher polling: that watcher is then registered, so
\* watch.status shows it and watch.stop ends it.
FailedStartLeavesNoStray ==
  \A r \in Starts : startPc[r] \in StartResults \ {"running"} =>
    /\ startPc[r] # "dropped" => \A i \in Ids : registry[i] # r
    /\ Alive(r) /\ r \notin token =>
         startPc[r] = "dropped" /\ registry[startId[r]] = r

\* What watch.status reports for one session.
StatusReport(s) ==
  [state |-> status[s], polled |-> s \in polled, health |-> s \in snapshot,
   error |-> error[s]]

\* A report never shows a poll time without the objects and health of that
\* poll, an error text on a running watcher, or an error state without text.
ReportConsistent ==
  \A i \in Registered :
    LET report == StatusReport(registry[i]) IN
      /\ report.polled => report.health
      /\ report.state = "running" => report.error = "none"
      /\ report.state = "error" => report.error # "none"

\* A watcher whose task ended reports "stopped", whatever a racing poll result
\* wrote before.
EndedIsStopped == \A s \in Starts : task[s] = "done" => status[s] = "stopped"

\* A client that sends one watch.stop at a time and cancels no watch.start is
\* never left with "stopped" as the last status of an id whose current watcher
\* was started and not stopped: watch_stop notifies before it frees the id.
StoppedShownOnlyWhenCancelled ==
  \A i \in Registered :
    shown[i] = "stopped" /\ startPc[registry[i]] = "running"
      => registry[i] \in token

\* A cancelled watch.start always ends, even if the store factory hangs.
CancelledStartEnds ==
  \A r \in Starts : r \in cancelled ~> startPc[r] \in StartResults

\* A watch.stop always ends: the task it awaits notices the token.
StopEnds == \A q \in Stops : stopPc[q] = "take" ~> stopPc[q] = "idle"

\* A failing watcher is eventually shown as failing, if no poll of it hangs for
\* ever, although the "running" notification of its watch.start may reach the
\* client after the first error: every further failed poll announces the error.
ErrorEventuallyShown ==
  \A s \in Starts :
    []<>(task[s] # "poll") =>
      (status[s] = "error" /\ shown[startId[s]] = "running"
         ~> status[s] # "error" \/ shown[startId[s]] = "error" \/ s \in token)

(* The inductive strengthening of the safety properties. *)

\* The registry maps an id to a session of that id whose watch.start is past
\* its insert and, if it undid it, before its remove.
RegistryKeyed ==
  \A i \in Ids : registry[i] # NoSession =>
    /\ startId[registry[i]] = i
    /\ startPc[registry[i]] \notin
         {"entry", "create", "insert", "cancelled", "rejected"}

\* A session that was inserted is registered until its token fires.
InsertedIsRegistered ==
  \A s \in Starts : (startPc[s] = "spawn" \/ Alive(s)) /\ s \notin token
    => registry[startId[s]] = s

\* Whoever is about to remove a session has fired its token.
RemoverCancelled ==
  /\ \A q \in Stops : stopPc[q] # "idle" => stopSession[q] \in token
  /\ \A r \in Starts : startPc[r] \in {"join", "remove"} => r \in token

\* The task is spawned after the insert.
TaskAfterInsert ==
  \A r \in Starts : startPc[r] \in {"entry", "create", "insert", "rejected"}
    => task[r] = "none"

\* The status of every session, registered or not, is consistent.
StatusConsistent ==
  \A s \in Starts :
    /\ task[s] = "recordOk" => s \in snapshot
    /\ s \in polled => s \in snapshot
    /\ status[s] = "running" => error[s] = "none"
    /\ status[s] = "error" => error[s] # "none"

(* The abstract registry this module implements. *)

Life(s) == IF task[s] = "none" THEN "new" ELSE IF task[s] = "done" THEN "ended" ELSE "polling"

Abstract ==
  INSTANCE WatchRegistry WITH
    Sessions <- Starts, holder <- registry, life <- [s \in Starts |-> Life(s)], told <- token

\* Whatever the interleaving of handlers and tasks, their effects together are
\* those of an atomic registry: an id has one session at a time, at most Limit have
\* one, a session polls only while it holds its id or after it was told to stop, and
\* neither its polling nor its hold ends before that.
ImplementsRegistry == Abstract!Spec
=============================================================================
