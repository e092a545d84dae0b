------------------------------ MODULE Backend ------------------------------
(***************************************************************************)
(* The extension's side of the server process: BackendService starts it,   *)
(* notices its end, starts it again and restores the active feeds          *)
(* (backend.ts); RpcClient fails the requests of a server that ended or    *)
(* does not answer (rpcClient.ts); the commands of the dashboard and of    *)
(* extension.ts send watch.start and watch.stop.                           *)
(*                                                                         *)
(* The extension is one JavaScript thread: an action is what runs between  *)
(* two awaits, and a promise's continuations run in the step that settles  *)
(* it.  A server is what WatchRegistry says it is: a set of watchers.      *)
(*                                                                         *)
(* Assumed of the user: the commands on one feed come one after another    *)
(* (nothing in the code makes them), and the dialogs in which edit and     *)
(* remove ask are answered at once.  Of the transport: a handler that was  *)
(* cancelled has its effect before its client gave up, or never, though it *)
(* may still have it within the grace.  Of the pipe: a client that closes  *)
(* while its process lives, on a write error or a malformed line, is       *)
(* closed as by a crash.                                                   *)
(***************************************************************************)
EXTENDS Naturals, Sequences

CONSTANTS
  Feeds,      \* saved feeds; the commands on one feed come one at a time
  Restorers,  \* activations of #startAndRestore that may overlap
  MaxFaults,  \* bound on crashes, failed launches and configuration changes
  AutoRestart, \* values the setting s3Pulse.restartBackend may have
  Offered,    \* commands the user gives
  Slow,       \* feeds and restorers whose requests may time out
  Reports,    \* what watchers may report of their polls: "running", "error"
  Nobody      \* the sender of a request that timed out

ASSUME BackendAssumption ==
  /\ MaxFaults \in Nat /\ AutoRestart \subseteq BOOLEAN
  /\ Reports \subseteq {"running", "error"}
  /\ Feeds \cap Restorers = {} /\ Nobody \notin Feeds \cup Restorers

\* Every launch but the first needs a fault; a server is named by its launch.
Servers == 1..(MaxFaults + 1)
None == 0

VARIABLES
  client,     \* #client: the server requests go to
  starting,   \* #starting: the launch whose promise is shared
  timer,      \* #restartTimer is set
  active,     \* the keys of #activeWatchers
  disposed,   \* #disposed
  launch,     \* where each #launch is
  superseded, \* launches of an earlier #generation
  server,     \* each server process
  held,       \* the watchers each server holds
  user,       \* the command running on each feed, and what it awaits
  restorer,   \* each activation of #startAndRestore
  pipe,       \* the answers in the client's stdout
  shown,      \* the state of each feed in the tree
  gaveUp,     \* a restart() after a configuration change failed
  faults

serviceVars == <<client, starting, timer, active, disposed, gaveUp>>
launchVars == <<launch, superseded, server>>
vars == <<serviceVars, launchVars, held, user, restorer, pipe, shown, faults>>

Idle == [at |-> "idle", cmd |-> "none", on |-> None]
AtRest == [at |-> "idle", byTimer |-> FALSE, on |-> None, visited |-> {}, feed |-> {}]

\* "start" is also how a retry and an edit end; all others begin with watch.stop.
Commands == {"start", "stop", "retry", "edit", "remove"}

TypeOK ==
  /\ client \in Servers \cup {None} /\ starting \in Servers \cup {None}
  /\ timer \in BOOLEAN /\ disposed \in BOOLEAN /\ gaveUp \in BOOLEAN
  /\ active \subseteq Feeds
  /\ launch \in [Servers -> {"none", "discover", "spawn", "handshake", "ready", "failed"}]
  /\ superseded \subseteq Servers
  /\ server \in [Servers -> {"none", "live", "ending", "gone"}]
  /\ held \in [Servers -> SUBSET Feeds]
  /\ user \in [Feeds -> [at : {"idle", "call", "launch", "answer"}, cmd : Commands \cup {"none"},
                         on : Servers \cup {None}]]
  /\ restorer \in [Restorers -> [at : {"idle", "launch", "answer"}, byTimer : BOOLEAN,
                                 on : Servers \cup {None}, visited : SUBSET Feeds, feed : SUBSET Feeds]]
  /\ pipe \in Seq([by : Feeds \cup Restorers \cup {Nobody}, feed : Feeds, method : {"start", "stop"}, reply : {"ok", "error"}])
  /\ shown \in [Feeds -> {"stopped", "starting", "running", "error", "removed"}]
  /\ faults \in 0..MaxFaults

Init ==
  /\ client = None /\ starting = None /\ timer = FALSE /\ active = {}
  /\ disposed = FALSE /\ gaveUp = FALSE
  /\ launch = [k \in Servers |-> "none"] /\ superseded = {}
  /\ server = [k \in Servers |-> "none"] /\ held = [k \in Servers |-> {}]
  /\ user = [f \in Feeds |-> Idle] /\ restorer = [r \in Restorers |-> AtRest]
  /\ pipe = <<>> /\ shown = [f \in Feeds |-> "stopped"] /\ faults = 0

Fault == faults < MaxFaults /\ faults' = faults + 1

-----------------------------------------------------------------------------
(* The registry of active feeds, and the requests *)

\* rememberActive and forgetActive
Remember(map, f) == map \cup {f}
Forget(map, gone) == map \ gone

\* Where a loop of #startAndRestore may go on: with an entry of the live Map that it has
\* not met. It meets a key again that was deleted and set again. The Map is walked in the
\* order of insertion; which of the entries left is the next is not told apart here.
NextFeed(loop, map) ==
  IF map \subseteq loop.visited THEN {AtRest}
  ELSE {[loop EXCEPT !.at = "answer", !.feed = {f}, !.visited = @ \cup {f}] : f \in map \ loop.visited}

Unvisit(loops, gone) == [r \in Restorers |-> [loops[r] EXCEPT !.visited = @ \ gone]]

Method(cmd) == IF cmd = "start" THEN "start" ELSE "stop"

\* What a server does with a request of the caller (a start may also be refused); the
\* answer is put into the pipe.
Serve(caller, k, f, method) ==
  /\ server[k] = "live" /\ \A i \in DOMAIN pipe : pipe[i].by # caller
  /\ \E reply \in {"ok", "error"} :
       /\ CASE reply = "ok" /\ method = "start" -> f \notin held[k] /\ held' = [held EXCEPT ![k] = @ \cup {f}]
            [] reply = "ok" /\ method = "stop"  -> f \in held[k] /\ held' = [held EXCEPT ![k] = @ \ {f}]
            [] reply = "error" -> (method = "stop" => f \notin held[k]) /\ UNCHANGED held
       /\ pipe' = Append(pipe, [by |-> caller, feed |-> f, method |-> method, reply |-> reply])

-----------------------------------------------------------------------------
(* Commands: what one does next, what it does to the active feeds, and what the *)
(* tree shows, once its request was answered or failed                         *)

Call(cmd) == [Idle EXCEPT !.at = "call", !.cmd = cmd]
Then(next, map, state) == [next |-> next, map |-> map, shown |-> state]

After_StopKeepsActive(cmd, reply) ==
  CASE cmd = "start" /\ reply = "ok"     -> {Then(Idle, "remember", "running")}
    [] cmd = "stop" /\ reply = "ok"      -> {Then(Idle, "keep", "stopped")}
    [] cmd = "remove" /\ reply = "ok"    -> {Then(Idle, "forget", "removed")}
    [] cmd \in {"retry", "edit"} /\ reply = "ok" -> {Then(Call("start"), "forget", "starting")}
    [] reply # "ok" -> {Then(Idle, "keep", "error")}

\* A stop that failed is only tolerated by retry, and where the user insists.
After(cmd, reply) ==
  CASE cmd = "start" /\ reply = "ok"     -> {Then(Idle, "remember", "running")}
    [] cmd = "stop" /\ reply = "ok"      -> {Then(Idle, "forget", "stopped")}
    [] cmd = "remove" /\ reply = "ok"    -> {Then(Idle, "forget", "removed")}
    [] cmd \in {"retry", "edit"} /\ reply = "ok" -> {Then(Call("start"), "forget", "starting")}
    [] cmd \in {"start", "stop"} /\ reply # "ok" -> {Then(Idle, "keep", "error")}
    [] cmd = "remove" /\ reply # "ok" -> {Then(Idle, "keep", "error"), Then(Idle, "forget", "removed")}
    [] cmd = "retry" /\ reply # "ok"  -> {Then(Call("start"), "forget", "starting")}
    [] cmd = "edit" /\ reply # "ok"   -> {Then(Idle, "keep", "error"), Then(Call("retry"), "forget", "error")}

\* FeedTreeProvider.setStatus; a removed feed is no longer listed.
Show(f, state) == IF shown[f] = "removed" THEN "removed" ELSE state

\* The command on f goes on after a reply.
Continue(f, reply) ==
  \E then \in After(user[f].cmd, reply) :
    /\ user' = [user EXCEPT ![f] = then.next]
    /\ shown' = [shown EXCEPT ![f] = Show(f, then.shown)]
    /\ active' = CASE then.map = "remember" -> Remember(active, f)
                   [] then.map = "forget"   -> Forget(active, {f})
                   [] OTHER                 -> active
    /\ restorer' = IF then.map = "forget" THEN Unvisit(restorer, {f}) ELSE restorer

\* Several callers fail in one step: the commands on the feeds in failing and the
\* restorers in ending; news is what was notified, and loops what was begun, before
\* their continuations ran.
FailAll(failing, ending, news, loops) ==
  \E then \in [failing -> UNION {After(user[f].cmd, "error") : f \in failing}] :
    LET gone == {f \in failing : then[f].map = "forget"}
    IN  /\ \A f \in failing : then[f] \in After(user[f].cmd, "error")
        /\ user' = [f \in Feeds |-> IF f \in failing THEN then[f].next ELSE user[f]]
        /\ shown' = [f \in Feeds |-> Show(f, IF f \in failing THEN then[f].shown ELSE news[f])]
        /\ active' = Forget(active, gone)
        /\ restorer' = Unvisit([r \in Restorers |-> IF r \in ending THEN AtRest ELSE loops[r]], gone)

-----------------------------------------------------------------------------
(* The end of a client *)

Waits(caller, k) ==
  caller.on = k /\ (caller.at = "answer" \/ (caller.at = "launch" /\ launch[k] = "handshake"))

\* The feeds a loop on k still had before it: none can be restored any more.
Unrestored(k) ==
  UNION {restorer[r].feed \cup (active \ restorer[r].visited) :
           r \in {x \in Restorers : restorer[x].on = k /\ restorer[x].at = "answer"}}

LaunchersOf(k) == {r \in Restorers : restorer[r].on = k /\ restorer[r].at = "launch"}

\* RpcClient.#close, #handleClose, and the continuations of what was pending.
\* noted is the state #handleClose notifies for every active feed, if any.
CloseClient(k, noted, loops) ==
  /\ client' = None
  /\ pipe' = <<>>
  /\ FailAll({f \in Feeds : Waits(user[f], k)}, {r \in Restorers : Waits(restorer[r], k)},
             [f \in Feeds |-> IF f \in Unrestored(k) THEN "error"
                              ELSE IF f \in active /\ noted # "none" THEN noted ELSE shown[f]],
             loops)

HandshakeEnds(k) == [launch EXCEPT ![k] = IF @ = "handshake" THEN "failed" ELSE @]

\* #startAndRestore's launch failed: a timer's is tried again, a restart()'s is not.
RetryLater_Never(k) == FALSE

RetryLater(k) == \E r \in LaunchersOf(k) : restorer[r].byTimer
GivesUp(k) == \E r \in LaunchersOf(k) : ~restorer[r].byTimer /\ k \notin superseded

\* #handleClose after a server ended or its handshake failed.
HandleClose_NoSchedule(k, restartBackend) ==
  LET restarts == active # {} /\ restartBackend
  IN  /\ CloseClient(k, IF restarts THEN "starting" ELSE "error", restorer)
      /\ launch' = HandshakeEnds(k)
      /\ timer' = (timer \/ (launch[k] = "handshake" /\ RetryLater(k)))
      /\ gaveUp' = (gaveUp \/ (launch[k] = "handshake" /\ GivesUp(k)))

HandleClose(k, restartBackend) ==
  LET restarts == active # {} /\ restartBackend
  IN  /\ CloseClient(k, IF restarts THEN "starting" ELSE "error", restorer)
      /\ launch' = HandshakeEnds(k)
      /\ timer' = (timer \/ restarts \/ (launch[k] = "handshake" /\ RetryLater(k)))
      /\ gaveUp' = (gaveUp \/ (launch[k] = "handshake" /\ GivesUp(k)))

-----------------------------------------------------------------------------
(* #launch *)

Unstarting(k) == starting' = IF starting = k THEN None ELSE starting

LaunchFails_LeavesWaiting(k) ==
  /\ launch' = [launch EXCEPT ![k] = "failed"]
  /\ Unstarting(k)
  /\ timer' = (timer \/ (RetryLater(k) /\ ~disposed))
  /\ gaveUp' = (gaveUp \/ GivesUp(k))
  /\ FailAll({}, LaunchersOf(k), shown, restorer)
  /\ UNCHANGED <<client, disposed, superseded, held, pipe>>

\* The executable cannot be found or spawned, or the launch was superseded.
LaunchFails(k) ==
  /\ launch' = [launch EXCEPT ![k] = "failed"]
  /\ Unstarting(k)
  /\ timer' = (timer \/ (RetryLater(k) /\ ~disposed))
  /\ gaveUp' = (gaveUp \/ GivesUp(k))
  /\ FailAll({f \in Feeds : user[f].at = "launch" /\ user[f].on = k}, LaunchersOf(k), shown, restorer)
  /\ UNCHANGED <<client, disposed, superseded, held, pipe>>

Superseded_NotChecked(k) == FALSE

\* The generation, and #disposed, are compared after each await.
Superseded(k) == k \in superseded

\* discoverBackendPath, then spawn
Discover(k) ==
  /\ launch[k] = "discover"
  /\ \/ Superseded(k) /\ LaunchFails(k) /\ UNCHANGED <<server, faults>>
     \/ ~Superseded(k) /\ Fault /\ LaunchFails(k) /\ UNCHANGED server
     \/ /\ ~Superseded(k)
        /\ launch' = [launch EXCEPT ![k] = "spawn"]
        /\ server' = [server EXCEPT ![k] = "live"]
        /\ UNCHANGED <<serviceVars, superseded, held, user, restorer, pipe, shown, faults>>

\* waitForSpawn, then the client is installed and asked for its version
Spawned(k) ==
  /\ launch[k] = "spawn"
  /\ \/ ~Superseded(k) /\ Fault /\ LaunchFails(k) /\ server' = [server EXCEPT ![k] = "gone"]
     \/ Superseded(k) /\ LaunchFails(k) /\ server' = [server EXCEPT ![k] = "ending"] /\ UNCHANGED faults
     \/ /\ ~Superseded(k)
        /\ launch' = [launch EXCEPT ![k] = "handshake"]
        /\ client' = k
        /\ UNCHANGED <<starting, timer, active, disposed, gaveUp, superseded, server, held, user, restorer, pipe, shown, faults>>

\* The version is compatible: all who waited for the launch send their request.
HandshakeOk(k) ==
  /\ launch[k] = "handshake"
  /\ launch' = [launch EXCEPT ![k] = "ready"]
  /\ Unstarting(k)
  /\ user' = [f \in Feeds |-> IF user[f].at = "launch" /\ user[f].on = k THEN [user[f] EXCEPT !.at = "answer"] ELSE user[f]]
  /\ \E next \in [LaunchersOf(k) -> UNION {NextFeed(restorer[r], active) : r \in LaunchersOf(k)}] :
       /\ \A r \in LaunchersOf(k) : next[r] \in NextFeed(restorer[r], active)
       /\ restorer' = [r \in Restorers |-> IF r \in LaunchersOf(k) THEN next[r] ELSE restorer[r]]
  /\ gaveUp' = (gaveUp /\ LaunchersOf(k) = {})
  /\ UNCHANGED <<client, timer, active, disposed, superseded, server, held, pipe, shown, faults>>

\* It is not, or it did not come in time: the client is disposed of.
HandshakeFails(k) ==
  /\ launch[k] = "handshake"
  /\ Fault
  /\ server' = [server EXCEPT ![k] = "ending"]
  /\ \E restartBackend \in AutoRestart : HandleClose(k, restartBackend)
  /\ Unstarting(k)
  /\ UNCHANGED <<disposed, superseded, held>>

-----------------------------------------------------------------------------
(* #ensureClient: the client, else the launch under way, else a new one *)

NewLaunch == CHOOSE k \in Servers : launch[k] = "none" /\ \A j \in 1..(k - 1) : launch[j] # "none"

\* Where a caller goes on, with the client and the shared launch as they are given
Ensured(caller, aClient, aLaunch) ==
  IF aClient # None THEN [caller EXCEPT !.at = "answer", !.on = aClient]
  ELSE [caller EXCEPT !.at = "launch", !.on = IF aLaunch # None THEN aLaunch ELSE NewLaunch]

Launched(aClient, aLaunch) ==
  IF aClient = None /\ aLaunch = None
  THEN /\ NewLaunch \in Servers
       /\ starting' = NewLaunch /\ launch' = [launch EXCEPT ![NewLaunch] = "discover"]
  ELSE starting' = aLaunch /\ UNCHANGED launch

CallBackend(f) ==
  /\ user[f].at = "call"
  /\ \/ disposed /\ Continue(f, "error") /\ UNCHANGED <<starting, launch>>
     \/ /\ ~disposed
        /\ user' = [user EXCEPT ![f] = Ensured(@, client, starting)]
        /\ Launched(client, starting)
        /\ UNCHANGED <<active, restorer, shown>>
  /\ UNCHANGED <<client, timer, disposed, gaveUp, superseded, server, held, pipe, faults>>

\* The activation of #startAndRestore that begins now
Fresh(r) == restorer[r].at = "idle" /\ r = CHOOSE x \in Restorers : restorer[x].at = "idle"

\* The timer of #scheduleRestart fires.
TimerFires(r) ==
  /\ timer /\ ~disposed /\ Fresh(r)
  /\ timer' = FALSE
  /\ LET caller == Ensured([AtRest EXCEPT !.byTimer = TRUE], client, starting)
     IN  \E next \in IF client # None THEN NextFeed(caller, active) ELSE {caller} :
           restorer' = [restorer EXCEPT ![r] = next]
  /\ gaveUp' = (gaveUp /\ client = None)
  /\ Launched(client, starting)
  /\ UNCHANGED <<client, active, disposed, superseded, server, held, user, pipe, shown, faults>>

-----------------------------------------------------------------------------
(* restart() and dispose() *)

Ending(k) == [server EXCEPT ![k] = IF @ = "live" THEN "ending" ELSE @]
InFlight_HandshakeOnly == {k \in Servers : launch[k] = "handshake"}

\* The launches a change of #generation supersedes
InFlight == {k \in Servers : launch[k] \in {"discover", "spawn", "handshake"}}

\* The client, if there is one, is disposed of, and nothing is notified.
Quietly(loops) ==
  IF client = None
  THEN FailAll({}, {}, shown, loops) /\ UNCHANGED <<client, server, pipe>>
  ELSE CloseClient(client, "none", loops) /\ server' = Ending(client)

\* The executable or the log level was configured anew. A launch the restart
\* interrupts fails, and if the timer had begun it, the timer is set again.
Restart(r) ==
  /\ ~disposed /\ Fresh(r) /\ Fault
  /\ superseded' = superseded \cup InFlight
  /\ LET handshaking == client # None /\ launch[client] = "handshake"
         ended       == IF handshaking THEN HandshakeEnds(client) ELSE launch
     IN  /\ timer' = (handshaking /\ RetryLater(client))
         /\ IF active = {}
            THEN Quietly(restorer) /\ starting' = None /\ launch' = ended
            ELSE /\ Quietly([restorer EXCEPT ![r] = Ensured(AtRest, None, None)])
                 /\ starting' = NewLaunch
                 /\ launch' = [ended EXCEPT ![NewLaunch] = "discover"]
  /\ UNCHANGED <<disposed, gaveUp, held>>

Dispose ==
  /\ ~disposed
  /\ disposed' = TRUE /\ timer' = FALSE
  /\ superseded' = superseded \cup InFlight
  /\ launch' = IF client = None THEN launch ELSE HandshakeEnds(client)
  /\ starting' = IF client = starting THEN None ELSE starting
  /\ Quietly(restorer)
  /\ UNCHANGED <<gaveUp, held, faults>>

-----------------------------------------------------------------------------
(* The servers *)

\* The client's server exits on its own.
Crash(k) ==
  /\ client = k /\ server[k] = "live" /\ Fault
  /\ server' = [server EXCEPT ![k] = "gone"]
  /\ \E restartBackend \in AutoRestart : HandleClose(k, restartBackend)
  /\ Unstarting(k)
  /\ UNCHANGED <<disposed, superseded, held>>

\* A server whose input ended, or which was killed, exits.
Exit(k) ==
  /\ server[k] = "ending"
  /\ server' = [server EXCEPT ![k] = "gone"]
  /\ UNCHANGED <<serviceVars, launch, superseded, held, user, restorer, pipe, shown, faults>>

rest == <<serviceVars, launchVars, faults>>

ServeUser(f) ==
  /\ user[f].at = "answer"
  /\ Serve(f, user[f].on, f, Method(user[f].cmd))
  /\ UNCHANGED <<rest, user, restorer, shown>>

ServeRestorer(r) ==
  /\ restorer[r].at = "answer"
  /\ \E f \in restorer[r].feed : Serve(r, restorer[r].on, f, "start")
  /\ UNCHANGED <<rest, user, restorer, shown>>

-----------------------------------------------------------------------------
(* Answers, timeouts and notifications *)

FromPipe(caller) == pipe # <<>> /\ pipe[1].by = caller /\ pipe' = Tail(pipe)

Answered(f) ==
  /\ FromPipe(f)
  /\ Continue(f, pipe[1].reply)
  /\ UNCHANGED <<client, starting, timer, disposed, gaveUp, launchVars, held, faults>>

\* A feed is restored, or watch.error says it could not be; the next one follows.
Restored(r) ==
  /\ FromPipe(r)
  /\ \E next \in NextFeed(restorer[r], active) : restorer' = [restorer EXCEPT ![r] = next]
  /\ shown' = [shown EXCEPT ![pipe[1].feed] =
                 Show(pipe[1].feed, IF pipe[1].reply = "ok" THEN "running" ELSE "error")]
  /\ UNCHANGED <<rest, held, user>>

\* $/cancelRequest ends a handler that has not finished; what a finished one did is
\* still notified, although its answer is ignored. (Bound: one such on a feed.)
Abandon(caller, f) ==
  /\ caller \in Slow
  /\ \A i \in DOMAIN pipe : pipe[i].feed # f \/ pipe[i].by # Nobody
  /\ pipe' = [i \in DOMAIN pipe |-> IF pipe[i].by = caller THEN [pipe[i] EXCEPT !.by = Nobody] ELSE pipe[i]]

TimesOut(f) ==
  /\ user[f].at = "answer"
  /\ Abandon(f, f)
  /\ Continue(f, "error")
  /\ UNCHANGED <<client, starting, timer, disposed, gaveUp, launchVars, held, faults>>

RestoreTimesOut(r) ==
  /\ restorer[r].at = "answer"
  /\ \E f \in restorer[r].feed : Abandon(r, f) /\ shown' = [shown EXCEPT ![f] = Show(f, "error")]
  /\ \E next \in NextFeed(restorer[r], active) : restorer' = [restorer EXCEPT ![r] = next]
  /\ UNCHANGED <<rest, held, user>>

\* watch.statusChanged of a request nobody awaits any more: a stopped feed is
\* forgotten, a running one is not remembered.
NotifiedLate ==
  /\ FromPipe(Nobody)
  /\ LET f    == pipe[1].feed
         gone == IF pipe[1].method = "stop" /\ pipe[1].reply = "ok" THEN {f} ELSE {}
     IN  /\ active' = Forget(active, gone) /\ restorer' = Unvisit(restorer, gone)
         /\ shown' = IF pipe[1].reply = "error" THEN shown
                     ELSE [shown EXCEPT ![f] = Show(f, IF gone = {} THEN "running" ELSE "stopped")]
  /\ UNCHANGED <<client, starting, timer, disposed, gaveUp, launchVars, held, user, faults>>

\* A watcher reports that its polls fail, or succeed again.
PollNews(f, state) ==
  /\ client # None /\ f \in held[client]
  /\ \A i \in DOMAIN pipe : pipe[i].feed # f
  /\ shown' = [shown EXCEPT ![f] = Show(f, state)]
  /\ UNCHANGED <<rest, held, user, restorer, pipe>>

-----------------------------------------------------------------------------
(* Commands of the user *)

Begin(f, cmd, state) ==
  /\ user[f].at = "idle" /\ ~disposed /\ shown[f] # "removed"
  /\ user' = [user EXCEPT ![f] = Call(cmd)]
  /\ shown' = [shown EXCEPT ![f] = state]
  /\ UNCHANGED <<rest, held, restorer, pipe>>

\* startOrRetry: nothing is done for a feed that is running or starting.
StartOrRetry(f) ==
  /\ "start" \in Offered
  /\ \/ shown[f] = "stopped" /\ Begin(f, "start", "starting")
     \/ shown[f] = "error" /\ Begin(f, "retry", "error")

StopFeed(f) == "stop" \in Offered /\ Begin(f, "stop", shown[f])

EditFeed(f) == "edit" \in Offered /\ shown[f] # "stopped" /\ Begin(f, "edit", shown[f])

RemoveFeed(f) ==
  \/ "remove" \in Offered /\ shown[f] # "stopped" /\ Begin(f, "remove", shown[f])
  \/ /\ "remove" \in Offered
     /\ user[f].at = "idle" /\ ~disposed /\ shown[f] = "stopped"
     /\ shown' = [shown EXCEPT ![f] = "removed"]
     /\ active' = Forget(active, {f}) /\ restorer' = Unvisit(restorer, {f})
     /\ UNCHANGED <<client, starting, timer, disposed, gaveUp, launchVars, held, user, pipe, faults>>

-----------------------------------------------------------------------------

LaunchNext(k) ==
  Discover(k) \/ Spawned(k) \/ HandshakeOk(k) \/ HandshakeFails(k) \/ Crash(k) \/ Exit(k)

UserNext(f) ==
  \/ StartOrRetry(f) \/ StopFeed(f) \/ EditFeed(f) \/ RemoveFeed(f)
  \/ CallBackend(f) \/ ServeUser(f) \/ Answered(f) \/ TimesOut(f)
  \/ \E state \in Reports : PollNews(f, state)

RestorerNext(r) ==
  TimerFires(r) \/ Restart(r) \/ ServeRestorer(r) \/ Restored(r) \/ RestoreTimesOut(r)

Next ==
  \/ \E k \in Servers : LaunchNext(k)
  \/ \E f \in Feeds : UserNext(f)
  \/ \E r \in Restorers : RestorerNext(r)
  \/ NotifiedLate \/ Dispose

Spec == Init /\ [][Next]_vars

(***************************************************************************)
(* Fairness.  The event loop runs every callback that is due and every     *)
(* timer fires; the executable is found and spawned or an error says so,   *)
(* and the handshake is answered or times out.  A request is answered or   *)
(* times out.  What the user does, and what breaks, is not fair.           *)
(***************************************************************************)
Fairness ==
  /\ \A k \in Servers :
       /\ WF_vars(Discover(k)) /\ WF_vars(Spawned(k)) /\ WF_vars(Exit(k))
       /\ WF_vars(HandshakeOk(k) \/ HandshakeFails(k))
  /\ \A f \in Feeds : WF_vars(CallBackend(f)) /\ WF_vars(Answered(f) \/ TimesOut(f))
  /\ \A r \in Restorers : WF_vars(TimerFires(r)) /\ WF_vars(Restored(r) \/ RestoreTimesOut(r))
  /\ WF_vars(NotifiedLate)

FairSpec == Spec /\ Fairness

-----------------------------------------------------------------------------
(* Properties *)

\* No server process is left behind: one that is neither the client's nor just
\* being spawned was told to end, whatever launches, restarts, failed handshakes
\* and disposal overlap.
NoStrayServer ==
  \A k \in Servers : server[k] = "live" => client = k \/ launch[k] = "spawn"

\* The feeds something still has in hand.
BeingRestored(f) ==
  \/ timer
  \/ \E r \in Restorers :
       \/ restorer[r].at = "launch"
       \/ restorer[r].at = "answer" /\ (f \notin restorer[r].visited \/ f \in restorer[r].feed)

BeingStopped(f) ==
  \E i \in DOMAIN pipe : pipe[i].feed = f /\ pipe[i].method = "stop" /\ pipe[i].reply = "ok"

\* An active feed that no server polls is about to be restored, or shown as
\* failed: it never just stops being monitored, except after a configuration
\* change whose launch failed, which nothing tries again.
NoFeedSilentlyDead ==
  ~disposed /\ ~gaveUp =>
    \A f \in active :
      \/ client # None /\ f \in held[client]
      \/ BeingRestored(f) \/ BeingStopped(f)
      \/ shown[f] = "error"

\* A feed shown as stopped will not be restored after a crash, and is not polled
\* unless the answer of a later start is under way.
StoppedIsStopped ==
  \A f \in Feeds : shown[f] = "stopped" =>
    /\ f \notin active
    /\ client # None /\ f \in held[client] =>
         \E i \in DOMAIN pipe : pipe[i].feed = f /\ pipe[i].method = "start"

\* No command waits for ever, whatever the server does with its requests.
CommandsEnd == \A f \in Feeds : user[f].at # "idle" ~> user[f].at = "idle"

\* When crashes and configuration changes stop, every active feed is polled again,
\* or was reported, or forgotten.
ActiveFeedsRestored ==
  \A f \in Feeds :
    [](f \in active =>
         <>(\/ f \notin active \/ disposed \/ gaveUp \/ shown[f] = "error"
            \/ client # None /\ f \in held[client]))

\* When the extension is deactivated, every server it started ends.
DisposedEndsServers == disposed ~> \A k \in Servers : server[k] \in {"none", "gone"}

=============================================================================
