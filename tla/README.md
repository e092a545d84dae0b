# S3 Pulse: TLA+ verification

S3 Pulse watches S3 prefixes ("feeds"). A Rust server (`s3pulse`) polls the
buckets and talks newline-delimited JSON-RPC over stdio to a VS Code extension
written in TypeScript. This directory holds TLA+ models of its core logic, TLC
configurations that check them on small instances, and TLAPS proofs for every
instance. All line numbers refer to files under `src/`.

## Inventory

| Part | State it keeps | Operations | Hard behaviour |
| --- | --- | --- | --- |
| Transport (`rpc/transport.rs`) | in-flight request tokens, permits, task set | read a line, admit, cancel, answer, drain at EOF | out-of-order answers, cancel racing completion, grace timeout, id reuse |
| Watch runtime (`rpc/runtime.rs`) | registry of sessions; per session token, task slot, status, snapshot | `watch.start`, `watch.stop`, `watch.status`, the polling task | starts, stops, cancellations and polls interleave at every await |
| Service (`rpc/service.rs`, `rpc/protocol.rs`) | none | parameter validation, dispatch | boundary checks |
| Download (`store.rs`, `runtime.rs` `object_download`) | temporary file, destination, progress channel | stream, install, clean up, report | cancellation racing file creation, lossy progress, no-clobber install |
| History (`history.rs`, `watcher.rs`) | retained objects | poll, reconcile, evict, statistics | eviction vs. reported changes, partial poll failure |
| Templates (`template.rs`, `uri.rs`) | none | parse, render, match, lookback | calendar boundaries |
| Backend service (`backend.ts`, `rpcClient.ts`, `rpcProtocol.ts`) | client, generation, active watchers, restart timer; pending requests | launch, handshake, restore, restart with backoff, dispose | process exit racing requests, restart superseded, restore racing start/stop |
| Alerts (`alerts.ts`, `health.ts`) | per-feed facts and episode memory | notification to facts, confirm, cooldown, recover | de-duplication over unstable episode keys |
| Dashboard and tree (`dashboard.ts`, `feedTree.ts`, `extension.ts`) | panels, feed status, revisions | start, stop, refresh, edit, remove | answers applied out of order, notification before subscription |
| CLI (`app.rs`, `output.rs`, `cli.rs`) | none beyond a run; `watch` keeps a history | list, history, stats, watch, download | prefixes are listed and cut to a limit one by one |

The extension starts the server, performs `system.version`, restores its
watchers with `watch.start`, and then reacts to notifications. The transport
runs every request in its own Tokio task against the watch runtime; a watcher
outlives the request that started it and sends notifications through the same
serialised writer. Downloads run inside their request.

What makes each part correct:

- Transport: an id names exactly one unfinished request, permits are conserved,
  every admitted request is answered, a cancellation hits only requests it was
  meant for, and EOF ends the process even if handlers hang.
- Watch runtime: one live poller per id and always the registered one, no entry
  overwritten, the limit holds although it is checked twice around an await, a
  start answered with an error leaves no poller out of reach, and reports are
  consistent.
- Download: nothing short of a declared length is installed, nothing is overwritten
  without permission, a success was installed, progress never runs backwards.
- History: what is retained is the newest of what was listed, and the changes
  reported are the changes of what is retained.
- Templates: a step back stays in the period it is meant for; what is listed
  under a rendered prefix matches the template.
- Backend service: the active feeds run on exactly one server, whatever exits,
  is superseded or is edited meanwhile; no request stays pending for ever.
- Alerts: one alert per confirmed episode, and a roll-up that follows the server.
- Service: what the reads of one watcher answer fits together, and its statistics
  mean what they say.
- Dashboard: a feed shown as stopped is stopped, one shown as running is polled or
  about to be.
- CLI: every command shows the newest of what is under all its prefixes.

## Modules and how they correspond to the code

| Module | Models | State in the code |
| --- | --- | --- |
| `WatchRegistry` | what the watch runtime promises: sessions take an id, poll, are told to stop, give the id back | abstract |
| `WatchRuntime` | `watch_start`, `watch_stop`, `run_watcher`, what `watch_status` reads, the cancellation and drop of the two handlers | `registry` is `CoreRuntime::watchers`; `token`, `task`, `status`, `polled`, `error`, `snapshot` are the fields of a `WatchSession`; `startPc` and `stopPc` say at which await a handler is; `shown` is the last status notification of an id the client has read |
| `Transport` | `serve_with_limit`: reader, admission, answers, cancellation, EOF drain, early failure | `inFlight` is the `in_flight` map, `permits` the semaphore, `task` the `JoinSet`, `cancelled` the tokens; `inbox`, `closed` and `pipe` are the client's side |
| `Download` | `object_download`, `download_object`, `stream_download`, the two install paths, the guard of the temporary file | `pc` and `count` are the future, `channel` the progress channel, `temp` and `dest` the files, `pool` and `outcome` the operation on Tokio's blocking pool |
| `History` | `RollingHistory`: merge, eviction, changes, intervals, statistics, health | no state: operators on a map from key to object |
| `Polling` | `PollingWatcher::run` and `poll_once`, `AwsS3Store::list_objects` with its pages | `history` is `by_key`; `targets`, `cursor`, `newest`, `listing` are the locals of a poll; `channel` is the event channel; `pages` and `seen` are history variables |
| `Service` | `S3PulseRpc::handle` and the handlers that read a session; `StoreError::aws` | `snapshot` and `status` are those of the `WatchSession`; the requests are operators |
| `Targets` | `DateTemplate`, `S3Uri::validate`, `resolve_targets`, `key_within_target` | no state of the program: the clock and one target |
| `Cli` | `list`, `history`, `stats`, `watch` of `app.rs` | `known` is the history of `watch`'s watcher, `printed` its output |
| `Backend` | `BackendService`, `RpcClient`, and the commands of the dashboard and `extension.ts` that use them | `client`, `starting`, `timer`, `active`, `disposed` are `#client`, `#starting`, `#restartTimer`, the keys of `#activeWatchers`, `#disposed`; `superseded` holds the launches of an earlier `#generation`; `restorer` are running calls of `#startAndRestore` with the feeds their loop has before it, `user` the command on each feed; `shown` is the tree; `server`, `held`, `pipe` are the processes |
| `AlertEngine` | `AlertController` and `AlertEngine`, fed by the notifications a polling server sends | `facts` is `#feeds`, `memory` is `#memory`, `policy` is `#policy`; `seen` and `told` are history variables |

How they fit together. `Polling`, `Service` and `Cli` use the operators of
`History`; `Cli` extends `Targets` and lists what its templates resolve to.
`WatchRuntime` implements `WatchRegistry` (`ImplementsRegistry`), by the mapping
`holder` = `registry`, `told` = `token`, `life` = what became of the task.
`Backend` talks to servers that are what `WatchRegistry` says, sets of watchers:
a start of an id that is held fails, a stop of one that is not held fails.

One action stands for the code between two awaits (or two lock acquisitions):
what a handler does without giving up control is one step, every await is an
interleaving point, and a dropped future stops where it is. `PROJECT.json` maps
each definition to its lines. Definitions with a suffix (`RemoveOwn_ById`,
`Sync_NoLengthCheck`) are deliberately wrong variants of the definition after
them; no specification uses them. Each shows that a property can fail.

Specific abstractions:

- `WatchRuntime`: a poll is a success or a failure of some kind; a poll that ends
  after its token fired may still be recorded, as in the code. Objects are not
  modelled, only whether a snapshot is stored. A start that the transport drops is
  answered as cancelled, like one that returns its cancellation; `startPc` keeps the
  two apart ("dropped", "cancelled"). The locks and the output pipe are not modelled:
  a client that does not read its input would hold up handlers and tasks alike.
- `Transport`: a line is a request, a cancellation or malformed. Splitting bytes
  into lines and JSON parsing are left out. The client may use an id again before
  its answer and cancel ids that name nothing.
- `Download`: a chunk is a unit. An operation whose future is dropped still
  happens, later, on the pool; `write` is acknowledged when it is queued and
  reports its error at the next operation. `RenameReplaces` tells POSIX
  (`TRUE`) from Windows, `Declared` the downloads whose GetObject answer has a length
  to compare with. The guard's removal of the temporary file may fail, which is only
  logged; `kept` are the downloads it failed for.
- `Polling`: the sizes of objects do not matter and are 1; a page is cut in key
  order, and writers of the bucket may come between two pages.
- `History`: ticks instead of seconds; durations are in quarters of a tick, so
  that halves and one-and-a-halves stay integers. Frequencies per hour and day,
  which are the mean interval in another unit, are left out.
- `Targets`: a text is a sequence of tokens, not of characters, with digits of
  their own because an unpadded field can run into one. The calendar is that of
  `chrono`, external; a zone is a fixed offset, so the hour a clock change skips
  or repeats is not there.
- `Cli`: a step of `watch` is a whole poll with the sleep after it. The download
  command and argument parsing are left out.
- `Backend`: the extension is one JavaScript thread, so the continuations of a
  promise run in the step that settles it. A message is in the pipe until it is
  read. The delay of the backoff is left out, as is everything a panel shows. The
  order in which a restore loop walks the `Map` of active feeds is left open: it
  takes any feed it has before it. The commands on one feed come one after another,
  which `dashboard.ts:312` and `extension.ts:64` do not enforce; the questions that
  edit and remove ask (`extension.ts:92`, `extension.ts:138`) are answered at once;
  a cancelled handler has its effect before its client gave up or never, though it has
  the grace for it; a client that closes on a write error or a malformed line
  (`rpcClient.ts:57`, `rpcClient.ts:170`) is closed as by a crash.
  `gaveUp` remembers that a restart after a configuration change failed.
- `AlertEngine`: time is a small clock. Recovery announcements, off by default,
  are left out. The notifications of one poll are handled before the next poll
  of the feed, as the poll interval is seconds and the handling is synchronous.

## Runs

| Run | Bounds | What it shows |
| --- | --- | --- |
| `watch_registry` | 2 starts (cancellable), 2 stops, 1 id, limit 1 | No interleaving orphans a poller, overwrites an entry; a start answered with an error leaves at most a registered watcher. |
| `watch_report` | 2 starts, 1 stop, 2 ids, limit 1 | Consistent reports, no "stopped" shown for a live watcher while the client does one thing at a time, and the registry is implemented. |
| `watch_live` | 1 start, 2 stops | Cancelled starts and stops end; an error is eventually shown unless a poll hangs. |
| `transport` | 3 requests, 1 id, limit 2, pipe of 1 line | For any use of the id: in-flight map, permits, cancellation, answers, orderly end; cancelled requests and the connection end. |
| `alerts` | 1 feed, 2 sizes, 2 confirmations, cooldown 1, clock to 3 | A lateness alerts once and not never, unless failing polls alerted in between; roll-up current and free of stopped feeds. |
| `alerts_error` (violation) | 1 size, late after 3, fixed policy | A feed whose polls keep failing is never alerted on. |
| `download` | 2 downloads, 1 may overwrite, the other has a declared length, 2 chunks, channel of 1, POSIX and Windows | Destination, clobbering, success, leftovers, progress, and the end of a cancelled download. |
| `polling` | 3 keys, 2 overlapping prefixes, page of 1, capacity 2, 3 writes, 2 ticks | What is retained and what is reported; a cancelled watcher ends. |
| `service` | 4 keys, 3 sizes, capacity 4, responses of 3 objects, 2 ticks | Views, totals, measures and the identity of an episode, for every request in every state. |
| `commands` | 13 prefix texts, 3 zones, lookback to 13, 20 instants, limits to 3 | The periods polled, what is listed can be downloaded, the commands show the newest. |
| `backend_feeds` | 2 feeds (symmetric), 1 fault, 1 restorer, all commands, no timeouts | No feed silently dead; a stopped one stays stopped. |
| `backend_live` | 1 feed, 2 faults, 2 restorers, timeouts, start and stop | No stray server; commands end; active feeds come back or are reported; disposal ends every server. |

Why the bounds are enough. The races of the watch runtime need a session, its
successor under the same id, and two stops that hold the older one; a limit of
one makes two starts compete for the last slot. The transport's need one request
running, one refused, and one that uses the id again. Two downloads suffice
for one to find what the other installed, and for one to have a declared length and
one not; a channel of one makes samples drop.
Two confirmations, a cooldown of one tick and three ticks in all let an
episode confirm, alert, end and return inside and outside the cooldown, with an
alert to another problem in between; at a cooldown of two ticks there is no room
for that alert. The
feeds of the alert engine are independent but for the policy, so one is enough.
A capacity below the number of keys and a page of one make a poll evict, and be
overtaken by writers, at every page; the second prefix covers the first, as the
unpadded month 1 covers 12. Four objects give medians of odd and even counts and a
95th percentile between two ranks; `MinSizeObservations` is lowered to 3 so that
a size is classified within them, and a response limit of 3 cuts a view below what is
retained. The instants are the ends of the months and years
that differ in length, in a leap and a common year, at both ends of the day; a
lookback of 13 passes a whole year of months. Two feeds suffice for the restore
loop to be between them, in either order, and nothing tells them apart but their
names, so their permutation is a symmetry; a second fault lets a launch be superseded while
another restores. A larger instance of `Backend`, with timeouts and two feeds, is
out of TLC's reach, so the two runs divide the faults. Deadlock is not
checked where the system may really stop: at the end of the clock or after
disposal. The theorems below do not have these bounds.

## Fairness

- Tokio polls every ready future again and releases locks, the client reads its
  input: weak fairness of the local steps. `Finish` of a polling task is strongly
  fair, as is `SeeCancelled` of `Polling`: the token is one ready branch of a
  `select!`, which polls its branches in random order, so it cannot be passed over
  at every iteration for ever.
- Timers fire: the cancellation grace (`GraceExpires`, `DropStart`), the
  shutdown grace (`CancelAll`), the restart timer (`TimerFires`), the timeout of
  a request (`TimesOut`, `RestoreTimesOut`) and of the handshake.
- The event loop of the extension runs what is due; an executable is found and
  spawned or an error says so; a process whose input ended, or which is killed,
  exits.
- Not fair, because nothing guarantees it: S3 and the credential chain
  (`StartCreate`, `PollOk` and `PollErr`, `Get`, `Read`, `ReadPage`; none has a
  timeout of the program's, so `ErrorEventuallyShown` has the hypothesis that no poll of the
  watcher hangs for ever), the timer of a watcher's sleep where
  a cancellation must end it, handlers (`HandlerReturns`, `ServeUser`), the
  client's decisions (`ClientClose`, `Cancel`), the user's commands, what breaks,
  and `Drop` of a download.

## Proofs

Eight modules hold theorems for every value of the constants: the `_proofs` modules
of `WatchRuntime`, `Transport`, `Download`, `Polling`, `AlertEngine` and `Backend`,
`Readers_proofs` about what is read of a history (`Service`, and `Cli` with
`Targets`), and the lemmas about the operators of `History` and about lists in
`History_proofs`. They rest on the assumptions named in the modules
(`ConstantsAssumption`, `DownloadAssumption`, `HistoryAssumption`,
`PollingAssumption`, `AlertAssumption`, `BackendAssumption`, `ServiceAssumption`,
`TargetsAssumption`, `CliAssumption`): finite sets where a cardinality is counted,
positive limits and capacities, keys and times that are natural numbers, and "none"
values that are not elements of the sets they are added to. Of times
`TargetsAssumption` asks that the periods looked back to lie in our era and before
the year 10000, where four digits write a year and `chrono` counts as the model does;
`CliAssumption` asks the first of the period an object is written into.

- Watch runtime. The claim that a live watcher is registered is not inductive:
  the registry changes in three handlers. The strengthening says that an entry is
  a session of its id past its insert (`RegistryKeyed`), that an inserted session
  stays until its token fires (`InsertedIsRegistered`), that whoever is about to
  remove has fired the token (`RemoverCancelled`) and that a task is spawned after
  the insert (`TaskAfterInsert`). From it follow `NoOrphanedWatcher`,
  `EntriesAreOwned` and `FailedStartsUndone`. `LimitHolds` counts the registry
  by adding one element under `Cardinality(Registered) < Limit`;
  `ReportsAreConsistent` uses `StatusConsistent`, which holds of every session,
  registered or not. `StoppedIsNotStale` has the hypothesis `CarefulClient`, the
  constant by which the client cancels no start and sends one stop at a time: for
  other clients the claim is false (see below).
- The registry. `RegistryImplemented` says that every step of `WatchRuntime` is a
  step of `WatchRegistry` or a stutter. `TakesWhenInserted` counts the registry
  before an insert; that the first spawn of a session is its `Begin` needs
  `SpawnInv` (a handler past its spawn has a task, one before it has none), and that
  whoever gives an id back was told to stop needs the invariants above.
- Transport. `InFlightIsExact` needs that a request line in the input is that of
  a request not yet admitted, and once (`InboxSent`), which is a fact about
  sequences; a failed connection keeps no running request. `PermitsAreConserved`
  counts the operating requests as each starts or ends; `BusyMeansFull` follows.
  `CancelsAreForTheirRequest` says of every token that fired, of every cancellation
  still to be read and of every answer that it goes back to a cancellation
  the client wrote while that request waited for its answer (`CancelLinesWanted`,
  `TokensWanted`): what the reader meets before the cancel line was written before it.
  None of these asks anything of the ids the client uses. `EndLeavesNothing`
  follows the end of the input through the drain (`EndInv`).
- Download. `FilesAreSound` is the invariant of one download: what is on the
  blocking pool is what its step awaits (`PoolAt`), only a download that may
  overwrite renames or removes the destination, and removes it only where rename does
  not replace (`AllowedAt`), the temporary file holds what was counted, which is the
  declared length if there is one when it can be installed, and is gone or empty after
  the end unless the guard could not remove it (`TempAt`), a success was installed
  (`InstalledAt`). `Frame` says that a step
  of another download leaves it alone, `OwnStep` goes through the actions. Three
  properties of the run `download` follow. `ProgressNeverRunsBack` is an action
  property: the samples in the channel and the one being relayed lie, in their order,
  between what was shown and what was counted (`ProgressInv`), and the final one is
  sent when the channel is drained.
- History. Sorting and cutting are by rank: the place of an element is the number of
  those before it, the ranks of a finite set in a strict order are exactly
  `0 .. n-1` (`RanksAreExact`), so the sorted sequence has each element once and in
  order (`RankedSequence`), the first n are n (`FirstIsFull`), and from the two ends
  the times are the same (`OppositeOrders`). What a part of the objects has as its
  first n is known from the whole (`FirstOfPart`, `FirstInPart`). `SameRetained` says when two histories retain the same;
  `UpsertReportsTheDifference` says what a merge reports.
- Polling. `pages` is what the poll was shown so far, `seen` what earlier ones were.
  `PollInv` says that whatever is held was observed in this poll, with the keys of the
  listing in progress in order (`Collected`), and that an observation with fewer than
  `Capacity` newer ones is still held, as the last of its key (`NewestDelivered`).
  Dropping loses nothing: later observations can only make those newer ones more
  (`NewerGrows`), and `SameRetained` then makes the merged history that of all pages.
- Service. `SessionInv` says that the snapshot is a map from keys to at most
  `Capacity` objects. The measures are then theorems about any ascending sequence:
  `AscendingSorts` keeps how many values lie in any range, so the median and the
  percentile can be counted on the sorted one. `LateIsPastTheThreshold` gives
  lateness, its beginning and its length by the threshold; an episode keeps its
  beginning as none of these but the length depends on the time. The two views are
  cut from opposite ends of opposite orders and still agree (`ViewsOfOneLimit`).
  The intervals between objects in the order of their times add up to the span from
  the first to the last; a sum is a fold over a set, and is taken apart one element at
  a time (`TotalsOfOneStateAgree`).
- Lists. The prover has no induction schema for a formula, but the numbers for which
  something holds are a set, and a set with 0 that is closed under successors has all
  numbers (`Induction`; `Downward` from an end). By it a function defined step by step
  exists (`Recursion`, `BackwardExists`), and what `FlattenSeq` joins has the elements
  of its lists, each once if they are apart (`JoinsElements`, `JoinsOnce`).
- Targets. Days are numbered without a gap (`MonthsFollow`, `YearsAreApart`), so every
  number has one date, the one that `DateAt` finds (`DateExists`, `DateIsFound`). A
  step back, clamped to the end of a shorter month, lands in the period meant
  (`StepsLandInPeriods`), and moments that agree down to the finest unit of a template
  are rendered alike (`RenderedAlike`); hence `TargetsResolveThePeriods`. A rendering
  has for each segment a text of an admitted width, so one split matches from every place
  on (`PlacesExist`, `RenderedMatches`), whatever follows and at whatever time:
  `ListedObjectsAreDownloadable`.
- Commands. `CliInv` says that the target is one the watcher accepts, that the keys of
  the bucket are text, and `PrintsOnce`. The list of every prefix, cut to the limit,
  still has the newest of all (`ShownHasTheNewest`), so sorting and cutting the joined
  list gives them (`NewestAreListed`). `PrintsOnce` is kept because the history is the
  newest of what was printed: an object that was printed and dropped is older than
  `Capacity` others, which stay in what is merged, and cannot come back
  (`PollPrintsOnce`).
- Alerts. `AlertInv` says of each feed that the notifications under way end with the
  server's status of it (`Announced`), that facts and memory go together (`Remembered`),
  that an alert to lateness is remembered while the feed is late (`ToldOfLateness`), and
  that the polls that showed a lateness were counted by the engine, whatever status
  notifications came between them (`SeenLate`).
- Backend, in four layers. `LaunchInv`: a launch that was not superseded is the shared
  one, no client is installed before its server was spawned, and launches are at most
  one more than the faults (`Counted`), so that there is always a number for the next
  one. `CallInv`: a caller that awaits an answer awaits it from the client, and every
  answer in the pipe is that of the request its caller awaits. `ShownInv`: of the
  answers under way about a feed the last one is true (`Told`), a feed shown as stopped
  is not active and polled only if the answer of a start is under way, and nothing is
  under way for a removed one. `Covered`: an active feed is polled, or before a restore
  loop or the timer, or its stop is under way, or it is shown as failed.

Only model-checked: everything under fairness, as liveness is out of the prover's
reach: that cancelled starts, stops, runs, downloads and requests end, that an
orderly end of the service ends, that an error is shown, and the three liveness
properties of `Backend`. Every safety property, action property and refinement the
runs check has a theorem.

## What the models found

The run `alerts_error` is a finding of `PROJECT.json`: with the default of two
confirmations a failing feed is never alerted on. The others came up in writing the
models and their proofs, most of them as a counterexample to a property stated too
strongly.

Server:

- Overlapping stops, or a stop overlapping a cancelled start, can leave "stopped"
  as the last status shown for a live watcher (`runtime.rs:276`). The property is
  stated for a client that does one at a time.
- A watcher's first error can reach the client before the "running" of its start
  (`runtime.rs:250`); a later poll corrects it.
- A watcher goes on polling after a failure that is not retryable
  (`runtime.rs:597`), while `docs/json-rpc.md:262` says "`retryable` says whether
  the watcher is still polling."
- A start whose handler the transport drops while it stores its task or notifies is
  answered as cancelled (`transport.rs:305`), and its watcher polls on: registered, so
  that `watch.stop` reaches it, but no answer told the client. One dropped while it
  undoes itself leaves the entry of an ended watcher until a `watch.stop`.
- An id may be refused as a duplicate right after its answer was read
  (`transport.rs:281`, `transport.rs:321`).
- A handler that succeeds within the cancellation grace is answered with its
  success (`transport.rs:306`), against the comment above it.
- If `remove_file` fails after `hard_link`, the download is reported as failed
  although it was installed (`store.rs:434`). Where rename does not replace, the
  destination may be removed and nothing put there (`store.rs:449`).
- A temporary file whose creation was still queued when the download was cancelled
  is created after the guard looked for it, and an empty file stays
  (`store.rs:139`); `docs/json-rpc.md:207` promises its removal. When the guard cannot
  remove the file, partial data stays and only the log says so (`store.rs:418`).
- Without a declared length, a body that ends early is installed as if it were whole
  (`store.rs:183`).
- `lateSince` is not always the same after a restart: with a template, or after
  deletions, the new history is another (`history.rs:279`, `docs/json-rpc.md:95`).
- A prefix with `{{` or `}}` and no placeholder is listed with its doubled braces
  (`template.rs`, `docs/json-rpc.md:37`).

Command line:

- `stats` and `watch` ignore `--timezone` (`app.rs:188`, `app.rs:224`); `list` and
  `history` honour it, and its help text makes no difference.
- `list` and `history` show an object twice when one prefix covers another, as an
  unpadded "1" does "12" (`app.rs:93`). `CommandsShowTheNewest` is stated for
  prefixes that do not.

Extension:

- A size anomaly is not alerted on while it lasts: its episode key contains the
  gap, which moves with every poll (`health.ts:88`).
- With one confirmation, the same outage alerts again after each cooldown, since the
  episode key of a failed poll alternates (`health.ts:219`); `package.json:291` says
  "A single ongoing outage alerts once regardless of this."
- Only the episode notified last is remembered, so a lateness that goes on is alerted
  on again once failing polls were alerted on in between (`health.ts:229`);
  `LateAlertsOnce` counts between such alerts.
- A restored watcher's status counts as an observation with the health of an earlier
  poll (`alerts.ts:117`).
- A retry during a relaunch can meet the restore loop: the user reads "Watcher
  already exists", which the comment at `dashboard.ts:181` excludes. So can a feed
  the user starts while the loop runs (`backend.ts:268`), and every active feed
  when a restore that a restart superseded is repeated by the timer
  (`backend.ts:260`).
- A stop that is answered after the restore loop sent its `watch.start` leaves the
  feed polled although it is not active; `StoppedIsStopped` excepts it while that
  answer is under way.
- A restart after a configuration change whose launch fails is not repeated, and
  the feeds are still shown as running (`backend.ts:119`). `NoFeedSilentlyDead`
  excepts it.
- A start that succeeds after it timed out is shown as running but not remembered,
  so it is not restored after a crash (`dashboard.ts:224`).
- A command given during the handshake sends its request to a server whose version
  is not accepted yet (`backend.ts:187`).
- Feeds that a loop still had before it when the server died are reported as failed
  although the restart is scheduled (`backend.ts:271`).

## Not modelled

- Panels, what `refresh` loads into them, the wizard, the stored settings, and
  `adapters.ts`: they draw or convert. Two of their hazards are listed with a note.
  By reading: `mergeObjects` lets an older refresh overwrite a newer observation
  (`adapters.ts:223`).
- The recovery announcement of the alerts, argument parsing and printing of the
  command line, its download command, messages and serialisation of errors.
- Webview markup and graphs, packaging and release scripts: no logic of the
  protocol.

## What could come next

- What `list` and `history` show when one prefix covers another: the newest objects,
  some of them twice; `CommandsShowTheNewest` leaves this case out.
- Zones whose offset changes during the year.
- `refresh` and the revision of a panel, composed with `Backend`.
