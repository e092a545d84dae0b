------------------------------ MODULE Service ------------------------------
(***************************************************************************)
(* What a client is told about one watcher: the dispatch and validation of *)
(* requests (service.rs), the handlers that read a session (runtime.rs),   *)
(* the classification of a failed request (error.rs), and the statistics   *)
(* of History behind them.                                                 *)
(*                                                                         *)
(* The handlers that read change no state: they are operators, and every   *)
(* request is asked in every state.  The steps are the watcher's: a poll   *)
(* that completes or fails, its start and stop, and the clock.             *)
(***************************************************************************)
EXTENDS History

CONSTANTS
  Keys, Sizes,       \* objects the bucket may hold
  Cadences,          \* expected intervals a watcher may be configured with
  Failures,          \* sets of Needles found in the text of a failed request
  MaxTime,           \* bound of the clock
  MaxHistoryLimit,   \* MAX_HISTORY_LIMIT
  MaxResponseObjects \* MAX_RESPONSE_OBJECTS

ASSUME ServiceAssumption ==
  /\ Keys \subseteq Nat /\ Sizes \subseteq Nat /\ Cadences \subseteq Nat
  /\ MaxTime \in Nat /\ MaxResponseObjects \in Nat \ {0}

VARIABLES
  now,
  watcher,   \* the definition of the registered watcher, None without one
  snapshot,  \* WatchSession::snapshot: the history and the time of the last poll
  status     \* WatchSession::status

vars == <<now, watcher, snapshot, status>>

None == [none |-> TRUE]

-----------------------------------------------------------------------------
(* Error codes and failures *)

Code == [methodNotFound |-> -32601, invalidParams |-> -32602, watcherNotFound |-> -32001]

Error(code) == [error |-> Code[code]]
IsError(answer) == "error" \in DOMAIN answer

\* The kinds in the order in which StoreError::aws looks for their needles
Needles == <<"authentication", "accessDenied", "notFound", "network", "serviceUnavailable">>

Classify(failure) ==
  LET found == {i \in DOMAIN Needles : Needles[i] \in failure}
      kind  == IF found = {} THEN "other" ELSE Needles[Min(found)]
  IN  [kind |-> kind,
       retryable |-> kind \notin {"authentication", "accessDenied", "notFound"}]

-----------------------------------------------------------------------------
(* The session *)

\* A watcher is offered with these settings; Missing is a field left out, and
\* identified is false of an id that is given and blank.
Definitions ==
  [named : BOOLEAN, targeted : BOOLEAN, identified : BOOLEAN, interval : {0, 1},
   expected : Cadences \cup {Missing, 0}, historyLimit : {0, Capacity, MaxHistoryLimit + 1}]

\* WatchDefinition::validate, then WatcherConfig::validate
Valid(definition) ==
  /\ definition.targeted /\ definition.identified /\ definition.interval > 0
  /\ definition.historyLimit \in 1..MaxHistoryLimit
  /\ definition.expected # 0
ConfigValid(definition) == definition.named /\ definition.historyLimit > 0

Init ==
  /\ now = 0 /\ watcher = None /\ snapshot = None
  /\ status = [state |-> "stopped", error |-> None]

WatchStart(definition) ==
  /\ watcher = None /\ Valid(definition) /\ ConfigValid(definition)
  /\ watcher' = definition /\ snapshot' = None
  /\ status' = [state |-> "running", error |-> None]
  /\ UNCHANGED now

\* The session leaves the registry, its history with it.
WatchStop ==
  /\ watcher # None /\ watcher' = None /\ snapshot' = None
  /\ status' = [state |-> "stopped", error |-> None]
  /\ UNCHANGED now

Current == IF snapshot = None THEN [k \in {} |-> 0] ELSE snapshot.history

\* A poll that listed these objects
PollCompletes(listing) ==
  /\ watcher # None
  /\ snapshot' = [history |-> Upsert(Current, listing).history, asOf |-> now]
  /\ status' = [state |-> "running", error |-> None]
  /\ UNCHANGED <<now, watcher>>

PollFails(failure) ==
  /\ watcher # None
  /\ status' = [state |-> "error", error |-> Classify(failure)]
  /\ UNCHANGED <<now, watcher, snapshot>>

Tick == now < MaxTime /\ now' = now + 1 /\ UNCHANGED <<watcher, snapshot, status>>

\* A listing of one object suffices: of several, one poll each.
Next ==
  \/ \E d \in Definitions : WatchStart(d)
  \/ WatchStop \/ Tick
  \/ \E k \in Keys, s \in Sizes : PollCompletes(<<[key |-> k, at |-> now, size |-> s]>>)
  \/ PollCompletes(<<>>)
  \/ \E f \in Failures : PollFails(f)

Spec == Init /\ [][Next]_vars

-----------------------------------------------------------------------------
(* Requests *)

Methods == {"watch.status", "objects.list", "statistics.frequency", "statistics.history"}

\* A request has a method, the watcher asked for (the one there is, "known", an
\* "other", a "blank" one, or "none" where params lack the field) and a limit.
Limit(request) == IF request.limit = Missing THEN MaxResponseObjects ELSE request.limit

\* parse_params, validate_watcher_id and validate_limit
InvalidParams(request) ==
  \/ request.id = "blank"
  \/ request.id = "none" /\ request.method # "watch.status"
  \/ /\ request.method \in {"objects.list", "statistics.history"}
     /\ Limit(request) \notin 1..MaxResponseObjects

Statistics == StatisticsFor(snapshot.history, snapshot.asOf, watcher.expected)

WatchStatus ==
  [state |-> status.state, error |-> status.error,
   objectCount |-> Cardinality(Objects(Current)),
   polledAt |-> IF snapshot = None THEN Missing ELSE snapshot.asOf,
   health |-> IF snapshot = None THEN None ELSE Statistics]

ObjectsList(limit) ==
  Ordered(First(limit, Objects(Current), NewestFirst), NewestFirst)

StatisticsHistory_DropsNewest(limit) ==
  LET objects == Ordered(Objects(Current), OldestFirst)
      kept    == SubSeq(objects, 1, Min({limit, Len(objects)}))
  IN  [i \in DOMAIN kept |->
         [key |-> kept[i].key, at |-> kept[i].at,
          interval |-> IF i = 1 THEN Missing ELSE 4 * (kept[i].at - kept[i - 1].at)]]

\* The oldest objects are dropped; the first sample left has no interval.
StatisticsHistory(limit) ==
  LET objects == Ordered(Objects(Current), OldestFirst)
      kept    == SubSeq(objects, Max({0, Len(objects) - limit}) + 1, Len(objects))
  IN  [i \in DOMAIN kept |->
         [key |-> kept[i].key, at |-> kept[i].at,
          interval |-> IF i = 1 THEN Missing ELSE 4 * (kept[i].at - kept[i - 1].at)]]

Answer(request) ==
  LET reads == [m \in Methods |->
        CASE m = "watch.status" ->
               [watchers |-> IF watcher = None THEN {} ELSE {WatchStatus}]
          [] m = "objects.list" -> [objects |-> ObjectsList(Limit(request))]
          [] m = "statistics.frequency" ->
               [statistics |-> IF snapshot = None THEN None ELSE Statistics]
          [] OTHER -> [samples |-> StatisticsHistory(Limit(request))]]
  IN  CASE request.method \notin Methods -> Error("methodNotFound")
        [] request.method \in Methods /\ InvalidParams(request) -> Error("invalidParams")
        [] OTHER ->
             IF request.id = "other" \/ (request.id = "known" /\ watcher = None)
             THEN Error("watcherNotFound")
             ELSE reads[request.method]

-----------------------------------------------------------------------------
(* Properties *)

Ask(method, limit) == Answer([method |-> method, id |-> "known", limit |-> limit])

ViewsAgree(objects, samples) ==
  LET n == Len(objects)
  IN  /\ n = Len(samples) /\ n <= Min({MaxResponseObjects, Capacity})
      /\ \A i \in 1..n : samples[i].at = objects[n + 1 - i].at
      /\ \A i \in 2..n : samples[i].interval >= 0

\* The reads of one state fit together: two views with the same limit are refused
\* or answered alike and show the same arrivals in opposite orders, intervals are
\* never negative, and a view is never more than is retained and may be shown.
ReadsAgree ==
  \A limit \in {Missing} \cup 0..(MaxResponseObjects + 1) :
    LET list == Ask("objects.list", limit)
        view == Ask("statistics.history", limit)
    IN  IF IsError(list) THEN view = list
        ELSE /\ ViewsAgree(list.objects, view.samples)
             /\ Answer([method |-> "watch.status", id |-> "none", limit |-> Missing])
                  = Ask("watch.status", limit)

\* The intervals of a view that leaves nothing out add up to the total of the
\* frequency statistics, their largest is the largest reported, and the total is the
\* span between the oldest object and the newest one.
TotalsAgree ==
  snapshot # None =>
    LET samples    == Ask("statistics.history", Missing).samples
        statistics == Ask("statistics.frequency", Missing).statistics
        intervals  == [i \in 1..Max({0, Len(samples) - 1}) |-> samples[i + 1].interval]
    IN  /\ statistics.total = statistics.span
        /\ statistics.objectCount = Len(samples) =>
             /\ Total(intervals) = statistics.total
             /\ intervals # <<>> => statistics.largest = Last(Ascending(intervals))

\* The statistics against what they mean, for any history: half of the intervals
\* lie on either side of the median, the 95th percentile is the least interval that
\* 95 in 100 do not exceed, the threshold is crossed exactly when the feed is late,
\* and a feed whose newest object is empty, or which is late, is never ranked as fine.
StatisticsAgree ==
  snapshot # None =>
    LET s == Statistics
        v == Seconds(IntervalsFor(snapshot.history))
        n == Len(v)
        AtMost(x)  == Cardinality({i \in 1..n : v[i] <= x})
        AtLeast(x) == Cardinality({i \in 1..n : v[i] >= x})
    IN  /\ n = 0 => {s.median, s.p95, s.largest} = {Missing}
        /\ n > 0 =>
             /\ 2 * AtMost(s.median) >= n /\ 2 * AtLeast(s.median) >= n
             /\ s.p95 \in ToSet(v) /\ 100 * AtMost(s.p95) >= 95 * n
             /\ \A x \in ToSet(v) : x < s.p95 => 100 * AtMost(x) < 95 * n
             /\ s.median <= s.largest /\ AtMost(s.largest) = n
        /\ s.lateSince # Missing <=> s.status = "late"
        /\ s.status = "late" =>
             s.overdue > 0 /\ s.lateSince + s.overdue = 4 * snapshot.asOf
        /\ s.status = "late" \/ s.size \in {"empty", "small", "large"} =>
             Rank[s.severity] >= Rank["warning"]

\* A lateness episode keeps its beginning, which clients tell episodes apart by:
\* as long as polls bring no new object, a late feed stays late since the same
\* moment, and longer and longer.
EpisodeKeepsItsBeginning ==
  snapshot # None =>
    LET At(t) == StatisticsFor(snapshot.history, t, watcher.expected)
        first == At(snapshot.asOf)
    IN  first.status = "late" =>
          \A t \in (snapshot.asOf + 1)..(MaxTime + 2) :
            LET then == At(t)
            IN  /\ then.status = "late" /\ then.lateSince = first.lateSince
                /\ then.overdue > first.overdue /\ then.size = first.size
=============================================================================
